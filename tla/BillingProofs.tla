---------------------------- MODULE BillingProofs ----------------------------
EXTENDS Billing, FiniteSetTheorems, TLAPS

LEMMA TotalType == ASSUME NEW ls \in SUBSET Line, NEW bonus \in Nat
                   PROVE  BillTotal(ls, bonus) \in Nat
  BY MoneyAssumption DEF BillTotal

LEMMA AccrualType == ASSUME NEW os \in SUBSET Order, NEW award \in [os -> Accruals]
                     PROVE  AccrualRows(award) \subseteq LedgerRow
<1> SUFFICES ASSUME NEW r \in AccrualRows(award) PROVE r \in LedgerRow
  OBVIOUS
<1>1. PICK o \in DOMAIN award :
         r = [type |-> "accrual", order |-> o, guest |-> GuestOf[o], amount |-> award[o]]
  BY DEF AccrualRows
<1>2. o \in Order /\ GuestOf[o] \in Guest /\ award[o] \in Nat
  BY MoneyAssumption, RowsAssumption
<1>3. QED
  BY <1>1, <1>2 DEF LedgerRow

\* What settling the orders of a bill leaves of the types.
LEMMA SettleType ==
  ASSUME TypeOK, NEW os \in SUBSET Order, NEW dropped \in SUBSET Order,
         NEW rows \in SUBSET LedgerRow, SettleOrders(os, dropped, rows)
  PROVE  /\ status' \in [Order -> OrderStatus \cup {"absent"}]
         /\ paidOrders' \subseteq Order
         /\ ledger' \subseteq LedgerRow
<1>1. PICK award \in [os \ paidOrders -> Accruals] :
         ledger' = ledger \cup rows \cup AccrualRows(award)
  BY DEF SettleOrders
<1>2. AccrualRows(award) \subseteq LedgerRow
  BY AccrualType
<1>3. ledger' \subseteq LedgerRow
  BY <1>1, <1>2 DEF TypeOK
<1>4. status' \in [Order -> OrderStatus \cup {"absent"}]
  BY DEF SettleOrders, TypeOK, OrderStatus
<1>5. paidOrders' \subseteq Order
  BY DEF SettleOrders, TypeOK
<1>6. QED
  BY <1>3, <1>4, <1>5

\* The same for releasing lines of a bill.
LEMMA ReleaseType ==
  ASSUME TypeOK, NEW b \in Bill, NEW ls \in SUBSET Line, NEW dropped \in SUBSET Order,
         ReleaseLines(b, ls, dropped), canceling' \subseteq canceling
  PROVE  TypeOK'
<1> USE DEF TypeOK
<1>1. BillTotal(items[b] \ ls, 0) \in Nat
  BY TotalType
<1>2. /\ items' \in [Bill -> SUBSET Line]
      /\ billOrders' \in [Bill -> SUBSET Order]
      /\ totalAmount' \in [Bill -> Nat]
  BY <1>1 DEF ReleaseLines, LinksAfter
<1>3. billStatus' \in [Bill -> LiveStatus \cup {"absent", "canceled"}]
  BY DEF ReleaseLines, LiveStatus
<1>4. PICK os \in SUBSET Order : SettleOrders(os, dropped, {})
  <2>1. SettledOrders(LinksAfter(b, ls)) \in SUBSET Order
    BY DEF SettledOrders, LinksAfter
  <2>2. QED
    BY <2>1 DEF ReleaseLines
<1>5. /\ status' \in [Order -> OrderStatus \cup {"absent"}]
      /\ paidOrders' \subseteq Order
      /\ ledger' \subseteq LedgerRow
  BY <1>4, SettleType
<1>6. UNCHANGED <<billContext, primaryGuest, paidAmount, bonusSpent, attaching>>
  BY DEF ReleaseLines
<1>7. QED
  BY <1>2, <1>3, <1>5, <1>6

LEMMA TypeStep == TypeOK /\ [Next]_vars => TypeOK'
<1> SUFFICES ASSUME TypeOK, [Next]_vars PROVE TypeOK'
  OBVIOUS
<1> USE DEF TypeOK
<1>1. ASSUME NEW o \in Order, CreateOrder(o) PROVE TypeOK'
  BY <1>1 DEF CreateOrder, OrderStatus, billVars
<1>2. ASSUME NEW o \in Order, NEW to \in OrderStatus, TransitionOrder(o, to) PROVE TypeOK'
  BY <1>2 DEF TransitionOrder, OrderStatus, billVars
<1>3. ASSUME NEW o \in Order, ConfirmReceived(o) PROVE TypeOK'
  BY <1>3 DEF ConfirmReceived, OrderStatus, billVars
<1>4. ASSUME NEW o \in Order, CancelRead(o) PROVE TypeOK'
  BY <1>4 DEF CancelRead, LinesOf, billVars, orderVars
<1>5. ASSUME NEW c \in canceling, CancelCommit(c) PROVE TypeOK'
  <2> USE <1>5
  <2>0. /\ c.order \in Order /\ c.bill \in Bill \cup {None} /\ c.lines \in SUBSET Line
        /\ canceling' \subseteq canceling
    BY DEF CancelCommit
  <2>1. CASE c.bill = None
    <3>1. /\ status' = [status EXCEPT ![c.order] = "canceled"]
          /\ UNCHANGED <<paidOrders, billVars, ledger, attaching>>
      BY <2>1 DEF CancelCommit
    <3>2. status' \in [Order -> OrderStatus \cup {"absent"}]
      BY <3>1, <2>0 DEF OrderStatus
    <3>3. QED
      BY <2>0, <3>1, <3>2 DEF billVars
  <2>2. CASE c.bill # None /\ ReleaseLines(c.bill, c.lines, {c.order})
    <3>1. c.bill \in Bill /\ {c.order} \in SUBSET Order
      BY <2>0, <2>2
    <3>2. QED
      BY <2>0, <2>2, <3>1, ReleaseType
  <2>3. QED
    BY <2>1, <2>2 DEF CancelCommit
<1>6. ASSUME NEW c \in canceling, CancelAbort(c) PROVE TypeOK'
  BY <1>6 DEF CancelAbort, billVars, orderVars
<1>7. ASSUME NEW b \in Bill, NEW os \in SUBSET Order, CreateBill(b, os) PROVE TypeOK'
  <2>1. LinesOf(os) \in SUBSET Line /\ BillTotal(LinesOf(os), 0) \in Nat
    BY TotalType DEF LinesOf
  <2>2. QED
    BY <1>7, <2>1 DEF CreateBill, LiveStatus, OpenStatus, orderVars
<1>8. ASSUME NEW b \in Bill, NEW os \in SUBSET Order, AttachRead(b, os) PROVE TypeOK'
  BY <1>8 DEF AttachRead, billVars, orderVars
<1>9. ASSUME NEW b \in Bill, AttachCommit(b) PROVE TypeOK'
  BY <1>9, TotalType DEF AttachCommit, orderVars, LinesOf
<1>10. ASSUME NEW b \in Bill, AttachAbort(b) PROVE TypeOK'
  BY <1>10 DEF AttachAbort, billVars, orderVars
<1>11. ASSUME NEW b \in Bill, IssueBill(b) PROVE TypeOK'
  BY <1>11 DEF IssueBill, LiveStatus, OpenStatus, orderVars
<1>12. ASSUME NEW b \in Bill, NEW amount \in Nat, RecordPayment(b, amount) PROVE TypeOK'
  <2>1. /\ SettledOrders(billOrders[b]) \in SUBSET Order
        /\ {} \in SUBSET Order /\ {} \in SUBSET LedgerRow
    BY DEF SettledOrders
  <2>2. /\ status' \in [Order -> OrderStatus \cup {"absent"}]
        /\ paidOrders' \subseteq Order
        /\ ledger' \subseteq LedgerRow
    <3>1. CASE SettleOrders(SettledOrders(billOrders[b]), {}, {})
      BY <2>1, <3>1, SettleType
    <3>2. CASE UNCHANGED <<orderVars, ledger>>
      BY <3>2 DEF orderVars
    <3>3. QED
      BY <1>12, <3>1, <3>2 DEF RecordPayment
  <2>3. QED
    BY <1>12, <2>2, TotalType DEF RecordPayment, LiveStatus, OpenStatus
<1>13. ASSUME NEW b \in Bill, NEW amount \in Nat, PayWithBonuses(b, amount) PROVE TypeOK'
  <2>1. /\ SettledOrders(billOrders[b]) \in SUBSET Order
        /\ {} \in SUBSET Order /\ {} \in SUBSET LedgerRow
    BY DEF SettledOrders
  <2>2. {RedemptionRow(b, amount)} \in SUBSET LedgerRow
    BY <1>13 DEF PayWithBonuses, MaySpendBonuses, RedemptionRow, LedgerRow
  <2>3. /\ status' \in [Order -> OrderStatus \cup {"absent"}]
        /\ paidOrders' \subseteq Order
        /\ ledger' \subseteq LedgerRow
    <3>1. CASE SettleOrders(SettledOrders(billOrders[b]), {}, {RedemptionRow(b, amount)})
      BY <2>1, <2>2, <3>1, SettleType
    <3>2. CASE ledger' = ledger \cup {RedemptionRow(b, amount)} /\ UNCHANGED orderVars
      BY <2>2, <3>2 DEF orderVars
    <3>3. QED
      BY <1>13, <3>1, <3>2 DEF PayWithBonuses
  <2>4. QED
    BY <1>13, <2>3, TotalType DEF PayWithBonuses, LiveStatus, OpenStatus
<1>14. ASSUME NEW b \in Bill, NEW amount \in Nat, RedeemBonus(b, amount) PROVE TypeOK'
  BY <1>14, TotalType DEF RedeemBonus, MaySpendBonuses, RedemptionRow, LedgerRow, orderVars
<1>15. ASSUME NEW b \in Bill, NEW ls \in SUBSET items[b], RemoveLines(b, ls) PROVE TypeOK'
  BY <1>15, ReleaseType DEF RemoveLines
<1>16. ASSUME NEW b \in Bill, VoidBill(b) PROVE TypeOK'
  <2>1. ReturnedBonus(b) \subseteq LedgerRow
    BY <1>16 DEF VoidBill, MayVoid, ReturnedBonus, LedgerRow
  <2>2. QED
    BY <1>16, <2>1 DEF VoidBill, LinksAfter, orderVars
<1>17. CASE UNCHANGED vars
  BY <1>17 DEF vars
<1>18. 1..Worth[Line] \subseteq Nat
  BY MoneyAssumption
<1>19. QED
  BY <1>18, <1>1, <1>2, <1>3, <1>4, <1>5, <1>6, <1>7, <1>8, <1>9, <1>10, <1>11, <1>12,
     <1>13, <1>14, <1>15, <1>16, <1>17 DEF Next

THEOREM TypeCorrect == Spec => []TypeOK
<1>1. Init => TypeOK
  BY DEF Init, TypeOK, LiveStatus, OpenStatus, OrderStatus
<1>2. QED
  BY <1>1, TypeStep, PTL DEF Spec
-----------------------------------------------------------------------------
(* Which lines and orders a bill holds *)

\* The lines of the orders os, none of them charged elsewhere, enter bill b.
LEMMA ExtendKeepsAllocation ==
  ASSUME TypeOK, ChargedOnce, LinkedMeansCharged, VoidedIsEmpty,
         NEW b \in Bill, NEW os \in SUBSET Order,
         AllocatedElsewhere(b, os) = {},
         items' = [items EXCEPT ![b] = @ \cup LinesOf(os)],
         billOrders' = [billOrders EXCEPT ![b] = @ \cup os],
         billStatus'[b] \in LiveStatus,
         \A c \in Bill \ {b} : billStatus'[c] = billStatus[c],
         UNCHANGED paidAmount
  PROVE  ChargedOnce' /\ LinkedMeansCharged' /\ VoidedIsEmpty'
<1> USE DEF TypeOK
<1>1. ASSUME NEW c \in Bill \ {b}
      PROVE  items[c] \cap LinesOf(os) = {} /\ billOrders[c] \cap os = {}
  <2>1. items[c] \cap LinesOf(os) = {}
    <3>1. CASE c \in LiveBills
      BY <3>1 DEF AllocatedElsewhere
    <3>2. CASE c \notin LiveBills
      BY <3>2 DEF VoidedIsEmpty
    <3>3. QED
      BY <3>1, <3>2
  <2>2. ASSUME NEW o \in billOrders[c] \cap os PROVE FALSE
    <3>1. PICK l \in items[c] : OrderOf[l] = o
      BY DEF LinkedMeansCharged
    <3>2. l \in LinesOf(os)
      BY <3>1 DEF LinesOf
    <3>3. QED
      BY <3>1, <3>2, <2>1
  <2>3. QED
    BY <2>1, <2>2
<1>2. ChargedOnce'
  <2> SUFFICES ASSUME NEW c \in Bill, NEW d \in Bill, c # d
               PROVE  /\ items'[c] \cap items'[d] = {}
                      /\ billOrders'[c] \cap billOrders'[d] = {}
    BY DEF ChargedOnce
  <2>1. items[c] \cap items[d] = {} /\ billOrders[c] \cap billOrders[d] = {}
    BY DEF ChargedOnce
  <2>2. CASE c = b
    BY <2>1, <2>2, <1>1
  <2>3. CASE d = b
    BY <2>1, <2>3, <1>1
  <2>4. CASE c # b /\ d # b
    BY <2>1, <2>4
  <2>5. QED
    BY <2>2, <2>3, <2>4
<1>3. LinkedMeansCharged'
  <2> SUFFICES ASSUME NEW c \in Bill PROVE billOrders'[c] = {OrderOf[l] : l \in items'[c]}
    BY DEF LinkedMeansCharged
  <2>1. billOrders[c] = {OrderOf[l] : l \in items[c]}
    BY DEF LinkedMeansCharged
  <2>2. CASE c = b
    <3>1. os = {OrderOf[l] : l \in LinesOf(os)}
      BY RowsAssumption DEF LinesOf
    <3>2. items'[b] = items[b] \cup LinesOf(os) /\ billOrders'[b] = billOrders[b] \cup os
      OBVIOUS
    <3>3. QED
      BY <2>1, <2>2, <3>1, <3>2
  <2>3. CASE c # b
    BY <2>1, <2>3
  <2>4. QED
    BY <2>2, <2>3
<1>4. VoidedIsEmpty'
  BY DEF VoidedIsEmpty, LiveBills
<1>5. QED
  BY <1>2, <1>3, <1>4

\* The lines ls leave bill b, and the orders that have no other line there.
LEMMA ReleaseKeepsAllocation ==
  ASSUME TypeOK, ChargedOnce, LinkedMeansCharged,
         NEW b \in Bill, NEW ls \in SUBSET Line,
         items' = [items EXCEPT ![b] = @ \ ls],
         billOrders' = [billOrders EXCEPT ![b] = LinksAfter(b, ls)]
  PROVE  ChargedOnce' /\ LinkedMeansCharged'
<1> USE DEF TypeOK
<1>1. ASSUME NEW c \in Bill
      PROVE  items'[c] \subseteq items[c] /\ billOrders'[c] \subseteq billOrders[c]
  BY DEF LinksAfter
<1>2. ChargedOnce'
  BY <1>1 DEF ChargedOnce
<1>3. LinkedMeansCharged'
  <2> SUFFICES ASSUME NEW c \in Bill PROVE billOrders'[c] = {OrderOf[l] : l \in items'[c]}
    BY DEF LinkedMeansCharged
  <2>1. billOrders[c] = {OrderOf[l] : l \in items[c]}
    BY DEF LinkedMeansCharged
  <2>2. CASE c = b
    <3>1. items'[b] = items[b] \ ls /\ billOrders'[b] = LinksAfter(b, ls)
      OBVIOUS
    <3>2. ASSUME NEW o \in LinksAfter(b, ls) PROVE \E l \in items[b] \ ls : OrderOf[l] = o
      <4>1. PICK l \in items[b] : OrderOf[l] = o
        BY <2>1, <2>2 DEF LinksAfter
      <4>2. CASE l \in ls
        BY <4>1, <4>2 DEF LinksAfter
      <4>3. CASE l \notin ls
        BY <4>1, <4>3
      <4>4. QED
        BY <4>2, <4>3
    <3>3. ASSUME NEW l \in items[b] \ ls PROVE OrderOf[l] \in LinksAfter(b, ls)
      BY <2>1, <2>2 DEF LinksAfter
    <3>4. QED
      BY <2>2, <3>1, <3>2, <3>3
  <2>3. CASE c # b
    BY <2>1, <2>3
  <2>4. QED
    BY <2>2, <2>3
<1>4. QED
  BY <1>2, <1>3

\* A step of a command that holds the row of bill b only.
LEMMA OtherLocksSound ==
  ASSUME TypeOK, RunningCommandsSound, NEW b \in Bill,
         attaching'[b] = {},
         \A c \in Bill \ {b} : /\ attaching'[c] = attaching[c]
                               /\ billStatus'[c] = billStatus[c]
                               /\ billOrders'[c] = billOrders[c],
         canceling' \subseteq canceling
  PROVE  RunningCommandsSound'
BY DEF RunningCommandsSound, LinesOf

\* remove_bill_lines and the removal inside cancel_order.
LEMMA ReleaseAllocation ==
  ASSUME TypeOK, AllocationInv, NEW b \in Bill, NEW ls \in SUBSET Line,
         NEW dropped \in SUBSET Order,
         MayRemove(b, ls), ReleaseLines(b, ls, dropped), canceling' \subseteq canceling
  PROVE  AllocationInv'
<1> USE DEF TypeOK, AllocationInv
<1>1. /\ items' = [items EXCEPT ![b] = @ \ ls]
      /\ billOrders' = [billOrders EXCEPT ![b] = LinksAfter(b, ls)]
      /\ UNCHANGED <<paidAmount, attaching>>
      /\ billStatus' = billStatus \/ billStatus' = [billStatus EXCEPT ![b] = "paid"]
  BY DEF ReleaseLines
<1>2. ChargedOnce' /\ LinkedMeansCharged'
  BY <1>1, ReleaseKeepsAllocation
<1>3. VoidedIsEmpty'
  BY <1>1 DEF VoidedIsEmpty, LiveBills, MayRemove, LiveStatus
<1>4. RunningCommandsSound'
  BY <1>1, OtherLocksSound DEF MayRemove, Unlocked
<1>5. QED
  BY <1>2, <1>3, <1>4

\* A step that leaves the lines, the links and the payments of every bill alone.
LEMMA SameAllocation ==
  ASSUME TypeOK, AllocationInv, UNCHANGED <<items, billOrders, paidAmount>>,
         \A b \in Bill : billStatus[b] \in LiveStatus <=> billStatus'[b] \in LiveStatus
  PROVE  ChargedOnce' /\ LinkedMeansCharged' /\ VoidedIsEmpty'
BY DEF AllocationInv, ChargedOnce, LinkedMeansCharged, VoidedIsEmpty, LiveBills

LEMMA AllocationStep == TypeOK /\ AllocationInv /\ [Next]_vars => AllocationInv'
<1> SUFFICES ASSUME TypeOK, AllocationInv, [Next]_vars PROVE AllocationInv'
  OBVIOUS
<1> USE DEF TypeOK, AllocationInv
<1>1. ASSUME UNCHANGED <<billVars, attaching>>, canceling' \subseteq canceling
      PROVE  AllocationInv'
  <2>1. ChargedOnce' /\ LinkedMeansCharged' /\ VoidedIsEmpty'
    BY <1>1, SameAllocation DEF billVars
  <2>2. RunningCommandsSound'
    BY <1>1 DEF RunningCommandsSound, LinesOf, billVars
  <2>3. QED
    BY <2>1, <2>2
<1>2. ASSUME NEW o \in Order, CancelRead(o) PROVE AllocationInv'
  <2>1. ChargedOnce' /\ LinkedMeansCharged' /\ VoidedIsEmpty'
    BY <1>2, SameAllocation DEF CancelRead, billVars
  <2>2. ASSUME NEW c \in canceling', c \notin canceling
        PROVE  c.lines \subseteq LinesOf({c.order}) /\ (c.bill = None => c.lines = {})
    <3>1. CASE c = [order |-> o, bill |-> None, lines |-> {}]
      BY <3>1
    <3>2. ASSUME NEW b \in Bill,
                 c = [order |-> o, bill |-> b, lines |-> items[b] \cap LinesOf({o})]
          PROVE  c.lines \subseteq LinesOf({c.order}) /\ c.bill # None
      BY <3>2, RowsAssumption
    <3>3. QED
      BY <1>2, <2>2, <3>1, <3>2 DEF CancelRead
  <2>3. RunningCommandsSound'
    BY <1>2, <2>2 DEF RunningCommandsSound, LinesOf, CancelRead, billVars
  <2>4. QED
    BY <2>1, <2>3
<1>3. ASSUME NEW c \in canceling, CancelCommit(c) PROVE AllocationInv'
  <2>1. CASE c.bill = None
    BY <1>1, <1>3, <2>1 DEF CancelCommit
  <2>2. CASE c.bill # None
    <3>1. /\ c.bill \in Bill /\ c.lines \in SUBSET Line /\ {c.order} \in SUBSET Order
          /\ MayRemove(c.bill, c.lines) /\ ReleaseLines(c.bill, c.lines, {c.order})
          /\ canceling' \subseteq canceling
      BY <1>3, <2>2 DEF CancelCommit
    <3>2. QED
      BY <3>1, ReleaseAllocation
  <2>3. QED
    BY <2>1, <2>2
<1>4. ASSUME NEW b \in Bill, NEW os \in SUBSET Order, CreateBill(b, os) PROVE AllocationInv'
  <2>1. items[b] = {} /\ billOrders[b] = {}
    BY <1>4 DEF CreateBill, VoidedIsEmpty, LiveBills, LiveStatus, OpenStatus
  <2>2. /\ items' = [items EXCEPT ![b] = @ \cup LinesOf(os)]
        /\ billOrders' = [billOrders EXCEPT ![b] = @ \cup os]
        /\ billStatus' = [billStatus EXCEPT ![b] = "draft"]
        /\ UNCHANGED <<paidAmount, attaching, canceling>>
        /\ AllocatedElsewhere(b, os) = {}
    BY <1>4, <2>1 DEF CreateBill
  <2>3. ChargedOnce' /\ LinkedMeansCharged' /\ VoidedIsEmpty'
    BY <2>2, ExtendKeepsAllocation DEF LiveStatus, OpenStatus
  <2>4. attaching[b] = {}
    BY <1>4 DEF CreateBill, RunningCommandsSound, OpenStatus
  <2>5. RunningCommandsSound'
    BY <2>2, <2>4, OtherLocksSound
  <2>6. QED
    BY <2>3, <2>5
<1>5. ASSUME NEW b \in Bill, NEW os \in SUBSET Order, AttachRead(b, os) PROVE AllocationInv'
  <2>1. ChargedOnce' /\ LinkedMeansCharged' /\ VoidedIsEmpty'
    BY <1>5, SameAllocation DEF AttachRead, billVars
  <2>2. RunningCommandsSound'
    BY <1>5 DEF AttachRead, RunningCommandsSound, LinesOf, billVars
  <2>3. QED
    BY <2>1, <2>2
<1>6. ASSUME NEW b \in Bill, AttachCommit(b) PROVE AllocationInv'
  <2>1. /\ items' = [items EXCEPT ![b] = @ \cup LinesOf(attaching[b])]
        /\ billOrders' = [billOrders EXCEPT ![b] = @ \cup attaching[b]]
        /\ attaching' = [attaching EXCEPT ![b] = {}]
        /\ UNCHANGED <<billStatus, paidAmount, canceling>>
        /\ AllocatedElsewhere(b, attaching[b]) = {}
        /\ attaching[b] # {}
    BY <1>6 DEF AttachCommit
  <2>2. billStatus[b] \in LiveStatus
    BY <2>1 DEF RunningCommandsSound, LiveStatus
  <2>3. ChargedOnce' /\ LinkedMeansCharged' /\ VoidedIsEmpty'
    BY <2>1, <2>2, ExtendKeepsAllocation
  <2>4. RunningCommandsSound'
    BY <2>1, OtherLocksSound
  <2>5. QED
    BY <2>3, <2>4
<1>7. ASSUME NEW b \in Bill, AttachAbort(b) PROVE AllocationInv'
  <2>1. ChargedOnce' /\ LinkedMeansCharged' /\ VoidedIsEmpty'
    BY <1>7, SameAllocation DEF AttachAbort, billVars
  <2>2. RunningCommandsSound'
    BY <1>7, OtherLocksSound DEF AttachAbort, billVars
  <2>3. QED
    BY <2>1, <2>2
\* A payment or an issue changes one open bill and none of its lines.
<1>8. ASSUME NEW b \in Bill, NEW st \in LiveStatus, Unlocked(b),
             billStatus[b] \in OpenStatus,
             billStatus' = [billStatus EXCEPT ![b] = st],
             \A c \in Bill \ {b} : paidAmount'[c] = paidAmount[c],
             UNCHANGED <<items, billOrders, attaching, canceling>>
      PROVE  AllocationInv'
  <2>1. ChargedOnce' /\ LinkedMeansCharged'
    BY <1>8 DEF ChargedOnce, LinkedMeansCharged
  <2>2. VoidedIsEmpty'
    BY <1>8 DEF VoidedIsEmpty, LiveBills
  <2>3. RunningCommandsSound'
    BY <1>8, OtherLocksSound DEF Unlocked
  <2>4. QED
    BY <2>1, <2>2, <2>3
<1>9. ASSUME NEW b \in Bill, IssueBill(b) PROVE AllocationInv'
  BY <1>8, <1>9 DEF IssueBill, LiveStatus, OpenStatus
<1>10. ASSUME NEW b \in Bill, NEW amount \in Nat, RecordPayment(b, amount) PROVE AllocationInv'
  <2>1. PICK st \in LiveStatus : billStatus' = [billStatus EXCEPT ![b] = st]
    BY <1>10 DEF RecordPayment, LiveStatus, OpenStatus
  <2>2. QED
    BY <1>8, <1>10, <2>1 DEF RecordPayment
<1>11. ASSUME NEW b \in Bill, NEW amount \in Nat, PayWithBonuses(b, amount) PROVE AllocationInv'
  <2>1. PICK st \in LiveStatus : billStatus' = [billStatus EXCEPT ![b] = st]
    BY <1>11 DEF PayWithBonuses, MaySpendBonuses, LiveStatus, OpenStatus
  <2>2. QED
    BY <1>8, <1>11, <2>1 DEF PayWithBonuses, MaySpendBonuses
<1>12. ASSUME NEW b \in Bill, NEW amount \in Nat, RedeemBonus(b, amount) PROVE AllocationInv'
  <2>1. billStatus[b] \in LiveStatus /\ billStatus' = [billStatus EXCEPT ![b] = billStatus[b]]
    BY <1>12 DEF RedeemBonus, MaySpendBonuses, LiveStatus
  <2>2. QED
    BY <1>8, <1>12, <2>1 DEF RedeemBonus, MaySpendBonuses
<1>13. ASSUME NEW b \in Bill, NEW ls \in SUBSET items[b], RemoveLines(b, ls)
       PROVE  AllocationInv'
  BY <1>13, ReleaseAllocation DEF RemoveLines
<1>14. ASSUME NEW b \in Bill, VoidBill(b) PROVE AllocationInv'
  <2>1. items' = [items EXCEPT ![b] = @ \ items[b]]
    BY <1>14 DEF VoidBill
  <2>2. ChargedOnce' /\ LinkedMeansCharged'
    BY <1>14, <2>1, ReleaseKeepsAllocation DEF VoidBill
  <2>3. billOrders'[b] = {} /\ items'[b] = {} /\ paidAmount'[b] = 0
    BY <1>14, <2>1, <2>2 DEF VoidBill, MayVoid, LinkedMeansCharged
  <2>4. VoidedIsEmpty'
    BY <1>14, <2>3 DEF VoidBill, VoidedIsEmpty, LiveBills
  <2>5. RunningCommandsSound'
    BY <1>14, OtherLocksSound DEF VoidBill, MayVoid, Unlocked
  <2>6. QED
    BY <2>2, <2>4, <2>5
<1>15. ASSUME NEW o \in Order, CreateOrder(o) PROVE AllocationInv'
  BY <1>1, <1>15 DEF CreateOrder
<1>16. ASSUME NEW o \in Order, NEW to \in OrderStatus, TransitionOrder(o, to)
       PROVE  AllocationInv'
  BY <1>1, <1>16 DEF TransitionOrder
<1>17. ASSUME NEW o \in Order, ConfirmReceived(o) PROVE AllocationInv'
  BY <1>1, <1>17 DEF ConfirmReceived
<1>18. ASSUME NEW c \in canceling, CancelAbort(c) PROVE AllocationInv'
  BY <1>1, <1>18 DEF CancelAbort
<1>19. CASE UNCHANGED vars
  BY <1>1, <1>19 DEF vars, billVars
<1>20. 1..Worth[Line] \subseteq Nat
  BY MoneyAssumption
<1>21. QED
  BY <1>2, <1>3, <1>4, <1>5, <1>6, <1>7, <1>9, <1>10, <1>11, <1>12, <1>13, <1>14, <1>15,
     <1>16, <1>17, <1>18, <1>19, <1>20 DEF Next

-----------------------------------------------------------------------------
(* The money of a bill *)

\* Within the bonuses it may take, a total is the worth of the lines less these.
LEMMA TotalIsRest ==
  ASSUME NEW ls \in SUBSET Line, NEW bonus \in Nat, bonus <= Worth[ls]
  PROVE  BillTotal(ls, bonus) = Worth[ls] - bonus
BY MoneyAssumption DEF BillTotal

LEMMA StoredTotal ==
  ASSUME TypeOK, MoneyAddsUp, NEW b \in LiveBills
  PROVE  BillTotal(items[b], bonusSpent[b]) = totalAmount[b]
<1>1. b \in Bill
  BY DEF LiveBills
<1>2. /\ totalAmount[b] + bonusSpent[b] = Worth[items[b]]
      /\ totalAmount[b] \in Nat /\ bonusSpent[b] \in Nat /\ items[b] \in SUBSET Line
  BY <1>1 DEF MoneyAddsUp, TypeOK
<1>3. QED
  BY <1>2, TotalIsRest

\* What MoneyAddsUp says of one bill, with the values the bill has in a state.
AddsUp(st, worth, total, bonus, paid) ==
    /\ total + bonus = worth
    /\ paid <= total
    /\ st \in {"draft", "issued"} => paid = 0
    /\ st = "partially_paid" => 0 < paid /\ paid < total
    /\ st = "paid" => paid = total

\* A step that changes bill b only keeps the money of the others.
LEMMA OneBillMoney ==
  ASSUME TypeOK, MoneyInv, NEW b \in Bill,
         \A c \in Bill \ {b} :
            /\ billStatus'[c] = billStatus[c] /\ items'[c] = items[c]
            /\ totalAmount'[c] = totalAmount[c] /\ paidAmount'[c] = paidAmount[c]
            /\ bonusSpent'[c] = bonusSpent[c],
         billStatus'[b] # "absent",
         billStatus'[b] \in LiveStatus =>
            AddsUp(billStatus'[b], Worth[items'[b]], totalAmount'[b], bonusSpent'[b],
                   paidAmount'[b])
  PROVE  MoneyInv'
BY DEF MoneyInv, MoneyAddsUp, LiveBills, AddsUp

\* remove_bill_lines and the removal inside cancel_order.
LEMMA ReleaseMoney ==
  ASSUME TypeOK, MoneyInv, NEW b \in Bill, NEW ls \in SUBSET Line,
         NEW dropped \in SUBSET Order,
         MayRemove(b, ls), ReleaseLines(b, ls, dropped)
  PROVE  MoneyInv'
<1> USE DEF TypeOK
<1> DEFINE total == BillTotal(items[b] \ ls, 0)
<1>1. /\ items' = [items EXCEPT ![b] = @ \ ls]
      /\ totalAmount' = [totalAmount EXCEPT ![b] = total]
      /\ UNCHANGED <<paidAmount, bonusSpent>>
      /\ \/ Covered(paidAmount[b], total) /\ billStatus' = [billStatus EXCEPT ![b] = "paid"]
         \/ ~Covered(paidAmount[b], total) /\ UNCHANGED billStatus
  BY DEF ReleaseLines
<1>2. /\ bonusSpent[b] = 0 /\ total >= paidAmount[b] /\ billStatus[b] \in OpenStatus
  BY DEF MayRemove
<1>3. total = Worth[items[b] \ ls] /\ total \in Nat
  BY TotalIsRest, MoneyAssumption
<1>4. /\ billStatus[b] \in {"draft", "issued"} => paidAmount[b] = 0
      /\ billStatus[b] = "partially_paid" => 0 < paidAmount[b]
  BY <1>2 DEF MoneyInv, MoneyAddsUp, LiveBills, LiveStatus
<1> HIDE DEF total
<1>5. AddsUp(billStatus'[b], Worth[items'[b]], totalAmount'[b], bonusSpent'[b], paidAmount'[b])
  <2>1. CASE billStatus' = [billStatus EXCEPT ![b] = "paid"] /\ Covered(paidAmount[b], total)
    BY <1>1, <1>2, <1>3, <2>1 DEF AddsUp, Covered
  <2>2. CASE UNCHANGED billStatus /\ ~Covered(paidAmount[b], total)
    BY <1>1, <1>2, <1>3, <1>4, <2>2 DEF AddsUp, Covered, OpenStatus
  <2>3. QED
    BY <1>1, <2>1, <2>2
<1>6. billStatus'[b] # "absent"
  BY <1>1, <1>2 DEF OpenStatus
<1>7. QED
  BY <1>1, <1>5, <1>6, OneBillMoney

LEMMA MoneyStep ==
  TypeOK /\ TypeOK' /\ AllocationInv /\ MoneyInv /\ [Next]_vars => MoneyInv'
<1> SUFFICES ASSUME TypeOK, TypeOK', AllocationInv, MoneyInv, [Next]_vars PROVE MoneyInv'
  OBVIOUS
<1>1. ASSUME UNCHANGED billVars PROVE MoneyInv'
  BY <1>1 DEF MoneyInv, MoneyAddsUp, LiveBills, billVars
<1>2. ASSUME NEW c \in canceling, CancelCommit(c) PROVE MoneyInv'
  <2>1. CASE c.bill = None
    BY <1>1, <1>2, <2>1 DEF CancelCommit
  <2>2. CASE c.bill # None
    <3>1. /\ c.bill \in Bill /\ c.lines \in SUBSET Line /\ {c.order} \in SUBSET Order
          /\ MayRemove(c.bill, c.lines) /\ ReleaseLines(c.bill, c.lines, {c.order})
      BY <1>2, <2>2 DEF CancelCommit, TypeOK
    <3>2. QED
      BY <3>1, ReleaseMoney
  <2>3. QED
    BY <2>1, <2>2
<1>3. ASSUME NEW b \in Bill, NEW os \in SUBSET Order, CreateBill(b, os) PROVE MoneyInv'
  <2>1. billStatus[b] = "absent" /\ bonusSpent[b] = 0 /\ paidAmount[b] = 0
    BY <1>3 DEF CreateBill, MoneyInv, AllocationInv, VoidedIsEmpty, LiveBills, LiveStatus,
                OpenStatus
  <2>2. BillTotal(LinesOf(os), 0) = Worth[LinesOf(os)] /\ Worth[LinesOf(os)] \in Nat
    BY TotalIsRest, MoneyAssumption DEF LinesOf
  <2>3. AddsUp(billStatus'[b], Worth[items'[b]], totalAmount'[b], bonusSpent'[b], paidAmount'[b])
    BY <1>3, <2>1, <2>2 DEF CreateBill, AddsUp, TypeOK
  <2>4. QED
    BY <1>3, <2>3, OneBillMoney DEF CreateBill, TypeOK
<1>4. ASSUME NEW b \in Bill, AttachCommit(b) PROVE MoneyInv'
  <2> DEFINE new == LinesOf(attaching[b])
  <2>1. billStatus[b] \in OpenStatus /\ b \in LiveBills
    BY <1>4 DEF AttachCommit, AllocationInv, RunningCommandsSound, LiveBills, LiveStatus
  <2>2. items[b] \cap new = {}
    <3>1. attaching[b] \cap billOrders[b] = {}
      BY <1>4 DEF AttachCommit, AllocationInv, RunningCommandsSound
    <3>2. \A l \in items[b] : OrderOf[l] \in billOrders[b]
      BY DEF AllocationInv, LinkedMeansCharged
    <3>3. QED
      BY <3>1, <3>2 DEF LinesOf
  <2>3. /\ items[b] \in SUBSET Line /\ new \in SUBSET Line
        /\ items[b] \cup new \in SUBSET Line
        /\ Worth[items[b]] \in Nat /\ Worth[new] \in Nat
        /\ Worth[items[b] \cup new] \in Nat
    BY MoneyAssumption DEF TypeOK, LinesOf
  <2>4. Worth[items[b] \cup new] = Worth[items[b]] + Worth[new]
    BY <2>2, <2>3, MoneyAssumption
  <2> HIDE DEF new
  <2>5. /\ AddsUp(billStatus[b], Worth[items[b]], totalAmount[b], bonusSpent[b], paidAmount[b])
        /\ totalAmount[b] \in Nat /\ bonusSpent[b] \in Nat /\ paidAmount[b] \in Nat
    BY <2>1 DEF MoneyInv, MoneyAddsUp, AddsUp, TypeOK
  <2>6. BillTotal(items[b] \cup new, bonusSpent[b]) = totalAmount[b] + Worth[new]
    <3>1. bonusSpent[b] <= Worth[items[b] \cup new]
      BY <2>3, <2>4, <2>5 DEF AddsUp
    <3>2. BillTotal(items[b] \cup new, bonusSpent[b])
             = Worth[items[b] \cup new] - bonusSpent[b]
      BY <2>3, <2>5, <3>1, TotalIsRest
    <3>3. QED
      BY <2>3, <2>4, <2>5, <3>2 DEF AddsUp
  <2>7. /\ billStatus' = billStatus /\ paidAmount' = paidAmount /\ bonusSpent' = bonusSpent
        /\ items' = [items EXCEPT ![b] = @ \cup new]
        /\ totalAmount' = [totalAmount EXCEPT ![b] = totalAmount[b] + Worth[new]]
    BY <1>4, <2>6 DEF AttachCommit, new
  <2>8. AddsUp(billStatus'[b], Worth[items'[b]], totalAmount'[b], bonusSpent'[b], paidAmount'[b])
    BY <2>1, <2>3, <2>4, <2>5, <2>7 DEF AddsUp, OpenStatus, TypeOK
  <2>9. QED
    BY <2>1, <2>7, <2>8, OneBillMoney DEF OpenStatus, TypeOK
<1>5. ASSUME NEW b \in Bill, IssueBill(b) PROVE MoneyInv'
  <2>1. AddsUp(billStatus[b], Worth[items[b]], totalAmount[b], bonusSpent[b], paidAmount[b])
    BY <1>5 DEF IssueBill, MoneyInv, MoneyAddsUp, AddsUp, LiveBills, LiveStatus, OpenStatus
  <2>2. AddsUp(billStatus'[b], Worth[items'[b]], totalAmount'[b], bonusSpent'[b], paidAmount'[b])
    BY <1>5, <2>1 DEF IssueBill, AddsUp, TypeOK
  <2>3. QED
    BY <1>5, <2>2, OneBillMoney DEF IssueBill, TypeOK
<1>6. ASSUME NEW b \in Bill, NEW amount \in Nat, RecordPayment(b, amount) PROVE MoneyInv'
  <2>1. b \in LiveBills
    BY <1>6 DEF RecordPayment, LiveBills, LiveStatus
  <2>2. /\ BillTotal(items[b], bonusSpent[b]) = totalAmount[b]
        /\ totalAmount[b] + bonusSpent[b] = Worth[items[b]]
    BY <2>1, StoredTotal DEF MoneyInv, MoneyAddsUp
  <2>3. /\ amount > 0 /\ paidAmount[b] + amount <= totalAmount[b]
        /\ totalAmount[b] \in Nat /\ bonusSpent[b] \in Nat /\ paidAmount[b] \in Nat
    BY <1>6, <2>2 DEF RecordPayment, Remaining, TypeOK
  <2>4. /\ items' = items /\ bonusSpent' = bonusSpent
        /\ totalAmount' = [totalAmount EXCEPT ![b] = totalAmount[b]]
        /\ paidAmount' = [paidAmount EXCEPT ![b] = paidAmount[b] + amount]
        /\ \/ /\ paidAmount[b] + amount = totalAmount[b]
              /\ billStatus' = [billStatus EXCEPT ![b] = "paid"]
           \/ /\ paidAmount[b] + amount # totalAmount[b]
              /\ billStatus' = [billStatus EXCEPT ![b] = "partially_paid"]
    BY <1>6, <2>2, <2>3 DEF RecordPayment, Covered
  <2>5. /\ items'[b] = items[b] /\ bonusSpent'[b] = bonusSpent[b]
        /\ totalAmount'[b] = totalAmount[b] /\ paidAmount'[b] = paidAmount[b] + amount
    BY <2>4 DEF TypeOK
  <2>6. \/ paidAmount'[b] = totalAmount[b] /\ billStatus'[b] = "paid"
        \/ paidAmount'[b] # totalAmount[b] /\ billStatus'[b] = "partially_paid"
    BY <2>4, <2>5 DEF TypeOK
  <2>7. AddsUp(billStatus'[b], Worth[items'[b]], totalAmount'[b], bonusSpent'[b], paidAmount'[b])
    BY <2>2, <2>3, <2>5, <2>6 DEF AddsUp
  <2>8. QED
    BY <2>4, <2>7, OneBillMoney DEF TypeOK
\* Spending amount bonuses on a bill that has taken neither bonuses nor money.
<1>7. ASSUME NEW b \in Bill, NEW amount \in Nat, NEW st \in LiveStatus, MaySpendBonuses(b),
             amount <= BillTotal(items[b], 0),
             billStatus' = [billStatus EXCEPT ![b] = st],
             st = "paid" => BillTotal(items[b], amount) = 0,
             st # "partially_paid",
             bonusSpent' = [bonusSpent EXCEPT ![b] = amount],
             totalAmount' = [totalAmount EXCEPT ![b] = BillTotal(items[b], amount)],
             UNCHANGED <<items, paidAmount>>
      PROVE  MoneyInv'
  <2>1. items[b] \in SUBSET Line /\ Worth[items[b]] \in Nat
    BY MoneyAssumption DEF TypeOK
  <2>2. BillTotal(items[b], 0) = Worth[items[b]]
    BY <2>1, TotalIsRest
  <2>3. BillTotal(items[b], amount) = Worth[items[b]] - amount
    BY <1>7, <2>1, <2>2, TotalIsRest
  <2>4. paidAmount[b] = 0
    BY <1>7 DEF MaySpendBonuses
  <2>5. AddsUp(billStatus'[b], Worth[items'[b]], totalAmount'[b], bonusSpent'[b], paidAmount'[b])
    BY <1>7, <2>1, <2>2, <2>3, <2>4 DEF AddsUp, TypeOK
  <2>6. QED
    BY <1>7, <2>5, OneBillMoney DEF TypeOK, LiveStatus, OpenStatus
<1>8. ASSUME NEW b \in Bill, NEW amount \in Nat, PayWithBonuses(b, amount) PROVE MoneyInv'
  <2>1. MaySpendBonuses(b) /\ amount <= BillTotal(items[b], 0)
    BY <1>8 DEF PayWithBonuses, RedeemCaps
  <2>2. billStatus[b] \in OpenStatus /\ billStatus[b] # "partially_paid"
    BY <2>1 DEF MaySpendBonuses, MoneyInv, MoneyAddsUp, LiveBills, LiveStatus, OpenStatus
  <2>3. PICK st \in LiveStatus : /\ billStatus' = [billStatus EXCEPT ![b] = st]
                                 /\ st = "paid" => BillTotal(items[b], amount) = 0
                                 /\ st # "partially_paid"
    BY <1>8, <2>2 DEF PayWithBonuses, LiveStatus, OpenStatus
  <2>4. QED
    BY <1>7, <1>8, <2>1, <2>3 DEF PayWithBonuses
<1>9. ASSUME NEW b \in Bill, NEW amount \in Nat, RedeemBonus(b, amount) PROVE MoneyInv'
  <2>1. MaySpendBonuses(b) /\ amount <= BillTotal(items[b], 0)
    BY <1>9 DEF RedeemBonus, RedeemCaps
  <2>2. /\ billStatus[b] \in LiveStatus /\ billStatus[b] # "paid"
        /\ billStatus[b] # "partially_paid"
    BY <2>1 DEF MaySpendBonuses, MoneyInv, MoneyAddsUp, LiveBills, LiveStatus, OpenStatus
  <2>3. billStatus' = [billStatus EXCEPT ![b] = billStatus[b]]
    BY <1>9 DEF RedeemBonus, TypeOK
  <2>4. QED
    BY <1>7, <1>9, <2>1, <2>2, <2>3 DEF RedeemBonus
<1>10. ASSUME NEW b \in Bill, NEW ls \in SUBSET items[b], RemoveLines(b, ls) PROVE MoneyInv'
  BY <1>10, ReleaseMoney DEF RemoveLines, TypeOK
<1>11. ASSUME NEW b \in Bill, VoidBill(b) PROVE MoneyInv'
  BY <1>11, OneBillMoney DEF VoidBill, TypeOK, LiveStatus, OpenStatus
<1>12. ASSUME NEW o \in Order, CreateOrder(o) PROVE MoneyInv'
  BY <1>1, <1>12 DEF CreateOrder
<1>13. ASSUME NEW o \in Order, NEW to \in OrderStatus, TransitionOrder(o, to) PROVE MoneyInv'
  BY <1>1, <1>13 DEF TransitionOrder
<1>14. ASSUME NEW o \in Order, ConfirmReceived(o) PROVE MoneyInv'
  BY <1>1, <1>14 DEF ConfirmReceived
<1>15. ASSUME NEW o \in Order, CancelRead(o) PROVE MoneyInv'
  BY <1>1, <1>15 DEF CancelRead
<1>16. ASSUME NEW c \in canceling, CancelAbort(c) PROVE MoneyInv'
  BY <1>1, <1>16 DEF CancelAbort
<1>17. ASSUME NEW b \in Bill, NEW os \in SUBSET Order, AttachRead(b, os) PROVE MoneyInv'
  BY <1>1, <1>17 DEF AttachRead
<1>18. ASSUME NEW b \in Bill, AttachAbort(b) PROVE MoneyInv'
  BY <1>1, <1>18 DEF AttachAbort
<1>19. CASE UNCHANGED vars
  BY <1>1, <1>19 DEF vars, billVars
<1>20. 1..Worth[Line] \subseteq Nat
  BY MoneyAssumption
<1>21. QED
  BY <1>2, <1>3, <1>4, <1>5, <1>6, <1>8, <1>9, <1>10, <1>11, <1>12, <1>13, <1>14, <1>15,
     <1>16, <1>17, <1>18, <1>19, <1>20 DEF Next

-----------------------------------------------------------------------------
(* What orders and bills agree on *)

\* A paid order has an active line, in the paid bill that links it.
LEMMA PaidOrderIsCharged ==
  ASSUME TypeOK, AllocationInv, SettledTogether, NEW o \in paidOrders
  PROVE  \E b \in Bill : /\ billStatus[b] = "paid" /\ o \in billOrders[b]
                         /\ items[b] \cap LinesOf({o}) # {}
<1>1. PICK b \in Bill : billStatus[b] = "paid" /\ o \in billOrders[b]
  BY DEF SettledTogether
<1>2. PICK l \in items[b] : OrderOf[l] = o
  BY <1>1 DEF AllocationInv, LinkedMeansCharged
<1>3. l \in LinesOf({o})
  BY <1>1, <1>2 DEF LinesOf, TypeOK
<1>4. QED
  BY <1>1, <1>2, <1>3

\* A step that leaves the orders and the paid bills alone.
LEMMA SameSettlement ==
  ASSUME TypeOK, SettledTogether, UNCHANGED <<status, paidOrders>>,
         \A b \in Bill : billStatus[b] = "paid" \/ billStatus'[b] = "paid"
            => billStatus'[b] = billStatus[b] /\ billOrders'[b] = billOrders[b]
  PROVE  SettledTogether'
BY DEF SettledTogether

\* A step that moves one order, not a paid one to canceled, and none of the bills.
LEMMA OrderStepSettlement ==
  ASSUME TypeOK, SettledTogether, NEW o \in Order, NEW to \in OrderStatus,
         status' = [status EXCEPT ![o] = to],
         status[o] # "canceled",
         to = "canceled" => o \notin paidOrders,
         UNCHANGED <<paidOrders, billStatus, billOrders>>
  PROVE  SettledTogether'
BY DEF SettledTogether, TypeOK

\* Bill b becomes paid or stays open; the orders os are settled with it and those of
\* dropped canceled.
LEMMA SettleSettlement ==
  ASSUME TypeOK, SettledTogether, NEW b \in Bill, NEW os \in SUBSET Order,
         NEW dropped \in SUBSET Order, NEW rows,
         SettleOrders(os, dropped, rows),
         billStatus[b] # "paid",
         billOrders' \in [Bill -> SUBSET Order],
         \A c \in Bill \ {b} : billStatus'[c] = billStatus[c] /\ billOrders'[c] = billOrders[c],
         dropped \cap (os \cup paidOrders) = {},
         \/ billStatus'[b] = "paid" /\ os = {o \in billOrders'[b] : status[o] # "canceled"}
         \/ billStatus'[b] # "paid" /\ os = {}
  PROVE  SettledTogether'
<1> USE DEF TypeOK
<1>1. paidOrders' = paidOrders \cup os
  BY DEF SettleOrders
<1>2. \A o \in Order : /\ status[o] = "canceled" => status'[o] = "canceled"
                       /\ status'[o] = "canceled" => status[o] = "canceled" \/ o \in dropped
  BY DEF SettleOrders
<1>3. ASSUME NEW c \in Bill, billStatus'[c] = "paid", NEW o \in billOrders'[c], o \in Order
      PROVE  status'[o] = "canceled" \/ o \in paidOrders'
  <2>1. CASE c = b
    BY <1>1, <1>2, <1>3, <2>1
  <2>2. CASE c # b
    BY <1>1, <1>2, <1>3, <2>2 DEF SettledTogether
  <2>3. QED
    BY <2>1, <2>2
<1>4. ASSUME NEW o \in paidOrders'
      PROVE  /\ status'[o] # "canceled"
             /\ \E c \in Bill : billStatus'[c] = "paid" /\ o \in billOrders'[c]
  <2>1. CASE o \in os
    BY <1>2, <2>1
  <2>2. CASE o \in paidOrders
    BY <1>2, <2>2 DEF SettledTogether
  <2>3. QED
    BY <1>1, <1>4, <2>1, <2>2
<1>5. QED
  BY <1>3, <1>4 DEF SettledTogether

\* remove_bill_lines, and the removal inside cancel_order of an order that has no
\* other line.
LEMMA ReleaseSettlement ==
  ASSUME TypeOK, TypeOK', AllocationInv, SettledTogether, NEW b \in Bill,
         NEW ls \in SUBSET Line, NEW dropped \in SUBSET Order,
         MayRemove(b, ls), ReleaseLines(b, ls, dropped),
         \A o \in dropped : ActiveLines(o) \subseteq ls
  PROVE  SettledTogether'
<1> USE DEF TypeOK
<1>1. ASSUME NEW o \in dropped PROVE o \notin paidOrders /\ o \notin LinksAfter(b, ls)
  <2>1. \A c \in Bill : items[c] \cap LinesOf({o}) \subseteq ls
    BY DEF ActiveLines
  <2>2. o \notin paidOrders
    <3> SUFFICES ASSUME o \in paidOrders PROVE FALSE
      OBVIOUS
    <3>1. PICK c \in Bill : billStatus[c] = "paid" /\ items[c] \cap LinesOf({o}) # {}
      BY PaidOrderIsCharged
    <3>2. c # b /\ ls \subseteq items[b]
      BY <3>1 DEF MayRemove, OpenStatus
    <3>3. items[b] \cap items[c] = {}
      BY <3>2 DEF AllocationInv, ChargedOnce
    <3>4. QED
      BY <2>1, <3>1, <3>2, <3>3
  <2>3. o \notin LinksAfter(b, ls)
    <3> SUFFICES ASSUME o \in LinksAfter(b, ls) PROVE FALSE
      OBVIOUS
    <3>1. PICK l \in items[b] : OrderOf[l] = o
      BY DEF LinksAfter, AllocationInv, LinkedMeansCharged
    <3>2. l \in ls
      BY <2>1, <3>1 DEF LinesOf
    <3>3. PICK k \in items[b] \ ls : OrderOf[k] = o
      BY <3>1, <3>2 DEF LinksAfter
    <3>4. QED
      BY <2>1, <3>3 DEF LinesOf
  <2>4. QED
    BY <2>2, <2>3
<1>2. /\ \A c \in Bill \ {b} : billStatus'[c] = billStatus[c] /\ billOrders'[c] = billOrders[c]
      /\ billOrders'[b] = LinksAfter(b, ls)
      /\ billStatus[b] # "paid"
  BY DEF ReleaseLines, MayRemove, OpenStatus
<1>3. CASE /\ billStatus' = [billStatus EXCEPT ![b] = "paid"]
           /\ SettleOrders(SettledOrders(LinksAfter(b, ls)), dropped, {})
  <2>1. SettledOrders(LinksAfter(b, ls)) = {o \in billOrders'[b] : status[o] # "canceled"}
    BY <1>2 DEF SettledOrders
  <2>2. SettledOrders(LinksAfter(b, ls)) \in SUBSET Order
    BY DEF SettledOrders, LinksAfter
  <2>3. dropped \cap (SettledOrders(LinksAfter(b, ls)) \cup paidOrders) = {}
    BY <1>1 DEF SettledOrders
  <2>4. QED
    BY <1>2, <1>3, <2>1, <2>2, <2>3, SettleSettlement
<1>4. CASE UNCHANGED billStatus /\ SettleOrders({}, dropped, {})
  <2>1. {} \in SUBSET Order /\ dropped \cap ({} \cup paidOrders) = {} /\ billStatus'[b] # "paid"
    BY <1>1, <1>2, <1>4
  <2>2. QED
    BY <1>2, <1>4, <2>1, SettleSettlement
<1>5. QED
  BY <1>3, <1>4 DEF ReleaseLines

LEMMA SettledStep ==
  TypeOK /\ TypeOK' /\ AllocationInv /\ SettledTogether /\ [Next]_vars => SettledTogether'
<1> SUFFICES ASSUME TypeOK, TypeOK', AllocationInv, SettledTogether, [Next]_vars
             PROVE  SettledTogether'
  OBVIOUS
<1>1. ASSUME UNCHANGED <<orderVars, billStatus, billOrders>> PROVE SettledTogether'
  BY <1>1, SameSettlement DEF orderVars
<1>2. ASSUME NEW o \in Order, CreateOrder(o) PROVE SettledTogether'
  BY <1>2, OrderStepSettlement DEF CreateOrder, OrderStatus, billVars
<1>3. ASSUME NEW o \in Order, NEW to \in OrderStatus, TransitionOrder(o, to)
      PROVE  SettledTogether'
  <2>1. to = "canceled" => o \notin paidOrders
    <3> SUFFICES ASSUME to = "canceled", o \in paidOrders PROVE FALSE
      OBVIOUS
    <3>1. ActiveLines(o) = {}
      BY <1>3 DEF TransitionOrder, MayTransition
    <3>2. PICK b \in Bill : items[b] \cap LinesOf({o}) # {}
      BY PaidOrderIsCharged
    <3>3. QED
      BY <3>1, <3>2 DEF ActiveLines
  <2>2. status[o] # "canceled"
    BY <1>3 DEF TransitionOrder, MayTransition, NextStatuses
  <2>3. QED
    BY <1>3, <2>1, <2>2, OrderStepSettlement DEF TransitionOrder, billVars
<1>4. ASSUME NEW o \in Order, ConfirmReceived(o) PROVE SettledTogether'
  <2>1. status[o] # "canceled"
    BY <1>4 DEF ConfirmReceived, NextStatuses
  <2>2. QED
    BY <1>4, <2>1, OrderStepSettlement DEF ConfirmReceived, OrderStatus, billVars
<1>5. ASSUME NEW o \in Order, CancelRead(o) PROVE SettledTogether'
  BY <1>1, <1>5 DEF CancelRead, billVars
<1>6. ASSUME NEW c \in canceling, CancelCommit(c) PROVE SettledTogether'
  <2>1. /\ c.order \in Order /\ c.lines \in SUBSET Line
        /\ ActiveLines(c.order) \subseteq c.lines
        /\ status[c.order] # "canceled"
    BY <1>6 DEF CancelCommit, MayCancel, NextStatuses, TypeOK
  <2>2. CASE c.bill = None
    <3>1. ActiveLines(c.order) = {}
      BY <2>1, <2>2 DEF AllocationInv, RunningCommandsSound
    <3>2. c.order \notin paidOrders
      <4> SUFFICES ASSUME c.order \in paidOrders PROVE FALSE
        OBVIOUS
      <4>1. PICK b \in Bill : items[b] \cap LinesOf({c.order}) # {}
        BY PaidOrderIsCharged
      <4>2. QED
        BY <3>1, <4>1 DEF ActiveLines
    <3>3. /\ status' = [status EXCEPT ![c.order] = "canceled"]
          /\ UNCHANGED <<paidOrders, billStatus, billOrders>>
      BY <1>6, <2>2 DEF CancelCommit, billVars
    <3>4. QED
      BY <2>1, <3>2, <3>3, OrderStepSettlement DEF OrderStatus
  <2>3. CASE c.bill # None
    <3>1. /\ c.bill \in Bill /\ {c.order} \in SUBSET Order
          /\ MayRemove(c.bill, c.lines) /\ ReleaseLines(c.bill, c.lines, {c.order})
      BY <1>6, <2>3 DEF CancelCommit, TypeOK
    <3>2. QED
      BY <2>1, <3>1, ReleaseSettlement
  <2>4. QED
    BY <2>2, <2>3
<1>7. ASSUME NEW c \in canceling, CancelAbort(c) PROVE SettledTogether'
  BY <1>1, <1>7 DEF CancelAbort, billVars
<1>8. ASSUME NEW b \in Bill, NEW os \in SUBSET Order, CreateBill(b, os) PROVE SettledTogether'
  BY <1>8, SameSettlement DEF CreateBill, orderVars, TypeOK
<1>9. ASSUME NEW b \in Bill, NEW os \in SUBSET Order, AttachRead(b, os) PROVE SettledTogether'
  BY <1>1, <1>9 DEF AttachRead, billVars
<1>10. ASSUME NEW b \in Bill, AttachCommit(b) PROVE SettledTogether'
  <2>1. billStatus[b] # "paid"
    BY <1>10 DEF AttachCommit, AllocationInv, RunningCommandsSound, OpenStatus
  <2>2. QED
    BY <1>10, <2>1, SameSettlement DEF AttachCommit, orderVars, TypeOK
<1>11. ASSUME NEW b \in Bill, AttachAbort(b) PROVE SettledTogether'
  BY <1>1, <1>11 DEF AttachAbort, billVars
<1>12. ASSUME NEW b \in Bill, IssueBill(b) PROVE SettledTogether'
  BY <1>12, SameSettlement DEF IssueBill, orderVars, TypeOK
\* A payment that settles bill b.
<1>13. ASSUME NEW b \in Bill, NEW rows, Unlocked(b), billStatus[b] \in OpenStatus,
              SettleOrders(SettledOrders(billOrders[b]), {}, rows),
              billStatus' = [billStatus EXCEPT ![b] = "paid"],
              UNCHANGED billOrders
       PROVE  SettledTogether'
  <2>1. /\ SettledOrders(billOrders[b]) = {o \in billOrders'[b] : status[o] # "canceled"}
        /\ SettledOrders(billOrders[b]) \in SUBSET Order
        /\ {} \in SUBSET Order
    BY <1>13 DEF SettledOrders, TypeOK
  <2>2. /\ billStatus[b] # "paid" /\ billStatus'[b] = "paid"
        /\ billOrders' \in [Bill -> SUBSET Order]
        /\ \A c \in Bill \ {b} : billStatus'[c] = billStatus[c] /\ billOrders'[c] = billOrders[c]
    BY <1>13 DEF OpenStatus, TypeOK
  <2>3. QED
    BY <1>13, <2>1, <2>2, SettleSettlement
<1>14. ASSUME NEW b \in Bill, NEW amount \in Nat, RecordPayment(b, amount)
       PROVE  SettledTogether'
  <2>1. CASE /\ billStatus' = [billStatus EXCEPT ![b] = "paid"]
             /\ SettleOrders(SettledOrders(billOrders[b]), {}, {})
    BY <1>13, <1>14, <2>1 DEF RecordPayment
  <2>2. CASE /\ billStatus' = [billStatus EXCEPT ![b] = "partially_paid"]
             /\ UNCHANGED <<orderVars, ledger>>
    BY <1>14, <2>2, SameSettlement DEF RecordPayment, orderVars, TypeOK, OpenStatus
  <2>3. QED
    BY <1>14, <2>1, <2>2 DEF RecordPayment
<1>15. ASSUME NEW b \in Bill, NEW amount \in Nat, PayWithBonuses(b, amount)
       PROVE  SettledTogether'
  <2>1. CASE /\ billStatus' = [billStatus EXCEPT ![b] = "paid"]
             /\ SettleOrders(SettledOrders(billOrders[b]), {}, {RedemptionRow(b, amount)})
    BY <1>13, <1>15, <2>1 DEF PayWithBonuses, MaySpendBonuses
  <2>2. CASE /\ billStatus' = [billStatus EXCEPT ![b] = IF @ = "draft" THEN "issued" ELSE @]
             /\ UNCHANGED orderVars
    BY <1>15, <2>2, SameSettlement DEF PayWithBonuses, MaySpendBonuses, orderVars, TypeOK,
                                       OpenStatus
  <2>3. QED
    BY <1>15, <2>1, <2>2 DEF PayWithBonuses
<1>16. ASSUME NEW b \in Bill, NEW amount \in Nat, RedeemBonus(b, amount) PROVE SettledTogether'
  BY <1>1, <1>16 DEF RedeemBonus
<1>17. ASSUME NEW b \in Bill, NEW ls \in SUBSET items[b], RemoveLines(b, ls)
       PROVE  SettledTogether'
  <2>1. ls \in SUBSET Line /\ {} \in SUBSET Order
    BY DEF TypeOK
  <2>2. QED
    BY <1>17, <2>1, ReleaseSettlement DEF RemoveLines
<1>18. ASSUME NEW b \in Bill, VoidBill(b) PROVE SettledTogether'
  BY <1>18, SameSettlement DEF VoidBill, MayVoid, orderVars, TypeOK, OpenStatus
<1>19. CASE UNCHANGED vars
  BY <1>1, <1>19 DEF vars, orderVars
<1>20. 1..Worth[Line] \subseteq Nat
  BY MoneyAssumption
<1>21. QED
  BY <1>2, <1>3, <1>4, <1>5, <1>6, <1>7, <1>8, <1>9, <1>10, <1>11, <1>12, <1>14, <1>15,
     <1>16, <1>17, <1>18, <1>19, <1>20 DEF Next

-----------------------------------------------------------------------------
(* Awards, and prepaid orders *)

\* Settling orders awards each of them at most once, and pays them.
LEMMA SettleRewards ==
  ASSUME AwardsPaid, NEW os \in SUBSET Order, NEW dropped, NEW rows,
         \A r \in rows : r.type # "accrual",
         SettleOrders(os, dropped, rows)
  PROVE  AwardsPaid'
<1>1. PICK award \in [os \ paidOrders -> Accruals] :
         ledger' = ledger \cup rows \cup AccrualRows(award)
  BY DEF SettleOrders
<1>2. paidOrders' = paidOrders \cup os
  BY DEF SettleOrders
<1>3. \A r \in AccrualRows(award) : /\ r.order \in os \ paidOrders
                                    /\ r = [type |-> "accrual", order |-> r.order,
                                            guest |-> GuestOf[r.order],
                                            amount |-> award[r.order]]
  BY DEF AccrualRows
<1>4. ASSUME NEW r \in ledger', r.type = "accrual" PROVE r \in ledger \cup AccrualRows(award)
  BY <1>1, <1>4
<1>5. ASSUME NEW r \in ledger', r.type = "accrual" PROVE r.order \in paidOrders'
  BY <1>2, <1>3, <1>4, <1>5 DEF AwardsPaid
<1>6. ASSUME NEW r \in ledger', r.type = "accrual", NEW t \in ledger', t.type = "accrual",
             r.order = t.order
      PROVE  r = t
  <2>1. CASE r \in ledger /\ t \in ledger
    BY <1>6, <2>1 DEF AwardsPaid
  <2>2. CASE r \in ledger /\ t \in AccrualRows(award)
    BY <1>3, <1>6, <2>2 DEF AwardsPaid
  <2>3. CASE r \in AccrualRows(award) /\ t \in ledger
    BY <1>3, <1>6, <2>3 DEF AwardsPaid
  <2>4. CASE r \in AccrualRows(award) /\ t \in AccrualRows(award)
    BY <1>3, <1>6, <2>4
  <2>5. QED
    BY <1>4, <1>6, <2>1, <2>2, <2>3, <2>4
<1>7. QED
  BY <1>5, <1>6 DEF AwardsPaid

\* Settling a prepaid order leaves it paid; one in work was paid before.
LEMMA SettlePickup ==
  ASSUME TypeOK, PickupPaidBeforeWork, NEW os \in SUBSET Order, NEW dropped, NEW rows,
         SettleOrders(os, dropped, rows)
  PROVE  PickupPaidBeforeWork'
BY RowsAssumption DEF SettleOrders, PickupPaidBeforeWork, TypeOK

LEMMA AwardStep ==
  TypeOK /\ AwardsPaid /\ PickupPaidBeforeWork /\ [Next]_vars
     => AwardsPaid' /\ PickupPaidBeforeWork'
<1> SUFFICES ASSUME TypeOK, AwardsPaid, PickupPaidBeforeWork, [Next]_vars
             PROVE  AwardsPaid' /\ PickupPaidBeforeWork'
  OBVIOUS
<1>1. ASSUME UNCHANGED <<paidOrders, status>>,
             ledger' = ledger \/ \E r \in ledger' : r.type # "accrual" /\ ledger' = ledger \cup {r}
      PROVE  AwardsPaid' /\ PickupPaidBeforeWork'
  BY <1>1 DEF AwardsPaid, PickupPaidBeforeWork
<1>2. ASSUME NEW os \in SUBSET Order, NEW dropped, NEW rows,
             \A r \in rows : r.type # "accrual", SettleOrders(os, dropped, rows)
      PROVE  AwardsPaid' /\ PickupPaidBeforeWork'
  BY <1>2, SettleRewards, SettlePickup
<1>3. ASSUME NEW b \in Bill PROVE SettledOrders(billOrders[b]) \in SUBSET Order
  BY DEF SettledOrders, TypeOK
<1>4. ASSUME NEW b \in Bill, NEW ls, NEW dropped, ReleaseLines(b, ls, dropped)
      PROVE  AwardsPaid' /\ PickupPaidBeforeWork'
  <2>1. SettledOrders(LinksAfter(b, ls)) \in SUBSET Order /\ {} \in SUBSET Order
    BY DEF SettledOrders, LinksAfter, TypeOK
  <2>2. \A r \in {} : r.type # "accrual"
    OBVIOUS
  <2>3. SettleOrders(SettledOrders(LinksAfter(b, ls)), dropped, {}) \/ SettleOrders({}, dropped, {})
    BY <1>4 DEF ReleaseLines
  <2>4. QED
    BY <1>2, <2>1, <2>2, <2>3
<1>5. ASSUME NEW o \in Order, NEW to \in OrderStatus, TransitionOrder(o, to)
      PROVE  AwardsPaid' /\ PickupPaidBeforeWork'
  BY <1>5 DEF TransitionOrder, MayTransition, NextStatuses, OrderStatus, TypeOK, AwardsPaid,
              PickupPaidBeforeWork
<1>6. ASSUME NEW o \in Order, CreateOrder(o) \/ ConfirmReceived(o)
      PROVE  AwardsPaid' /\ PickupPaidBeforeWork'
  <2>1. AwardsPaid'
    BY <1>6 DEF CreateOrder, ConfirmReceived, AwardsPaid
  <2>2. PickupPaidBeforeWork'
    BY <1>6, RowsAssumption DEF CreateOrder, ConfirmReceived, TypeOK, PickupPaidBeforeWork
  <2>3. QED
    BY <2>1, <2>2
<1>7. ASSUME NEW c \in canceling, CancelCommit(c) PROVE AwardsPaid' /\ PickupPaidBeforeWork'
  <2>1. CASE c.bill = None
    <3>1. AwardsPaid'
      BY <1>7, <2>1 DEF CancelCommit, AwardsPaid
    <3>2. PickupPaidBeforeWork'
      BY <1>7, <2>1, RowsAssumption DEF CancelCommit, TypeOK, PickupPaidBeforeWork
    <3>3. QED
      BY <3>1, <3>2
  <2>2. CASE c.bill # None
    BY <1>4, <1>7, <2>2 DEF CancelCommit, TypeOK
  <2>3. QED
    BY <2>1, <2>2
<1>8. ASSUME NEW b \in Bill, NEW amount \in Nat, RecordPayment(b, amount)
      PROVE  AwardsPaid' /\ PickupPaidBeforeWork'
  <2>1. CASE SettleOrders(SettledOrders(billOrders[b]), {}, {})
    BY <1>2, <1>3, <2>1
  <2>2. CASE UNCHANGED <<orderVars, ledger>>
    BY <1>1, <2>2 DEF orderVars
  <2>3. QED
    BY <1>8, <2>1, <2>2 DEF RecordPayment
<1>9. ASSUME NEW b \in Bill, NEW amount \in Nat, PayWithBonuses(b, amount)
      PROVE  AwardsPaid' /\ PickupPaidBeforeWork'
  <2>1. RedemptionRow(b, amount).type # "accrual"
    BY DEF RedemptionRow
  <2>2. CASE SettleOrders(SettledOrders(billOrders[b]), {}, {RedemptionRow(b, amount)})
    BY <1>2, <1>3, <2>1, <2>2
  <2>3. CASE ledger' = ledger \cup {RedemptionRow(b, amount)} /\ UNCHANGED orderVars
    BY <1>1, <2>1, <2>3 DEF orderVars
  <2>4. QED
    BY <1>9, <2>2, <2>3 DEF PayWithBonuses
<1>10. ASSUME NEW b \in Bill, NEW amount \in Nat, RedeemBonus(b, amount)
       PROVE  AwardsPaid' /\ PickupPaidBeforeWork'
  BY <1>1, <1>10 DEF RedeemBonus, RedemptionRow, orderVars
<1>11. ASSUME NEW b \in Bill, NEW ls \in SUBSET items[b], RemoveLines(b, ls)
       PROVE  AwardsPaid' /\ PickupPaidBeforeWork'
  BY <1>4, <1>11 DEF RemoveLines
<1>12. ASSUME NEW b \in Bill, VoidBill(b) PROVE AwardsPaid' /\ PickupPaidBeforeWork'
  <2>1. \A r \in ReturnedBonus(b) : r.type # "accrual"
    BY DEF ReturnedBonus
  <2>2. ledger' = ledger \cup ReturnedBonus(b) /\ UNCHANGED <<status, paidOrders>>
    BY <1>12 DEF VoidBill, orderVars
  <2>3. QED
    BY <2>1, <2>2 DEF AwardsPaid, PickupPaidBeforeWork
<1>13. ASSUME NEW o \in Order, CancelRead(o) PROVE AwardsPaid' /\ PickupPaidBeforeWork'
  BY <1>1, <1>13 DEF CancelRead, orderVars
<1>14. ASSUME NEW b \in Bill, NEW os \in SUBSET Order,
              \/ CreateBill(b, os) \/ AttachRead(b, os) \/ AttachCommit(b)
              \/ AttachAbort(b) \/ IssueBill(b)
       PROVE  AwardsPaid' /\ PickupPaidBeforeWork'
  BY <1>1, <1>14 DEF CreateBill, AttachRead, AttachCommit, AttachAbort, IssueBill, orderVars
<1>15. ASSUME NEW c \in canceling, CancelAbort(c) PROVE AwardsPaid' /\ PickupPaidBeforeWork'
  BY <1>1, <1>15 DEF CancelAbort, orderVars
<1>16. CASE UNCHANGED vars
  BY <1>1, <1>16 DEF vars
<1>17. 1..Worth[Line] \subseteq Nat /\ {} \in SUBSET Order
  BY MoneyAssumption
<1>18. QED
  BY <1>5, <1>6, <1>7, <1>8, <1>9, <1>10, <1>11, <1>12, <1>13, <1>14, <1>15, <1>16,
     <1>17 DEF Next

-----------------------------------------------------------------------------
(* Sums over finite sets: an element x worth f[x] stands for f[x] units, and *)
(* a sum is a number of units. *)

Units(f, S) == UNION {{x} \X (1..f[x]) : x \in S}

\* One element counts as many units as it is worth.
LEMMA UnitsOfOne == 
  ASSUME NEW x, NEW n \in Nat
  PROVE IsFiniteSet({x} \X (1..n)) /\ Cardinality({x} \X (1..n)) = n
<1>1. IsFiniteSet({x}) /\ Cardinality({x}) = 1
  BY FS_Singleton
<1>2. IsFiniteSet(1..n) /\ Cardinality(1..n) = n
  BY FS_Interval
<1> DEFINE I == 1..n
<1> HIDE DEF I
<1>3. IsFiniteSet({x} \X I) /\ Cardinality({x} \X I) = Cardinality({x}) * Cardinality(I)
  BY <1>1, <1>2, FS_Product DEF I
<1> QED BY <1>1, <1>2, <1>3 DEF I

\* An element adds the units it is worth.
LEMMA UnitsAdd ==
  ASSUME NEW f, NEW S, NEW x \in S, f[x] \in Nat, IsFiniteSet(Units(f, S \ {x}))
  PROVE  /\ IsFiniteSet(Units(f, S))
         /\ Cardinality(Units(f, S)) = f[x] + Cardinality(Units(f, S \ {x}))
<1> DEFINE one == {x} \X (1..f[x])
           rest == Units(f, S \ {x})
<1>1. IsFiniteSet(one) /\ Cardinality(one) = f[x]
  BY UnitsOfOne
<1>2. Units(f, S) = rest \cup one /\ rest \cap one = {}
  BY DEF Units
<1>3. IsFiniteSet(rest) /\ Cardinality(rest) \in Nat /\ Cardinality({}) = 0
  BY FS_CardinalityType, FS_EmptySet
<1> HIDE DEF one, rest
<1>4. /\ IsFiniteSet(rest \cup one)
      /\ Cardinality(rest \cup one) = Cardinality(rest) + Cardinality(one) - Cardinality(rest \cap one)
  BY <1>1, <1>3, FS_Union
<1>5. Cardinality(rest \cap one) = 0
  BY <1>2, <1>3
<1>6. Cardinality(rest \cup one) = f[x] + Cardinality(rest)
  <2> HIDE <1>2
  <2> QED  BY <1>1, <1>3, <1>4, <1>5
<1> QED
  BY <1>2, <1>4, <1>6 DEF rest

\* A set of subsets of a finite set has one that contains no other: the induction on finite sets.
LEMMA FiniteMinimal ==
  ASSUME NEW S, IsFiniteSet(S), NEW T, T \subseteq SUBSET S, T # {}
  PROVE  \E s \in T : \A r \in T : r \subseteq s => r = s
<1>1. IsWellFoundedOn(StrictSubsetOrdering(S), FiniteSubsetsOf(S)) /\ FiniteSubsetsOf(S) = SUBSET S
  BY FS_StrictSubsetOrderingWellFounded, FS_FiniteSubsetsOfFinite
<1>2. PICK s \in T : \A r \in T : <<r, s>> \notin StrictSubsetOrdering(S)
  BY <1>1, WFMin
<1> QED
  BY <1>2 DEF StrictSubsetOrdering

\* The fold of the model adds up the units: the cardinality solves its recursion.
LEMMA SumIsUnits ==
  ASSUME NEW S, IsFiniteSet(S), NEW f, \A x \in S : f[x] \in Nat
  PROVE  IsFiniteSet(Units(f, S)) /\ SumFunctionOnSet(f, S) = Cardinality(Units(f, S))
<1> DEFINE x(s) == CHOOSE y \in s : TRUE
           step(g) == [s \in SUBSET S |-> IF s = {} THEN 0 ELSE f[x(s)] + g[s \ {x(s)}]]
           iter == CHOOSE g : g = step(g)
           size == [s \in SUBSET S |-> Cardinality(Units(f, s))]
<1>1. \A s \in SUBSET S : s # {} => x(s) \in s
  OBVIOUS
<1>2. \A s \in SUBSET S : IsFiniteSet(Units(f, s))
  <2> DEFINE Bad == {s \in SUBSET S : ~IsFiniteSet(Units(f, s))}
  <2> SUFFICES ASSUME Bad # {} PROVE FALSE
    OBVIOUS
  <2>0. Bad \subseteq SUBSET S
    OBVIOUS
  <2>1. PICK s \in Bad : \A r \in Bad : r \subseteq s => r = s
    <3> HIDE DEF Bad
    <3> QED  BY <2>0, FiniteMinimal
  <2>2. CASE s = {}
    BY <2>1, <2>2, FS_EmptySet DEF Units
  <2>3. CASE s # {}
    <3>1. PICK y \in s : TRUE
      BY <2>3
    <3>2. s \ {y} \notin Bad /\ s \ {y} \in SUBSET S
      BY <2>1, <3>1
    <3> QED  BY <2>1, <3>1, <3>2, UnitsAdd
  <2> QED  BY <2>2, <2>3
<1>3. ASSUME NEW s \in SUBSET S
      PROVE  size[s] = IF s = {} THEN 0 ELSE f[x(s)] + size[s \ {x(s)}]
  <2>1. CASE s = {}
    BY <2>1, FS_EmptySet DEF Units
  <2>2. CASE s # {}
    <3> DEFINE y == x(s)
    <3>1. y \in s /\ f[y] \in Nat /\ s \ {y} \in SUBSET S
      BY <1>1, <2>2
    <3> HIDE DEF y
    <3>2. Cardinality(Units(f, s)) = f[y] + Cardinality(Units(f, s \ {y}))
      <4>1. IsFiniteSet(Units(f, s \ {y}))
        BY <1>2, <3>1
      <4> QED  BY <3>1, <4>1, UnitsAdd
    <3>3. size[s] = f[y] + size[s \ {y}]
      BY <3>1, <3>2
    <3> QED  BY <2>2, <3>3 DEF y
  <2> QED  BY <2>1, <2>2
<1>4. size = step(size)
  <2> HIDE DEF x
  <2> DEFINE rhs == step(size)
  <2>1. rhs = [s \in SUBSET S |-> IF s = {} THEN 0 ELSE f[x(s)] + size[s \ {x(s)}]]
    OBVIOUS
  <2>2. size = [s \in SUBSET S |-> size[s]]
    OBVIOUS
  <2> HIDE DEF size
  <2> QED  BY <1>3, <2>1, <2>2
<1>5. iter = step(iter)
  <2> HIDE DEF step, size
  <2> QED  BY <1>4
<1>6. SumFunctionOnSet(f, S) = iter[S]
  BY DEF SumFunctionOnSet, FoldFunctionOnSet, MapThenFoldSet
<1>7. iter[S] = size[S]
  <2> DEFINE Bad == {s \in SUBSET S : iter[s] # size[s]}
  <2> SUFFICES ASSUME Bad # {} PROVE FALSE
    OBVIOUS
  <2> HIDE DEF iter
  <2>0. Bad \subseteq SUBSET S
    OBVIOUS
  <2>1. PICK s \in Bad : \A r \in Bad : r \subseteq s => r = s
    <3> HIDE DEF Bad
    <3> QED  BY <2>0, FiniteMinimal
  <2>2. iter[s] = IF s = {} THEN 0 ELSE f[x(s)] + iter[s \ {x(s)}]
    <3> HIDE DEF x, size
    <3> QED BY <1>5
  <2>3. size[s] = IF s = {} THEN 0 ELSE f[x(s)] + size[s \ {x(s)}]
    BY <1>3
  <2>4. s # {} => s \ {x(s)} \notin Bad /\ s \ {x(s)} \in SUBSET S
    <3> HIDE DEF size
    <3> QED BY <1>1, <2>1
  <2> HIDE DEF x, size
  <2> QED  BY <2>1, <2>2, <2>3, <2>4
<1> HIDE DEF iter
<1> QED
  BY <1>2, <1>6, <1>7

\* Any element can be added last.
LEMMA SumStep ==
  ASSUME NEW S, IsFiniteSet(S), NEW f, \A x \in S : f[x] \in Nat, NEW x \in S
  PROVE  /\ SumFunctionOnSet(f, S \ {x}) \in Nat
         /\ SumFunctionOnSet(f, S) = f[x] + SumFunctionOnSet(f, S \ {x})
<1>1. IsFiniteSet(S \ {x})
  BY FS_Subset
<1>2. /\ IsFiniteSet(Units(f, S \ {x}))
      /\ SumFunctionOnSet(f, S \ {x}) = Cardinality(Units(f, S \ {x}))
  BY <1>1, SumIsUnits
<1>3. SumFunctionOnSet(f, S) = Cardinality(Units(f, S))
  BY SumIsUnits
<1>4. Cardinality(Units(f, S)) = f[x] + Cardinality(Units(f, S \ {x}))
  BY <1>2, UnitsAdd
<1>5. SumFunctionOnSet(f, S \ {x}) \in Nat
  BY <1>1, <1>2, FS_CardinalityType
<1> QED
  BY <1>2, <1>3, <1>4, <1>5

\* Two functions have the same sum when they differ only by zeros.
LEMMA SumSame ==
  ASSUME NEW S, NEW T, IsFiniteSet(S), IsFiniteSet(T), NEW f, NEW g,
         \A x \in S : f[x] \in Nat, \A x \in T : g[x] \in Nat,
         \A x \in S \cap T : f[x] = g[x], \A x \in S \ T : f[x] = 0, \A x \in T \ S : g[x] = 0
  PROVE  SumFunctionOnSet(f, S) = SumFunctionOnSet(g, T)
<1>1. Units(f, S) = Units(g, T)
  <2>1. \A x \in S \ T : 1..f[x] = {}
    OBVIOUS
  <2>2. \A x \in T \ S : 1..g[x] = {}
    OBVIOUS
  <2>3. ASSUME NEW u \in Units(f, S) PROVE u \in Units(g, T)
    <3>1. PICK x \in S : u \in {x} \X (1..f[x])
      BY DEF Units
    <3>2. x \in T
      BY <2>1, <3>1
    <3> QED  BY <3>1, <3>2 DEF Units
  <2>4. ASSUME NEW u \in Units(g, T) PROVE u \in Units(f, S)
    <3>1. PICK x \in T : u \in {x} \X (1..g[x])
      BY DEF Units
    <3>2. x \in S
      BY <2>2, <3>1
    <3> QED  BY <3>1, <3>2 DEF Units
  <2> QED  BY <2>3, <2>4
<1>2. /\ SumFunctionOnSet(f, S) = Cardinality(Units(f, S))
      /\ SumFunctionOnSet(g, T) = Cardinality(Units(g, T))
  BY SumIsUnits
<1> QED
  BY <1>1, <1>2

\* A sum does not change when its terms are moved by a bijection.
LEMMA SumMoved ==
  ASSUME NEW S, NEW T, NEW f, NEW g, NEW h \in Bijection(S, T), IsFiniteSet(S), IsFiniteSet(T),
         \A x \in S : f[x] \in Nat /\ g[h[x]] = f[x]
  PROVE  SumFunctionOnSet(f, S) = SumFunctionOnSet(g, T)
<1>0. /\ h \in [S -> T] /\ \A x, y \in S : h[x] = h[y] => x = y
      /\ \A t \in T : \E s \in S : h[s] = t
  BY DEF Bijection, Injection, Surjection, IsInjective
<1>1. \A t \in T : g[t] \in Nat
  BY <1>0
<1>2. /\ IsFiniteSet(Units(f, S)) /\ IsFiniteSet(Units(g, T))
      /\ SumFunctionOnSet(f, S) = Cardinality(Units(f, S))
      /\ SumFunctionOnSet(g, T) = Cardinality(Units(g, T))
  BY <1>1, SumIsUnits
<1> DEFINE k == [u \in Units(f, S) |-> <<h[u[1]], u[2]>>]
<1>3. k \in Bijection(Units(f, S), Units(g, T))
  <2>1. k \in [Units(f, S) -> Units(g, T)]
    BY <1>0 DEF Units
  <2>2. \A u, v \in Units(f, S) : k[u] = k[v] => u = v
    BY <1>0 DEF Units
  <2>3. ASSUME NEW w \in Units(g, T) PROVE \E u \in Units(f, S) : k[u] = w
    <3>1. PICK t \in T : w \in {t} \X (1..g[t])
      BY DEF Units
    <3>2. PICK s \in S : h[s] = t
      BY <1>0
    <3>3. <<s, w[2]>> \in Units(f, S)
      BY <3>1, <3>2 DEF Units
    <3> QED  BY <3>1, <3>2, <3>3
  <2> HIDE DEF k
  <2> QED  BY <2>1, <2>2, <2>3 DEF Bijection, Injection, Surjection, IsInjective
<1>4. Cardinality(Units(f, S)) = Cardinality(Units(g, T))
  <2> HIDE DEF k
  <2>1. ExistsBijection(Units(f, S), Units(g, T))
    BY <1>3 DEF ExistsBijection
  <2> QED  BY <1>2, <2>1, FS_Bijection
<1> QED
  BY <1>2, <1>4

\* A sum over two disjoint sets is the sum of the sums.
LEMMA SumSplit ==
  ASSUME NEW B, NEW S, NEW T, B = S \cup T, S \cap T = {}, IsFiniteSet(S), IsFiniteSet(T), NEW f,
         \A x \in S : f[x] \in Nat, \A x \in T : f[x] \in Nat
  PROVE  /\ SumFunctionOnSet(f, S) \in Nat /\ SumFunctionOnSet(f, T) \in Nat
         /\ SumFunctionOnSet(f, B) = SumFunctionOnSet(f, S) + SumFunctionOnSet(f, T)
<1>1. IsFiniteSet(B) /\ \A x \in B : f[x] \in Nat
  BY FS_Union
<1>2. /\ IsFiniteSet(Units(f, S)) /\ IsFiniteSet(Units(f, T))
      /\ SumFunctionOnSet(f, S) = Cardinality(Units(f, S))
      /\ SumFunctionOnSet(f, T) = Cardinality(Units(f, T))
      /\ SumFunctionOnSet(f, B) = Cardinality(Units(f, B))
  BY <1>1, SumIsUnits
<1>3. Units(f, B) = Units(f, S) \cup Units(f, T) /\ Units(f, S) \cap Units(f, T) = {}
  BY DEF Units
<1>4. Cardinality(Units(f, B)) = Cardinality(Units(f, S)) + Cardinality(Units(f, T)) - Cardinality({})
  <2> DEFINE us == Units(f, S)
             ut == Units(f, T)
  <2>1. IsFiniteSet(us) /\ IsFiniteSet(ut)
    BY <1>2
  <2> HIDE DEF us, ut
  <2>2. Cardinality(us \cup ut) = Cardinality(us) + Cardinality(ut) - Cardinality(us \cap ut)
    BY <2>1, FS_Union
  <2>3. Units(f, B) = us \cup ut /\ us \cap ut = {}
    BY <1>3 DEF us, ut
  <2> QED
    BY <2>2, <2>3 DEF us, ut
<1>5. /\ Cardinality({}) = 0
      /\ Cardinality(Units(f, S)) \in Nat /\ Cardinality(Units(f, T)) \in Nat
  BY <1>2, FS_EmptySet, FS_CardinalityType
<1> QED
  BY <1>2, <1>4, <1>5

-----------------------------------------------------------------------------
(* The bonus ledger *)

LEMMA RowTyped ==
  ASSUME NEW r \in LedgerRow
  PROVE  /\ r.amount \in Nat /\ r.guest \in Guest
         /\ r.type \in {"redemption", "reversal", "accrual"}
         /\ r.type # "accrual" => r.bill \in Bill
BY DEF LedgerRow

\* Rows that are added raise what is in them together.
LEMMA AmountGrows ==
  ASSUME NEW S \in SUBSET LedgerRow, NEW T \in SUBSET LedgerRow, S \subseteq T, IsFiniteSet(T)
  PROVE  AmountIn(S) \in Nat /\ AmountIn(T) \in Nat /\ AmountIn(S) <= AmountIn(T)
<1> DEFINE f == [r \in S |-> r.amount]
           g == [r \in T |-> r.amount]
<1>1. \A r \in T : g[r] \in Nat
  BY RowTyped
<1>2. \A r \in S : f[r] \in Nat /\ f[r] = g[r]
  BY RowTyped
<1>3. AmountIn(S) = SumFunctionOnSet(f, S) /\ AmountIn(T) = SumFunctionOnSet(g, T)
  BY DEF AmountIn
<1>4. IsFiniteSet(S)
  BY FS_Subset
<1> HIDE DEF f, g
<1>5. /\ IsFiniteSet(Units(g, T))
      /\ SumFunctionOnSet(g, T) = Cardinality(Units(g, T))
      /\ SumFunctionOnSet(f, S) = Cardinality(Units(f, S))
  BY <1>1, <1>2, <1>4, SumIsUnits
<1>6. Units(f, S) \subseteq Units(g, T)
  BY <1>2 DEF Units
<1>7. /\ Cardinality(Units(f, S)) <= Cardinality(Units(g, T))
      /\ Cardinality(Units(f, S)) \in Nat /\ Cardinality(Units(g, T)) \in Nat
  BY <1>5, <1>6, FS_Subset, FS_CardinalityType
<1>8. QED
  BY <1>3, <1>5, <1>7

\* One row more adds its amount.
LEMMA AmountOneMore ==
  ASSUME NEW S \in SUBSET LedgerRow, IsFiniteSet(S), NEW row \in LedgerRow, row \notin S
  PROVE  AmountIn(S \cup {row}) = AmountIn(S) + row.amount
<1> DEFINE T == S \cup {row}
           f == [r \in S |-> r.amount]
           g == [r \in T |-> r.amount]
<1>1. \A r \in T : g[r] \in Nat
  BY RowTyped
<1>2. \A r \in S : f[r] \in Nat /\ g[r] \in Nat /\ f[r] = g[r]
  BY RowTyped
<1>3. AmountIn(S) = SumFunctionOnSet(f, S) /\ AmountIn(T) = SumFunctionOnSet(g, T)
  BY DEF AmountIn
<1>4. row \in T /\ T \ {row} = S /\ g[row] = row.amount
  OBVIOUS
<1>5. IsFiniteSet(T)
  BY FS_AddElement
<1> HIDE DEF f, g, T
<1>6. SumFunctionOnSet(g, T \ {row}) \in Nat
      /\ SumFunctionOnSet(g, T) = g[row] + SumFunctionOnSet(g, T \ {row})
  BY <1>1, <1>4, <1>5, SumStep
<1>7. SumFunctionOnSet(f, S) = SumFunctionOnSet(g, S)
  BY <1>2, SumSame
<1>8. row.amount \in Nat
  BY RowTyped
<1>9. SumFunctionOnSet(g, S) \in Nat /\ SumFunctionOnSet(g, T) = row.amount + SumFunctionOnSet(g, S)
  BY <1>4, <1>6
<1>10. AmountIn(T) = AmountIn(S) + row.amount
  BY <1>3, <1>7, <1>8, <1>9
<1>11. QED
  BY <1>10 DEF T

\* What a guest was given and has spent, by the rows of a ledger.
Given(rows, g) == AmountIn({r \in {x \in rows : x.guest = g} : r.type \in {"accrual", "reversal"}})
Redeemed(rows, g) == AmountIn({r \in {x \in rows : x.guest = g} : r.type = "redemption"})
Balance(rows, g) == InitialBonus[g] + Given(rows, g) - Redeemed(rows, g)

\* A balance stays above zero when no more is redeemed than it holds.
LEMMA BalanceStep ==
  ASSUME NEW rows \in SUBSET LedgerRow, NEW next \in SUBSET LedgerRow, rows \subseteq next,
         IsFiniteSet(next), NEW g \in Guest, NEW n \in Nat, n <= Balance(rows, g),
         Redeemed(next, g) = Redeemed(rows, g) + n
  PROVE  Balance(next, g) >= 0
<1>1. Given(rows, g) \in Nat /\ Given(next, g) \in Nat /\ Given(rows, g) <= Given(next, g)
  <2> DEFINE S == {r \in {x \in rows : x.guest = g} : r.type \in {"accrual", "reversal"}}
             T == {r \in {x \in next : x.guest = g} : r.type \in {"accrual", "reversal"}}
  <2>1. S \in SUBSET LedgerRow /\ T \in SUBSET LedgerRow /\ S \subseteq T /\ T \subseteq next
    OBVIOUS
  <2>2. Given(rows, g) = AmountIn(S) /\ Given(next, g) = AmountIn(T)
    BY DEF Given
  <2> HIDE DEF S, T
  <2>3. IsFiniteSet(T)
    BY <2>1, FS_Subset
  <2>4. QED
    BY <2>1, <2>2, <2>3, AmountGrows
<1>2. Redeemed(rows, g) \in Nat
  <2> DEFINE S == {r \in {x \in rows : x.guest = g} : r.type = "redemption"}
  <2>1. S \in SUBSET LedgerRow /\ S \subseteq next /\ Redeemed(rows, g) = AmountIn(S)
    BY DEF Redeemed
  <2> HIDE DEF S
  <2>2. IsFiniteSet(S)
    BY <2>1, FS_Subset
  <2>3. QED
    BY <2>1, <2>2, AmountGrows
<1>3. InitialBonus[g] \in Nat
  BY MoneyAssumption
<1>4. QED
  BY <1>1, <1>2, <1>3 DEF Balance

\* The ledger row of a voided bill.
ReversalRow(b) ==
  [type |-> "reversal", bill |-> b, guest |-> primaryGuest[b], amount |-> bonusSpent[b]]

\* The ledger and the bills tell the same: a bill that spent bonuses has its redemption there, and
\* its reversal once it is voided, and there are no other rows of these kinds.
LedgerInv ==
  /\ IsFiniteSet(ledger)
  /\ \A b \in Bill : bonusSpent[b] > 0 =>
        /\ billStatus[b] # "absent" /\ primaryGuest[b] \in Guest
        /\ RedemptionRow(b, bonusSpent[b]) \in ledger
        /\ billStatus[b] = "canceled" => ReversalRow(b) \in ledger
  /\ \A r \in ledger : r.type = "redemption" =>
        bonusSpent[r.bill] > 0 /\ r = RedemptionRow(r.bill, bonusSpent[r.bill])
  /\ \A r \in ledger : r.type = "reversal" =>
        bonusSpent[r.bill] > 0 /\ billStatus[r.bill] = "canceled" /\ r = ReversalRow(r.bill)
  /\ \A g \in Guest : LedgerBalance(g) >= 0

LEMMA BalanceIs == \A g : LedgerBalance(g) = Balance(ledger, g)
BY DEF LedgerBalance, Balance, Given, Redeemed

LEMMA NextBalance == \A g : LedgerBalance(g)' = Balance(ledger', g)
BY DEF LedgerBalance, Balance, Given, Redeemed

LEMMA RedeemedType ==
  ASSUME NEW rows \in SUBSET LedgerRow, IsFiniteSet(rows), NEW g
  PROVE  Redeemed(rows, g) \in Nat
<1> DEFINE S == {r \in {x \in rows : x.guest = g} : r.type = "redemption"}
<1>1. S \in SUBSET LedgerRow /\ S \subseteq rows /\ Redeemed(rows, g) = AmountIn(S)
  BY DEF Redeemed
<1> HIDE DEF S
<1>2. IsFiniteSet(S)
  BY <1>1, FS_Subset
<1>3. QED
  BY <1>1, <1>2, AmountGrows

\* The ledger adds up: what is not reversed is what the bills in force have spent.
LEMMA LedgerConserves ==
  ASSUME TypeOK, LedgerInv
  PROVE  BonusesConserved
<1> SUFFICES ASSUME NEW g \in Guest
             PROVE  AmountIn({r \in ledger : r.type = "redemption" /\ r.guest = g})
                      - AmountIn({r \in ledger : r.type = "reversal" /\ r.guest = g})
                    = SumFunctionOnSet(bonusSpent, {b \in LiveBills : primaryGuest[b] = g})
  BY DEF BonusesConserved, LedgerInv
<1> DEFINE R == {r \in ledger : r.type = "redemption" /\ r.guest = g}
           V == {r \in ledger : r.type = "reversal" /\ r.guest = g}
           Live == {b \in LiveBills : primaryGuest[b] = g}
           B == {b \in Bill : bonusSpent[b] > 0 /\ primaryGuest[b] = g}
           C == {b \in Bill : bonusSpent[b] > 0 /\ primaryGuest[b] = g /\ billStatus[b] = "canceled"}
           D == {b \in Bill : bonusSpent[b] > 0 /\ primaryGuest[b] = g /\ billStatus[b] # "canceled"}
           amountR == [r \in R |-> r.amount]
           amountV == [r \in V |-> r.amount]
<1>1. \A b \in Bill : bonusSpent[b] \in Nat
  BY DEF TypeOK
<1>2. /\ B = C \cup D /\ C \cap D = {} /\ B \subseteq Bill /\ C \subseteq Bill /\ D \subseteq Bill
      /\ Live \subseteq Bill /\ R \subseteq ledger /\ V \subseteq ledger
  BY DEF LiveBills
<1>3. /\ IsFiniteSet(B) /\ IsFiniteSet(C) /\ IsFiniteSet(D) /\ IsFiniteSet(Live)
      /\ IsFiniteSet(R) /\ IsFiniteSet(V)
  <2>1. IsFiniteSet(Bill) /\ IsFiniteSet(ledger)
    BY RowsAssumption DEF LedgerInv
  <2> HIDE DEF B, C, D, Live, R, V
  <2>2. QED
    BY <1>2, <2>1, FS_Subset
<1>4. AmountIn(R) = SumFunctionOnSet(bonusSpent, B)
  <2> DEFINE h == [b \in B |-> RedemptionRow(b, bonusSpent[b])]
  <2>1. h \in [B -> R]
    BY DEF LedgerInv, RedemptionRow
  <2>2. \A b, c \in B : h[b] = h[c] => b = c
    BY DEF RedemptionRow
  <2>3. ASSUME NEW r \in R PROVE \E b \in B : h[b] = r
    <3>1. /\ r \in LedgerRow /\ bonusSpent[r.bill] > 0
          /\ r = RedemptionRow(r.bill, bonusSpent[r.bill]) /\ r.guest = g
      BY DEF LedgerInv, TypeOK
    <3>2. r.bill \in Bill
      BY <3>1, RowTyped
    <3>3. primaryGuest[r.bill] = g
      BY <3>1 DEF RedemptionRow
    <3>4. QED
      BY <3>1, <3>2, <3>3
  <2>4. \A b \in B : amountR[h[b]] = bonusSpent[b]
    BY <2>1 DEF RedemptionRow
  <2>5. AmountIn(R) = SumFunctionOnSet(amountR, R)
    BY DEF AmountIn
  <2> HIDE DEF B, R, h, amountR
  <2>6. h \in Bijection(B, R)
    BY <2>1, <2>2, <2>3 DEF Bijection, Injection, Surjection, IsInjective
  <2>7. QED
    BY <1>1, <1>2, <1>3, <2>4, <2>5, <2>6, SumMoved
<1>5. AmountIn(V) = SumFunctionOnSet(bonusSpent, C)
  <2> DEFINE h == [b \in C |-> ReversalRow(b)]
  <2>1. h \in [C -> V]
    BY DEF LedgerInv, ReversalRow
  <2>2. \A b, c \in C : h[b] = h[c] => b = c
    BY DEF ReversalRow
  <2>3. ASSUME NEW r \in V PROVE \E b \in C : h[b] = r
    <3>1. /\ r \in LedgerRow /\ bonusSpent[r.bill] > 0 /\ billStatus[r.bill] = "canceled"
          /\ r = ReversalRow(r.bill) /\ r.guest = g
      BY DEF LedgerInv, TypeOK
    <3>2. r.bill \in Bill
      BY <3>1, RowTyped
    <3>3. primaryGuest[r.bill] = g
      BY <3>1 DEF ReversalRow
    <3>4. QED
      BY <3>1, <3>2, <3>3
  <2>4. \A b \in C : amountV[h[b]] = bonusSpent[b]
    BY <2>1 DEF ReversalRow
  <2>5. AmountIn(V) = SumFunctionOnSet(amountV, V)
    BY DEF AmountIn
  <2> HIDE DEF C, V, h, amountV
  <2>6. h \in Bijection(C, V)
    BY <2>1, <2>2, <2>3 DEF Bijection, Injection, Surjection, IsInjective
  <2>7. QED
    BY <1>1, <1>2, <1>3, <2>4, <2>5, <2>6, SumMoved
<1>6. SumFunctionOnSet(bonusSpent, D) = SumFunctionOnSet(bonusSpent, Live)
  <2>1. \A b \in Live \ D : bonusSpent[b] = 0
    BY <1>1 DEF LiveBills, LiveStatus, OpenStatus
  <2>2. D \subseteq Live
    BY DEF LedgerInv, LiveBills, TypeOK
  <2>3. /\ \A b \in D : bonusSpent[b] \in Nat
        /\ \A b \in Live : bonusSpent[b] \in Nat
        /\ \A b \in D \ Live : bonusSpent[b] = 0
    BY <1>1, <1>2, <2>2
  <2> HIDE DEF D, Live
  <2>4. QED
    BY <1>3, <2>1, <2>3, SumSame
<1> HIDE DEF R, V, Live, B, C, D, amountR, amountV
<1>7. /\ SumFunctionOnSet(bonusSpent, C) \in Nat /\ SumFunctionOnSet(bonusSpent, D) \in Nat
      /\ SumFunctionOnSet(bonusSpent, B) = SumFunctionOnSet(bonusSpent, C) + SumFunctionOnSet(bonusSpent, D)
  BY <1>1, <1>2, <1>3, SumSplit
<1>8. AmountIn(R) - AmountIn(V) = SumFunctionOnSet(bonusSpent, Live)
  BY <1>4, <1>5, <1>6, <1>7
<1>9. QED
  BY <1>8 DEF R, V, Live

\* The accruals of a settlement are finitely many rows of the ledger.
LEMMA AccrualsFinite ==
  ASSUME NEW os \in SUBSET Order, NEW award \in [os -> Accruals]
  PROVE  /\ AccrualRows(award) \in SUBSET LedgerRow /\ IsFiniteSet(AccrualRows(award))
         /\ \A r \in AccrualRows(award) : r.type = "accrual"
<1> DEFINE P == {p \in os : award[p] > 0}
           row == [o \in P |-> [type |-> "accrual", order |-> o, guest |-> GuestOf[o],
                                amount |-> award[o]]]
<1>1. AccrualRows(award) = {row[o] : o \in P}
  BY DEF AccrualRows
<1>2. P \subseteq Order
  OBVIOUS
<1>3. \A r \in AccrualRows(award) : r.type = "accrual"
  BY DEF AccrualRows
<1>4. row \in Surjection(P, AccrualRows(award))
  BY <1>1 DEF Surjection
<1> HIDE DEF P, row
<1>5. IsFiniteSet(P)
  BY <1>2, RowsAssumption, FS_Subset
<1>6. IsFiniteSet(AccrualRows(award))
  BY <1>4, <1>5, FS_Surjection
<1>7. QED
  BY <1>3, <1>6, AccrualType

\* What settling the orders of a bill adds to the ledger.
LEMMA SettleLedger ==
  ASSUME NEW os \in SUBSET Order, NEW dropped, NEW rows, SettleOrders(os, dropped, rows)
  PROVE  \E more \in SUBSET LedgerRow :
            /\ IsFiniteSet(more) /\ \A r \in more : r.type = "accrual"
            /\ ledger' = ledger \cup rows \cup more
<1>1. PICK award \in [os \ paidOrders -> Accruals] :
         ledger' = ledger \cup rows \cup AccrualRows(award)
  BY DEF SettleOrders
<1>2. os \ paidOrders \in SUBSET Order
  OBVIOUS
<1>3. QED
  BY <1>1, <1>2, AccrualsFinite

\* A step that only adds accruals, and closes no bill that has spent bonuses.
LEMMA LedgerAlone ==
  ASSUME TypeOK, TypeOK', LedgerInv,
         NEW more \in SUBSET LedgerRow, IsFiniteSet(more), \A r \in more : r.type = "accrual",
         ledger' = ledger \cup more, UNCHANGED bonusSpent,
         \A b \in Bill : bonusSpent[b] > 0 =>
            /\ primaryGuest'[b] = primaryGuest[b] /\ billStatus'[b] # "absent"
            /\ billStatus'[b] = "canceled" <=> billStatus[b] = "canceled"
  PROVE  LedgerInv'
<1>1. IsFiniteSet(ledger')
  BY FS_Union DEF LedgerInv
<1>2. \A b \in Bill : bonusSpent'[b] > 0 =>
        /\ billStatus'[b] # "absent" /\ primaryGuest'[b] \in Guest
        /\ RedemptionRow(b, bonusSpent[b])' \in ledger'
        /\ billStatus'[b] = "canceled" => ReversalRow(b)' \in ledger'
  BY DEF LedgerInv, RedemptionRow, ReversalRow
<1>3. ASSUME NEW r \in ledger', r.type = "redemption"
      PROVE  bonusSpent'[r.bill] > 0 /\ r = RedemptionRow(r.bill, bonusSpent[r.bill])'
  <2>1. r \in ledger /\ r \in LedgerRow
    BY <1>3 DEF TypeOK
  <2>2. r.bill \in Bill
    BY <1>3, <2>1, RowTyped
  <2>3. QED
    BY <1>3, <2>1, <2>2 DEF LedgerInv, RedemptionRow
<1>4. ASSUME NEW r \in ledger', r.type = "reversal"
      PROVE  bonusSpent'[r.bill] > 0 /\ billStatus'[r.bill] = "canceled" /\ r = ReversalRow(r.bill)'
  <2>1. r \in ledger /\ r \in LedgerRow
    BY <1>4 DEF TypeOK
  <2>2. r.bill \in Bill
    BY <1>4, <2>1, RowTyped
  <2>3. QED
    BY <1>4, <2>1, <2>2 DEF LedgerInv, ReversalRow
<1>5. ASSUME NEW g \in Guest PROVE LedgerBalance(g)' >= 0
  <2>1. {r \in {x \in ledger' : x.guest = g} : r.type = "redemption"}
          = {r \in {x \in ledger : x.guest = g} : r.type = "redemption"}
    OBVIOUS
  <2>2. Redeemed(ledger', g) = Redeemed(ledger, g)
    BY <2>1, Zenon DEF Redeemed
  <2>3. Redeemed(ledger, g) \in Nat
    BY RedeemedType DEF LedgerInv, TypeOK
  <2>4. 0 <= Balance(ledger, g)
    BY BalanceIs DEF LedgerInv
  <2>5. Balance(ledger', g) >= 0
    <3>1. Redeemed(ledger', g) = Redeemed(ledger, g) + 0
      BY <2>2, <2>3
    <3>2. ledger \in SUBSET LedgerRow /\ ledger' \in SUBSET LedgerRow /\ ledger \subseteq ledger'
      BY DEF TypeOK
    <3>3. QED
      BY <1>1, <2>4, <3>1, <3>2, BalanceStep
  <2>6. QED
    BY <2>5, NextBalance
<1>6. QED
  BY <1>1, <1>2, <1>3, <1>4, <1>5 DEF LedgerInv

\* A bill spends bonuses for the first time, within what its guest holds.
LEMMA LedgerSpends ==
  ASSUME TypeOK, TypeOK', LedgerInv, NEW b \in Bill, NEW amount \in Nat, amount > 0,
         MaySpendBonuses(b), amount <= LedgerBalance(primaryGuest[b]),
         NEW more \in SUBSET LedgerRow, IsFiniteSet(more), \A r \in more : r.type = "accrual",
         ledger' = ledger \cup {RedemptionRow(b, amount)} \cup more,
         bonusSpent' = [bonusSpent EXCEPT ![b] = amount], UNCHANGED primaryGuest,
         \A c \in Bill \ {b} : billStatus'[c] = billStatus[c], billStatus'[b] \in LiveStatus
  PROVE  LedgerInv'
<1> DEFINE row == RedemptionRow(b, amount)
<1>0. /\ primaryGuest[b] \in Guest /\ bonusSpent[b] = 0 /\ bonusSpent'[b] = amount
      /\ \A c \in Bill \ {b} : bonusSpent'[c] = bonusSpent[c]
      /\ billStatus'[b] \notin {"absent", "canceled"} /\ billStatus[b] # "canceled"
  BY DEF TypeOK, MaySpendBonuses, LiveStatus, OpenStatus
<1>a. /\ row \in LedgerRow /\ row.type = "redemption" /\ row.bill = b
      /\ row.guest = primaryGuest[b] /\ row.amount = amount
  BY <1>0 DEF RedemptionRow, LedgerRow
<1>b. row \notin ledger
  BY <1>0, <1>a DEF LedgerInv
<1>1. IsFiniteSet(ledger')
  BY FS_Union, FS_Singleton DEF LedgerInv
<1>2. ASSUME NEW c \in Bill, bonusSpent'[c] > 0
      PROVE  /\ billStatus'[c] # "absent" /\ primaryGuest'[c] \in Guest
             /\ RedemptionRow(c, bonusSpent[c])' \in ledger'
             /\ billStatus'[c] = "canceled" => ReversalRow(c)' \in ledger'
  <2>1. CASE c = b
    BY <1>0, <2>1 DEF RedemptionRow
  <2>2. CASE c # b
    BY <1>0, <1>2, <2>2 DEF LedgerInv, RedemptionRow, ReversalRow
  <2>3. QED
    BY <2>1, <2>2
<1>3. ASSUME NEW r \in ledger', r.type = "redemption"
      PROVE  bonusSpent'[r.bill] > 0 /\ r = RedemptionRow(r.bill, bonusSpent[r.bill])'
  <2>1. CASE r = row
    BY <1>0, <1>a, <2>1 DEF RedemptionRow
  <2>2. CASE r # row
    <3>1. r \in ledger /\ r \in LedgerRow
      BY <1>3, <2>2 DEF TypeOK
    <3>2. r.bill \in Bill /\ bonusSpent[r.bill] > 0 /\ r = RedemptionRow(r.bill, bonusSpent[r.bill])
      BY <1>3, <3>1, RowTyped DEF LedgerInv
    <3>3. r.bill # b
      BY <1>0, <3>2
    <3>4. QED
      BY <1>0, <3>2, <3>3 DEF RedemptionRow
  <2>3. QED
    BY <2>1, <2>2
<1>4. ASSUME NEW r \in ledger', r.type = "reversal"
      PROVE  bonusSpent'[r.bill] > 0 /\ billStatus'[r.bill] = "canceled" /\ r = ReversalRow(r.bill)'
  <2>1. r \in ledger /\ r \in LedgerRow
    BY <1>4, <1>a DEF TypeOK
  <2>2. r.bill \in Bill /\ bonusSpent[r.bill] > 0 /\ billStatus[r.bill] = "canceled" /\ r = ReversalRow(r.bill)
    BY <1>4, <2>1, RowTyped DEF LedgerInv
  <2>3. r.bill # b
    BY <1>0, <2>2
  <2>4. QED
    BY <1>0, <2>2, <2>3 DEF ReversalRow
<1>5. ASSUME NEW g \in Guest PROVE LedgerBalance(g)' >= 0
  <2> DEFINE S == {r \in {x \in ledger : x.guest = g} : r.type = "redemption"}
             T == {r \in {x \in ledger' : x.guest = g} : r.type = "redemption"}
  <2>1. Redeemed(ledger, g) = AmountIn(S) /\ Redeemed(ledger', g) = AmountIn(T)
    BY DEF Redeemed
  <2>2. S \in SUBSET LedgerRow /\ S \subseteq ledger /\ row \notin S
    BY <1>b DEF TypeOK
  <2>3. IsFiniteSet(S) /\ AmountIn(S) \in Nat
    <3> HIDE DEF S
    <3>1. QED
      BY <2>2, FS_Subset, AmountGrows DEF LedgerInv
  <2>4. Balance(ledger, g) = LedgerBalance(g) /\ LedgerBalance(g) >= 0
    BY BalanceIs DEF LedgerInv
  <2>5. ledger \in SUBSET LedgerRow /\ ledger' \in SUBSET LedgerRow /\ ledger \subseteq ledger'
    BY DEF TypeOK
  <2>6. CASE g = primaryGuest[b]
    <3>1. T = S \cup {row}
      BY <1>a, <2>6
    <3> HIDE DEF S, T, row
    <3>2. AmountIn(T) = AmountIn(S) + amount
      BY <1>a, <2>2, <2>3, <3>1, AmountOneMore
    <3>3. amount <= Balance(ledger, g)
      BY <2>4, <2>6
    <3>4. Redeemed(ledger', g) = Redeemed(ledger, g) + amount
      BY <2>1, <3>2
    <3>5. Balance(ledger', g) >= 0
      BY <1>1, <2>5, <3>3, <3>4, BalanceStep
    <3>6. QED
      BY <3>5, NextBalance
  <2>7. CASE g # primaryGuest[b]
    <3>1. T = S
      BY <1>a, <2>7
    <3>2. AmountIn(T) = AmountIn(S)
      BY <3>1, Zenon
    <3> HIDE DEF S, T, row
    <3>3. Redeemed(ledger', g) = Redeemed(ledger, g) + 0 /\ 0 <= Balance(ledger, g)
      BY <2>1, <2>3, <2>4, <3>2
    <3>4. Balance(ledger', g) >= 0
      BY <1>1, <2>5, <3>3, BalanceStep
    <3>5. QED
      BY <3>4, NextBalance
  <2>8. QED
    BY <2>6, <2>7
<1>6. QED
  BY <1>1, <1>2, <1>3, <1>4, <1>5 DEF LedgerInv

\* A voided bill returns what it had spent.
LEMMA LedgerVoids ==
  ASSUME TypeOK, TypeOK', LedgerInv, NEW b \in Bill, VoidBill(b)
  PROVE  LedgerInv'
<1>0. /\ billStatus[b] \notin {"absent", "canceled"} /\ UNCHANGED <<bonusSpent, primaryGuest>>
      /\ billStatus'[b] = "canceled" /\ \A c \in Bill \ {b} : billStatus'[c] = billStatus[c]
  BY DEF VoidBill, MayVoid, OpenStatus, TypeOK
<1>a. /\ bonusSpent[b] > 0 => ledger' = ledger \cup {ReversalRow(b)}
      /\ ~(bonusSpent[b] > 0) => ledger' = ledger
      /\ ReversalRow(b).type = "reversal" /\ ReversalRow(b).bill = b
  BY DEF VoidBill, ReturnedBonus, ReversalRow
<1>1. IsFiniteSet(ledger')
  <2>1. IsFiniteSet(ledger) /\ IsFiniteSet({ReversalRow(b)})
    BY FS_Singleton DEF LedgerInv
  <2>2. IsFiniteSet(ledger \cup {ReversalRow(b)})
    BY <2>1, FS_Union
  <2>3. QED
    BY <1>a, <2>1, <2>2
<1>2. ASSUME NEW c \in Bill, bonusSpent'[c] > 0
      PROVE  /\ billStatus'[c] # "absent" /\ primaryGuest'[c] \in Guest
             /\ RedemptionRow(c, bonusSpent[c])' \in ledger'
             /\ billStatus'[c] = "canceled" => ReversalRow(c)' \in ledger'
  <2>1. bonusSpent[c] > 0
    BY <1>0, <1>2
  <2>2. RedemptionRow(c, bonusSpent[c])' \in ledger' /\ primaryGuest'[c] \in Guest
    BY <1>0, <1>a, <2>1 DEF LedgerInv, RedemptionRow
  <2>3. billStatus'[c] # "absent" /\ (billStatus'[c] = "canceled" => ReversalRow(c)' \in ledger')
    BY <1>0, <1>a, <2>1 DEF LedgerInv, ReversalRow
  <2>4. QED
    BY <2>2, <2>3
<1>3. ASSUME NEW r \in ledger', r.type = "redemption"
      PROVE  bonusSpent'[r.bill] > 0 /\ r = RedemptionRow(r.bill, bonusSpent[r.bill])'
  <2>1. r \in ledger
    BY <1>3, <1>a
  <2>2. QED
    BY <1>0, <1>3, <2>1 DEF LedgerInv, RedemptionRow
<1>4. ASSUME NEW r \in ledger', r.type = "reversal"
      PROVE  bonusSpent'[r.bill] > 0 /\ billStatus'[r.bill] = "canceled" /\ r = ReversalRow(r.bill)'
  <2>1. CASE r \in ledger
    <3>1. r \in LedgerRow
      BY <2>1 DEF TypeOK
    <3>2. r.bill \in Bill /\ bonusSpent[r.bill] > 0 /\ billStatus[r.bill] = "canceled" /\ r = ReversalRow(r.bill)
      BY <1>4, <2>1, <3>1, RowTyped DEF LedgerInv
    <3>3. QED
      BY <1>0, <3>2 DEF ReversalRow
  <2>2. CASE r \notin ledger
    BY <1>0, <1>a, <2>2 DEF ReversalRow
  <2>3. QED
    BY <2>1, <2>2
<1>5. ASSUME NEW g \in Guest PROVE LedgerBalance(g)' >= 0
  <2>1. {r \in {x \in ledger' : x.guest = g} : r.type = "redemption"}
          = {r \in {x \in ledger : x.guest = g} : r.type = "redemption"}
    BY <1>a
  <2>2. Redeemed(ledger', g) = Redeemed(ledger, g)
    BY <2>1, Zenon DEF Redeemed
  <2>3. Redeemed(ledger, g) \in Nat
    BY RedeemedType DEF LedgerInv, TypeOK
  <2>4. 0 <= Balance(ledger, g)
    BY BalanceIs DEF LedgerInv
  <2>5. Redeemed(ledger', g) = Redeemed(ledger, g) + 0
    BY <2>2, <2>3
  <2>6. ledger \in SUBSET LedgerRow /\ ledger' \in SUBSET LedgerRow /\ ledger \subseteq ledger'
    BY <1>a DEF TypeOK
  <2>7. Balance(ledger', g) >= 0
    BY <1>1, <2>4, <2>5, <2>6, BalanceStep
  <2>8. QED
    BY <2>7, NextBalance
<1>6. QED
  BY <1>1, <1>2, <1>3, <1>4, <1>5 DEF LedgerInv

LEMMA LedgerInit == Init => LedgerInv
<1> SUFFICES ASSUME Init PROVE LedgerInv
  OBVIOUS
<1>1. IsFiniteSet(ledger)
  BY FS_EmptySet DEF Init
<1>2. ASSUME NEW g \in Guest PROVE LedgerBalance(g) >= 0
  <2>1. {r \in {x \in ledger : x.guest = g} : r.type = "redemption"} = {}
    BY DEF Init
  <2>2. {r \in {x \in ledger : x.guest = g} : r.type \in {"accrual", "reversal"}} = {}
    BY DEF Init
  <2>3. Redeemed(ledger, g) = AmountIn({}) /\ Given(ledger, g) = AmountIn({})
    BY <2>1, <2>2, Zenon DEF Redeemed, Given
  <2>4. AmountIn({}) \in Nat
    BY AmountGrows, FS_EmptySet
  <2>5. InitialBonus[g] \in Nat
    BY MoneyAssumption
  <2>6. QED
    BY <2>3, <2>4, <2>5, BalanceIs DEF Balance
<1>3. QED
  BY <1>1, <1>2 DEF Init, LedgerInv

LEMMA LedgerStep == TypeOK /\ LedgerInv /\ [Next]_vars => LedgerInv'
<1> SUFFICES ASSUME TypeOK, LedgerInv, [Next]_vars PROVE LedgerInv'
  OBVIOUS
<1>t. TypeOK'
  BY TypeStep
<1>n. {} \in SUBSET LedgerRow /\ IsFiniteSet({}) /\ ledger = ledger \cup {}
  BY FS_EmptySet
<1>0. ASSUME UNCHANGED <<ledger, bonusSpent>>,
             \A b \in Bill : bonusSpent[b] > 0 =>
                /\ primaryGuest'[b] = primaryGuest[b] /\ billStatus'[b] # "absent"
                /\ billStatus'[b] = "canceled" <=> billStatus[b] = "canceled"
      PROVE  LedgerInv'
  BY <1>0, <1>n, <1>t, LedgerAlone
<1>1. ASSUME UNCHANGED <<billVars, ledger>> PROVE LedgerInv'
  BY <1>0, <1>1 DEF billVars, LedgerInv
<1>2. ASSUME NEW b \in Bill, NEW ls, NEW dropped \in SUBSET Order,
             MayRemove(b, ls), ReleaseLines(b, ls, dropped)
      PROVE  LedgerInv'
  <2>1. PICK os \in SUBSET Order : SettleOrders(os, dropped, {})
    <3>1. SettledOrders(LinksAfter(b, ls)) \in SUBSET Order
      BY DEF SettledOrders, LinksAfter, TypeOK
    <3>2. QED
      BY <1>2, <3>1 DEF ReleaseLines
  <2>2. PICK more \in SUBSET LedgerRow :
           /\ IsFiniteSet(more) /\ \A r \in more : r.type = "accrual"
           /\ ledger' = ledger \cup {} \cup more
    BY <2>1, SettleLedger
  <2>3. /\ UNCHANGED <<bonusSpent, primaryGuest>>
        /\ \A c \in Bill \ {b} : billStatus'[c] = billStatus[c]
        /\ billStatus[b] \notin {"canceled", "absent"} /\ billStatus'[b] \notin {"canceled", "absent"}
    BY <1>2 DEF ReleaseLines, MayRemove, OpenStatus, TypeOK
  <2>4. ledger' = ledger \cup more
    BY <2>2
  <2>5. \A c \in Bill : bonusSpent[c] > 0 =>
           /\ primaryGuest'[c] = primaryGuest[c] /\ billStatus'[c] # "absent"
           /\ billStatus'[c] = "canceled" <=> billStatus[c] = "canceled"
    BY <2>3 DEF LedgerInv
  <2>6. QED
    BY <1>t, <2>2, <2>3, <2>4, <2>5, LedgerAlone
<1>3. ASSUME NEW c \in canceling, CancelCommit(c) PROVE LedgerInv'
  <2>1. c.order \in Order /\ c.bill \in Bill \cup {None}
    BY DEF TypeOK
  <2>2. CASE c.bill = None
    BY <1>1, <1>3, <2>2 DEF CancelCommit
  <2>3. CASE c.bill # None
    BY <1>2, <1>3, <2>1, <2>3 DEF CancelCommit
  <2>4. QED
    BY <2>2, <2>3
<1>4. ASSUME NEW b \in Bill, NEW ls, RemoveLines(b, ls) PROVE LedgerInv'
  BY <1>2, <1>4 DEF RemoveLines
<1>5. ASSUME NEW b \in Bill, NEW amount \in Nat, RecordPayment(b, amount) PROVE LedgerInv'
  <2>1. /\ UNCHANGED <<bonusSpent, primaryGuest>>
        /\ \A c \in Bill \ {b} : billStatus'[c] = billStatus[c]
        /\ billStatus[b] \notin {"canceled", "absent"} /\ billStatus'[b] \notin {"canceled", "absent"}
    BY <1>5 DEF RecordPayment, OpenStatus, TypeOK
  <2>2. \A c \in Bill : bonusSpent[c] > 0 =>
           /\ primaryGuest'[c] = primaryGuest[c] /\ billStatus'[c] # "absent"
           /\ billStatus'[c] = "canceled" <=> billStatus[c] = "canceled"
    BY <2>1 DEF LedgerInv
  <2>3. CASE SettleOrders(SettledOrders(billOrders[b]), {}, {})
    <3>1. SettledOrders(billOrders[b]) \in SUBSET Order
      BY DEF SettledOrders, TypeOK
    <3>2. PICK more \in SUBSET LedgerRow :
             /\ IsFiniteSet(more) /\ \A r \in more : r.type = "accrual"
             /\ ledger' = ledger \cup {} \cup more
      BY <2>3, <3>1, SettleLedger
    <3>3. ledger' = ledger \cup more
      BY <3>2
    <3>4. QED
      BY <1>t, <2>1, <2>2, <3>2, <3>3, LedgerAlone
  <2>4. CASE UNCHANGED ledger
    BY <1>0, <2>1, <2>2, <2>4
  <2>5. QED
    BY <1>5, <2>3, <2>4 DEF RecordPayment
<1>6. ASSUME NEW b \in Bill, NEW amount \in Nat, PayWithBonuses(b, amount) PROVE LedgerInv'
  <2>1. /\ MaySpendBonuses(b) /\ amount > 0 /\ amount <= LedgerBalance(primaryGuest[b])
        /\ bonusSpent' = [bonusSpent EXCEPT ![b] = amount] /\ UNCHANGED primaryGuest
    BY <1>6 DEF PayWithBonuses, RedeemCaps
  <2>2. /\ \A c \in Bill \ {b} : billStatus'[c] = billStatus[c]
        /\ billStatus'[b] \in LiveStatus
    BY <1>6 DEF PayWithBonuses, MaySpendBonuses, LiveStatus, OpenStatus, TypeOK
  <2>3. PICK more \in SUBSET LedgerRow :
           /\ IsFiniteSet(more) /\ \A r \in more : r.type = "accrual"
           /\ ledger' = ledger \cup {RedemptionRow(b, amount)} \cup more
    <3>1. CASE SettleOrders(SettledOrders(billOrders[b]), {}, {RedemptionRow(b, amount)})
      <4>1. SettledOrders(billOrders[b]) \in SUBSET Order
        BY DEF SettledOrders, TypeOK
      <4>2. QED
        BY <3>1, <4>1, SettleLedger
    <3>2. CASE ledger' = ledger \cup {RedemptionRow(b, amount)}
      BY <1>n, <3>2
    <3>3. QED
      BY <1>6, <3>1, <3>2 DEF PayWithBonuses
  <2>4. QED
    BY <1>t, <2>1, <2>2, <2>3, LedgerSpends
<1>7. ASSUME NEW b \in Bill, NEW amount \in Nat, RedeemBonus(b, amount) PROVE LedgerInv'
  <2>1. /\ MaySpendBonuses(b) /\ amount > 0 /\ amount <= LedgerBalance(primaryGuest[b])
        /\ bonusSpent' = [bonusSpent EXCEPT ![b] = amount] /\ UNCHANGED primaryGuest
        /\ ledger' = ledger \cup {RedemptionRow(b, amount)} \cup {}
    BY <1>7 DEF RedeemBonus, RedeemCaps
  <2>2. UNCHANGED billStatus /\ billStatus'[b] \in LiveStatus
    BY <1>7 DEF RedeemBonus, MaySpendBonuses, LiveStatus
  <2>3. QED
    BY <1>n, <1>t, <2>1, <2>2, LedgerSpends
<1>8. ASSUME NEW b \in Bill, NEW os, CreateBill(b, os) PROVE LedgerInv'
  <2>1. /\ billStatus[b] = "absent" /\ UNCHANGED <<ledger, bonusSpent>>
        /\ \A c \in Bill \ {b} : billStatus'[c] = billStatus[c] /\ primaryGuest'[c] = primaryGuest[c]
    BY <1>8 DEF CreateBill, TypeOK
  <2>2. QED
    BY <1>0, <2>1 DEF LedgerInv
<1>9. ASSUME NEW b \in Bill, IssueBill(b) PROVE LedgerInv'
  BY <1>0, <1>9 DEF IssueBill, TypeOK, LedgerInv
<1>10. ASSUME NEW b \in Bill, AttachCommit(b) PROVE LedgerInv'
  BY <1>0, <1>10 DEF AttachCommit, LedgerInv
<1>11. ASSUME NEW b \in Bill, NEW os, AttachRead(b, os) \/ AttachAbort(b) PROVE LedgerInv'
  BY <1>1, <1>11 DEF AttachRead, AttachAbort
<1>12. ASSUME NEW o \in Order, NEW to, \/ CreateOrder(o) \/ TransitionOrder(o, to)
                                      \/ ConfirmReceived(o) \/ CancelRead(o)
       PROVE  LedgerInv'
  BY <1>1, <1>12 DEF CreateOrder, TransitionOrder, ConfirmReceived, CancelRead
<1>13. ASSUME NEW c \in canceling, CancelAbort(c) PROVE LedgerInv'
  BY <1>1, <1>13 DEF CancelAbort
<1>14. ASSUME NEW b \in Bill, VoidBill(b) PROVE LedgerInv'
  BY <1>14, <1>t, LedgerVoids
<1>15. CASE UNCHANGED vars
  BY <1>1, <1>15 DEF vars, billVars
<1>16. 1..Worth[Line] \subseteq Nat
  BY MoneyAssumption
<1>17. QED
  BY <1>3, <1>4, <1>5, <1>6, <1>7, <1>8, <1>9, <1>10, <1>11, <1>12, <1>13, <1>14, <1>15, <1>16
  DEF Next

-----------------------------------------------------------------------------
(* The inductive invariant and what follows from it *)

LEMMA IInvInit == Init => IInv
<1> SUFFICES ASSUME Init PROVE IInv
  OBVIOUS
<1>1. TypeOK
  BY DEF Init, TypeOK, LiveStatus, OpenStatus, OrderStatus
<1>2. LiveBills = {}
  BY DEF Init, LiveBills, LiveStatus, OpenStatus
<1>3. AllocationInv
  BY <1>2 DEF Init, AllocationInv, ChargedOnce, LinkedMeansCharged, VoidedIsEmpty,
              RunningCommandsSound
<1>4. MoneyInv
  BY <1>2 DEF Init, MoneyInv, MoneyAddsUp
<1>5. SettledTogether /\ AwardsPaid
  BY DEF Init, SettledTogether, AwardsPaid
<1>6. PickupPaidBeforeWork
  BY RowsAssumption DEF Init, PickupPaidBeforeWork
<1>7. QED
  BY <1>1, <1>3, <1>4, <1>5, <1>6 DEF IInv

LEMMA IInvStep == IInv /\ [Next]_vars => IInv'
  BY TypeStep, AllocationStep, MoneyStep, SettledStep, AwardStep DEF IInv

\* The inductive invariant holds in every reachable state.
THEOREM InvariantHolds == Spec => []IInv
  BY IInvInit, IInvStep, PTL DEF Spec

\* create_bill_from_orders, attach_orders_to_bill, removals, voids and payments,
\* however interleaved, charge an order line in at most one bill.
THEOREM LinesChargedOnce == Spec => []ChargedOnce
<1>1. IInv => ChargedOnce
  BY DEF IInv, AllocationInv
<1>2. QED
  BY <1>1, InvariantHolds, PTL

\* The orders a payment settles are those the bill charges a line of.
THEOREM LinksFollowLines == Spec => []LinkedMeansCharged
<1>1. IInv => LinkedMeansCharged
  BY DEF IInv, AllocationInv
<1>2. QED
  BY <1>1, InvariantHolds, PTL

\* The totals, bonuses and payments of every bill agree in every reachable state.
THEOREM MoneyCorrect == Spec => []MoneyAddsUp
<1>1. IInv => MoneyAddsUp
  BY DEF IInv, MoneyInv
<1>2. QED
  BY <1>1, InvariantHolds, PTL

\* A voided bill has taken no money and charges nothing.
THEOREM VoidedCorrect == Spec => []VoidedIsEmpty
<1>1. IInv => VoidedIsEmpty
  BY DEF IInv, AllocationInv
<1>2. QED
  BY <1>1, InvariantHolds, PTL

\* What attach_orders_to_bill and cancel_order rely on stays true until they commit.
THEOREM CommandsSound == Spec => []RunningCommandsSound
<1>1. IInv => RunningCommandsSound
  BY DEF IInv, AllocationInv
<1>2. QED
  BY <1>1, InvariantHolds, PTL

\* Orders are paid exactly by paid bills that charge them, and never when canceled.
THEOREM SettlementCorrect == Spec => []SettledTogether
<1>1. IInv => SettledTogether
  BY DEF IInv
<1>2. QED
  BY <1>1, InvariantHolds, PTL

\* An order is rewarded once, and only once its bill is covered in full.
THEOREM RewardsCorrect == Spec => []RewardedOnce
<1>1. IInv => RewardedOnce
  <2> SUFFICES ASSUME IInv, NEW r \in ledger, NEW t \in ledger,
                      r.type = "accrual", t.type = "accrual"
               PROVE  /\ r.order = t.order => r = t
                      /\ \E b \in Bill : /\ billStatus[b] = "paid" /\ r.order \in billOrders[b]
                                        /\ paidAmount[b] + bonusSpent[b] = Worth[items[b]]
    BY DEF RewardedOnce
  <2>1. r.order \in paidOrders /\ (r.order = t.order => r = t)
    BY DEF IInv, AwardsPaid
  <2>2. PICK b \in Bill : billStatus[b] = "paid" /\ r.order \in billOrders[b]
    BY <2>1 DEF IInv, SettledTogether
  <2>3. paidAmount[b] + bonusSpent[b] = Worth[items[b]]
    BY <2>2 DEF IInv, MoneyInv, MoneyAddsUp, LiveBills, LiveStatus
  <2>4. QED
    BY <2>1, <2>2, <2>3
<1>2. QED
  BY <1>1, InvariantHolds, PTL

\* Staff cannot take a prepaid order into work before its bill is paid.
THEOREM PickupPrepaid == Spec => []PickupPaidBeforeWork
<1>1. IInv => PickupPaidBeforeWork
  BY DEF IInv
<1>2. QED
  BY <1>1, InvariantHolds, PTL

-----------------------------------------------------------------------------
(* What a step may never do *)

\* No bonus is lost or minted and no balance is ever negative, whichever bills are paid,
\* settled and voided, and in which order.
THEOREM BonusesAreConserved == Spec => []BonusesConserved
<1>1. Init => TypeOK
  BY DEF Init, TypeOK, LiveStatus, OpenStatus, OrderStatus
<1>2. QED
  BY <1>1, TypeStep, LedgerInit, LedgerStep, LedgerConserves, PTL DEF Spec


\* Settling orders cancels only the dropped ones.
LEMMA SettleCancels ==
  ASSUME TypeOK, NEW os, NEW dropped, NEW rows, SettleOrders(os, dropped, rows),
         NEW o \in Order, status[o] # "canceled", status'[o] = "canceled"
  PROVE  o \in dropped
BY DEF SettleOrders, TypeOK

LEMMA CanceledStep == IInv /\ [Next]_vars => CanceledIsReleased
<1> SUFFICES ASSUME IInv, [Next]_vars, NEW o \in Order,
                    status[o] # "canceled", status'[o] = "canceled"
             PROVE  ActiveLines(o)' = {}
  BY DEF CanceledIsReleased
<1> USE DEF IInv, TypeOK
<1>1. ASSUME NEW p \in Order, NEW to \in OrderStatus, TransitionOrder(p, to)
      PROVE  ActiveLines(o)' = {}
  <2>1. p = o /\ to = "canceled"
    BY <1>1 DEF TransitionOrder
  <2>2. ActiveLines(o) = {} /\ items' = items
    BY <1>1, <2>1 DEF TransitionOrder, MayTransition, billVars
  <2>3. QED
    BY <2>2 DEF ActiveLines, LinesOf
<1>2. ASSUME NEW c \in canceling, CancelCommit(c) PROVE ActiveLines(o)' = {}
  <2>1. ActiveLines(c.order) \subseteq c.lines
    BY <1>2 DEF CancelCommit, MayCancel
  <2>2. CASE c.bill = None
    <3>1. c.lines = {} /\ items' = items /\ o = c.order
      BY <1>2, <2>2 DEF CancelCommit, billVars, AllocationInv, RunningCommandsSound
    <3>2. QED
      BY <2>1, <3>1 DEF ActiveLines, LinesOf
  <2>3. CASE c.bill # None
    <3>1. /\ c.bill \in Bill /\ c.lines \subseteq items[c.bill]
          /\ ReleaseLines(c.bill, c.lines, {c.order})
          /\ items' = [items EXCEPT ![c.bill] = @ \ c.lines]
      BY <1>2, <2>3 DEF CancelCommit, MayRemove, ReleaseLines
    <3>2. o = c.order
      BY <3>1, SettleCancels DEF ReleaseLines
    <3>3. ASSUME NEW b \in Bill, NEW l \in items'[b], l \in LinesOf({o}) PROVE FALSE
      <4>1. l \in items[b] /\ l \in ActiveLines(o)
        BY <3>1, <3>3 DEF ActiveLines
      <4>2. l \in c.lines /\ l \in items[c.bill]
        BY <2>1, <3>1, <3>2, <4>1
      <4>3. b = c.bill
        BY <3>1, <4>1, <4>2 DEF AllocationInv, ChargedOnce
      <4>4. QED
        BY <3>1, <3>3, <4>2, <4>3
    <3>4. QED
      BY <3>3 DEF ActiveLines, LinesOf
  <2>4. QED
    BY <2>2, <2>3
<1>3. ASSUME NEW b \in Bill, NEW amount \in Nat, RecordPayment(b, amount) PROVE FALSE
  BY <1>3, SettleCancels DEF RecordPayment, orderVars
<1>4. ASSUME NEW b \in Bill, NEW amount \in Nat, PayWithBonuses(b, amount) PROVE FALSE
  BY <1>4, SettleCancels DEF PayWithBonuses, orderVars
<1>5. ASSUME NEW b \in Bill, NEW ls \in SUBSET items[b], RemoveLines(b, ls) PROVE FALSE
  BY <1>5, SettleCancels DEF RemoveLines, ReleaseLines
<1>6. ASSUME NEW p \in Order, CreateOrder(p) \/ ConfirmReceived(p) \/ CancelRead(p) PROVE FALSE
  BY <1>6 DEF CreateOrder, ConfirmReceived, CancelRead, orderVars
<1>7. ASSUME NEW b \in Bill, NEW os \in SUBSET Order,
             CreateBill(b, os) \/ AttachRead(b, os) \/ AttachCommit(b) \/ AttachAbort(b)
      PROVE  FALSE
  BY <1>7 DEF CreateBill, AttachRead, AttachCommit, AttachAbort, orderVars
<1>8. ASSUME NEW b \in Bill, NEW amount \in Nat,
             IssueBill(b) \/ RedeemBonus(b, amount) \/ VoidBill(b)
      PROVE  FALSE
  BY <1>8 DEF IssueBill, RedeemBonus, VoidBill, orderVars
<1>9. ASSUME NEW c \in canceling, CancelAbort(c) PROVE FALSE
  BY <1>9 DEF CancelAbort, orderVars
<1>10. CASE UNCHANGED vars
  BY <1>10 DEF vars
<1>11. 1..Worth[Line] \subseteq Nat /\ 0 \in Nat /\ {} \in SUBSET Order
  BY MoneyAssumption
<1>12. QED
  BY <1>1, <1>2, <1>3, <1>4, <1>5, <1>6, <1>7, <1>8, <1>9, <1>10, <1>11 DEF Next

\* Whatever was billed between the read and the commit of cancel_order, the step that
\* cancels an order leaves none of its lines charged.
THEOREM CancelReleases == Spec => CancelLeavesNoLine
  BY InvariantHolds, CanceledStep, PTL DEF Spec, CancelLeavesNoLine

\* A step that changes one bill, which is neither paid nor voided.
LEMMA OneBillKept ==
  ASSUME TypeOK, NEW b \in Bill, billStatus[b] \notin {"paid", "canceled"},
         paidAmount'[b] >= paidAmount[b],
         \A c \in Bill \ {b} : /\ billStatus'[c] = billStatus[c]
                               /\ items'[c] = items[c] /\ billOrders'[c] = billOrders[c]
                               /\ paidAmount'[c] = paidAmount[c]
                               /\ bonusSpent'[c] = bonusSpent[c]
  PROVE  ClosedBillsKept
BY DEF ClosedBillsKept, TypeOK

LEMMA ReleaseKept ==
  ASSUME TypeOK, NEW b \in Bill, NEW ls, NEW dropped, MayRemove(b, ls),
         ReleaseLines(b, ls, dropped)
  PROVE  ClosedBillsKept
BY OneBillKept DEF MayRemove, ReleaseLines, OpenStatus, TypeOK

LEMMA ClosedStep == IInv /\ [Next]_vars => ClosedBillsKept
<1> SUFFICES ASSUME IInv, [Next]_vars PROVE ClosedBillsKept
  OBVIOUS
<1> USE DEF IInv, TypeOK
<1>1. ASSUME UNCHANGED billVars PROVE ClosedBillsKept
  BY <1>1 DEF billVars, ClosedBillsKept
<1>2. ASSUME NEW c \in canceling, CancelCommit(c) PROVE ClosedBillsKept
  <2>1. CASE c.bill = None
    BY <1>1, <1>2, <2>1 DEF CancelCommit
  <2>2. CASE c.bill # None
    BY <1>2, <2>2, ReleaseKept DEF CancelCommit
  <2>3. QED
    BY <2>1, <2>2
<1>3. ASSUME NEW b \in Bill, NEW os \in SUBSET Order, CreateBill(b, os) PROVE ClosedBillsKept
  BY <1>3, OneBillKept DEF CreateBill
<1>4. ASSUME NEW b \in Bill, AttachCommit(b) PROVE ClosedBillsKept
  BY <1>4, OneBillKept DEF AttachCommit, AllocationInv, RunningCommandsSound, OpenStatus
<1>5. ASSUME NEW b \in Bill, IssueBill(b) PROVE ClosedBillsKept
  BY <1>5, OneBillKept DEF IssueBill
<1>6. ASSUME NEW b \in Bill, NEW amount \in Nat, RecordPayment(b, amount) PROVE ClosedBillsKept
  <2>1. /\ billStatus[b] \notin {"paid", "canceled"}
        /\ \A c \in Bill \ {b} : billStatus'[c] = billStatus[c]
        /\ paidAmount' = [paidAmount EXCEPT ![b] = @ + amount]
    BY <1>6 DEF RecordPayment, OpenStatus
  <2>2. QED
    BY <1>6, <2>1, OneBillKept DEF RecordPayment
<1>7. ASSUME NEW b \in Bill, NEW amount \in Nat, PayWithBonuses(b, amount) PROVE ClosedBillsKept
  BY <1>7, OneBillKept DEF PayWithBonuses, MaySpendBonuses, OpenStatus
<1>8. ASSUME NEW b \in Bill, NEW amount \in Nat, RedeemBonus(b, amount) PROVE ClosedBillsKept
  BY <1>8, OneBillKept DEF RedeemBonus, MaySpendBonuses, OpenStatus
<1>9. ASSUME NEW b \in Bill, NEW ls \in SUBSET items[b], RemoveLines(b, ls) PROVE ClosedBillsKept
  BY <1>9, ReleaseKept DEF RemoveLines
<1>10. ASSUME NEW b \in Bill, VoidBill(b) PROVE ClosedBillsKept
  BY <1>10, OneBillKept DEF VoidBill, MayVoid, OpenStatus
<1>11. ASSUME NEW o \in Order, NEW to \in OrderStatus,
              \/ CreateOrder(o) \/ TransitionOrder(o, to) \/ ConfirmReceived(o)
              \/ CancelRead(o)
       PROVE  ClosedBillsKept
  BY <1>1, <1>11 DEF CreateOrder, TransitionOrder, ConfirmReceived, CancelRead
<1>12. ASSUME NEW b \in Bill, NEW os \in SUBSET Order, AttachRead(b, os) \/ AttachAbort(b)
       PROVE  ClosedBillsKept
  BY <1>1, <1>12 DEF AttachRead, AttachAbort
<1>13. ASSUME NEW c \in canceling, CancelAbort(c) PROVE ClosedBillsKept
  BY <1>1, <1>13 DEF CancelAbort
<1>14. CASE UNCHANGED vars
  BY <1>1, <1>14 DEF vars, billVars
<1>15. 1..Worth[Line] \subseteq Nat /\ {} \in SUBSET Order /\ "new" \in OrderStatus
  BY MoneyAssumption DEF OrderStatus
<1>16. QED
  BY <1>2, <1>3, <1>4, <1>5, <1>6, <1>7, <1>8, <1>9, <1>10, <1>11, <1>12, <1>13, <1>14,
     <1>15 DEF Next

\* No command ever touches a paid or voided bill, and no payment is taken back.
THEOREM ClosedBillsAreFinal == Spec => ClosedBillsFinal
  BY InvariantHolds, ClosedStep, PTL DEF Spec, ClosedBillsFinal

-----------------------------------------------------------------------------
(* Billing implements Settlement *)

\* If no two bills hold the same line, the holder of a line is the bill it is in.
LEMMA HolderIs ==
  ASSUME NEW held, \A c, d \in Bill : c # d => held[c] \cap held[d] = {},
         NEW b \in Bill, NEW l \in held[b]
  PROVE  Holder(held, l) = b
<1> DEFINE owner == CHOOSE c \in Bill : l \in held[c]
<1>1. owner \in Bill /\ l \in held[owner]
  OBVIOUS
<1>2. Holder(held, l) = owner
  BY DEF Holder
<1> HIDE DEF owner
<1>3. QED
  BY <1>1, <1>2

LEMMA HolderNone ==
  ASSUME NEW held, NEW l, \A b \in Bill : l \notin held[b]
  PROVE  Holder(held, l) = None
BY DEF Holder

\* Changing the lines of a bill that is not closed is a Reassign.
LEMMA ChangeIsReassign ==
  ASSUME TypeOK, TypeOK', ChargedOnce, ChargedOnce', NEW b \in Bill,
         billStatus[b] \notin {"paid", "canceled"},
         \A c \in Bill \ {b} : items'[c] = items[c]
  PROVE  Promise!Reassign(b, items'[b])
<1> USE DEF TypeOK
<1>1. b \notin PaidBills \cup VoidBills
  BY DEF PaidBills, VoidBills
<1>2. /\ \A c, d \in Bill : c # d => items[c] \cap items[d] = {}
      /\ \A c, d \in Bill : c # d => items'[c] \cap items'[d] = {}
  BY DEF ChargedOnce
<1>3. \A c \in Bill : c # None
  BY RowsAssumption
<1>4. ASSUME NEW l \in Line
      PROVE  Holder(items', l) = IF l \in items'[b] THEN b
                                 ELSE IF Holder(items, l) = b THEN None
                                 ELSE Holder(items, l)
  <2>1. CASE l \in items'[b]
    BY <1>2, <2>1, HolderIs
  <2>2. CASE l \notin items'[b] /\ l \in items[b]
    <3>1. Holder(items, l) = b
      BY <1>2, <2>2, HolderIs
    <3>2. \A c \in Bill : l \notin items'[c]
      BY <1>2, <2>2
    <3>3. Holder(items', l) = None
      BY <3>2, HolderNone
    <3>4. QED
      BY <2>2, <3>1, <3>3
  <2>3. CASE l \notin items'[b] /\ l \notin items[b] /\ \E c \in Bill : l \in items[c]
    <3>1. PICK c \in Bill : l \in items[c]
      BY <2>3
    <3>2. c # b /\ l \in items'[c]
      BY <2>3, <3>1
    <3>3. Holder(items, l) = c
      BY <1>2, <3>1, HolderIs
    <3>4. Holder(items', l) = c
      BY <1>2, <3>2, HolderIs
    <3>5. QED
      BY <2>3, <3>2, <3>3, <3>4
  <2>4. CASE l \notin items'[b] /\ \A c \in Bill : l \notin items[c]
    <3>1. \A c \in Bill : l \notin items'[c]
      BY <2>4
    <3>2. Holder(items, l) = None
      BY <2>4, HolderNone
    <3>3. Holder(items', l) = None
      BY <3>1, HolderNone
    <3>4. QED
      BY <1>3, <2>4, <3>2, <3>3
  <2>5. QED
    BY <2>1, <2>2, <2>3, <2>4
<1>5. ASSUME NEW l \in items'[b]
      PROVE  l \in Line /\ Holder(items, l) \in {b, None}
  <2>1. l \in Line /\ \A c \in Bill \ {b} : l \notin items[c]
    BY <1>2
  <2>2. CASE l \in items[b]
    BY <1>2, <2>1, <2>2, HolderIs
  <2>3. CASE l \notin items[b]
    <3>1. \A c \in Bill : l \notin items[c]
      BY <2>1, <2>3
    <3>2. QED
      BY <2>1, <3>1, HolderNone
  <2>4. QED
    BY <2>2, <2>3
<1>6. QED
  BY <1>1, <1>4, <1>5 DEF Promise!Reassign

\* Only the bill b a command works on changes.
LEMMA OneBillPromise ==
  ASSUME IInv, IInv', ClosedBillsKept, NEW b \in Bill,
         \A c \in Bill \ {b} : items'[c] = items[c] /\ billStatus'[c] = billStatus[c]
  PROVE  [Promise!Next]_Promise!svars
<1> USE DEF IInv, TypeOK
<1> DEFINE coll == [c \in Bill |-> IF c \in PaidBills THEN paidAmount[c] + bonusSpent[c] ELSE 0]
<1>1. ASSUME NEW c \in Bill, c # b PROVE coll'[c] = coll[c]
  BY <1>1 DEF ClosedBillsKept, PaidBills
<1>2. CASE billStatus[b] \in {"paid", "canceled"}
  <2>1. items' = items /\ billStatus' = billStatus
    BY <1>2 DEF ClosedBillsKept
  <2>2. PaidBills' = PaidBills /\ VoidBills' = VoidBills
    BY <2>1 DEF PaidBills, VoidBills
  <2>3. coll' = coll
    BY <2>1 DEF ClosedBillsKept, PaidBills
  <2>4. QED
    BY <2>1, <2>2, <2>3 DEF Promise!svars
<1>3. CASE billStatus[b] \notin {"paid", "canceled"}
  <2>1. Promise!Reassign(b, items'[b]) /\ items'[b] \in SUBSET Line
    BY <1>3, ChangeIsReassign DEF AllocationInv
  <2>2. CASE billStatus'[b] = "paid"
    <3>1. PaidBills' = PaidBills \cup {b} /\ VoidBills' = VoidBills
      BY <1>3, <2>2 DEF PaidBills, VoidBills
    <3>2. paidAmount'[b] + bonusSpent'[b] = Worth[items'[b]]
      BY <2>2 DEF MoneyInv, MoneyAddsUp, LiveBills, LiveStatus
    <3>3. coll' = [coll EXCEPT ![b] = Worth[items'[b]]]
      BY <1>1, <3>1, <3>2
    <3>4. Promise!Settle(b)
      BY <2>1, <3>1, <3>3 DEF Promise!Settle
    <3>5. QED
      BY <3>4 DEF Promise!Next
  <2>3. CASE billStatus'[b] = "canceled"
    <3>1. PaidBills' = PaidBills /\ VoidBills' = VoidBills \cup {b}
      BY <1>3, <2>3 DEF PaidBills, VoidBills
    <3>2. items'[b] = {}
      BY <2>3 DEF AllocationInv, VoidedIsEmpty, LiveBills, LiveStatus, OpenStatus
    <3>3. coll' = coll
      BY <1>1, <1>3, <3>1 DEF PaidBills
    <3>4. Promise!Void(b)
      BY <2>1, <3>1, <3>2, <3>3 DEF Promise!Void
    <3>5. QED
      BY <3>4 DEF Promise!Next
  <2>4. CASE billStatus'[b] \notin {"paid", "canceled"}
    <3>1. PaidBills' = PaidBills /\ VoidBills' = VoidBills
      BY <1>3, <2>4 DEF PaidBills, VoidBills
    <3>2. coll' = coll
      BY <1>1, <1>3, <3>1 DEF PaidBills
    <3>3. Promise!Adjust(b)
      BY <2>1, <3>1, <3>2 DEF Promise!Adjust
    <3>4. QED
      BY <3>3 DEF Promise!Next
  <2>5. QED
    BY <2>2, <2>3, <2>4
<1>4. QED
  BY <1>2, <1>3

\* Every command changes the lines and the status of at most one bill.
LEMMA OneBillAtATime ==
  IInv /\ [Next]_vars =>
     \/ UNCHANGED <<items, billStatus>>
     \/ \E b \in Bill : \A c \in Bill \ {b} :
           items'[c] = items[c] /\ billStatus'[c] = billStatus[c]
<1> SUFFICES ASSUME IInv, [Next]_vars,
                    ~ UNCHANGED <<items, billStatus>>
             PROVE  \E b \in Bill : \A c \in Bill \ {b} :
                       items'[c] = items[c] /\ billStatus'[c] = billStatus[c]
  OBVIOUS
<1> USE DEF IInv, TypeOK
<1>1. ASSUME NEW c \in canceling, CancelCommit(c)
      PROVE  \A d \in Bill \ {c.bill} :
                       items'[d] = items[d] /\ billStatus'[d] = billStatus[d]
  BY <1>1 DEF CancelCommit, ReleaseLines, billVars
<1>2. ASSUME NEW c \in canceling, CancelCommit(c) PROVE c.bill \in Bill
  BY <1>2 DEF CancelCommit, billVars
<1>3. ASSUME NEW b \in Bill, NEW os, CreateBill(b, os) \/ AttachCommit(b) \/ IssueBill(b)
      PROVE  \A c \in Bill \ {b} : items'[c] = items[c] /\ billStatus'[c] = billStatus[c]
  BY <1>3 DEF CreateBill, AttachCommit, IssueBill
<1>4. ASSUME NEW b \in Bill, NEW amount,
             RecordPayment(b, amount) \/ PayWithBonuses(b, amount) \/ VoidBill(b)
      PROVE  \A c \in Bill \ {b} : items'[c] = items[c] /\ billStatus'[c] = billStatus[c]
  BY <1>4 DEF RecordPayment, PayWithBonuses, VoidBill
<1>5. ASSUME NEW b \in Bill, NEW ls, RemoveLines(b, ls)
      PROVE  \A c \in Bill \ {b} : items'[c] = items[c] /\ billStatus'[c] = billStatus[c]
  BY <1>5 DEF RemoveLines, ReleaseLines
<1>6. ASSUME NEW o \in Order, NEW to,
             \/ CreateOrder(o) \/ TransitionOrder(o, to) \/ ConfirmReceived(o)
             \/ CancelRead(o)
      PROVE  FALSE
  BY <1>6 DEF CreateOrder, TransitionOrder, ConfirmReceived, CancelRead, billVars
<1>7. ASSUME NEW b \in Bill, NEW os, NEW amount,
             AttachRead(b, os) \/ AttachAbort(b) \/ RedeemBonus(b, amount)
      PROVE  FALSE
  BY <1>7 DEF AttachRead, AttachAbort, RedeemBonus, billVars
<1>8. ASSUME NEW c \in canceling, CancelAbort(c) PROVE FALSE
  BY <1>8 DEF CancelAbort, billVars
<1>9. CASE UNCHANGED vars
  BY <1>9 DEF vars
<1>10. QED
  BY <1>1, <1>2, <1>3, <1>4, <1>5, <1>6, <1>7, <1>8, <1>9 DEF Next

LEMMA PromiseInit == Init => Promise!Init
<1> SUFFICES ASSUME Init PROVE Promise!Init
  OBVIOUS
<1>1. PaidBills = {} /\ VoidBills = {}
  BY DEF Init, PaidBills, VoidBills
<1>2. \A l \in Line : Holder(items, l) = None
  BY HolderNone DEF Init
<1>3. QED
  BY <1>1, <1>2 DEF Promise!Init

LEMMA PromiseStep ==
  IInv /\ IInv' /\ [Next]_vars => [Promise!Next]_Promise!svars
<1> SUFFICES ASSUME IInv, IInv', [Next]_vars PROVE [Promise!Next]_Promise!svars
  OBVIOUS
<1>1. ClosedBillsKept
  BY ClosedStep
<1>2. CASE \E b \in Bill : \A c \in Bill \ {b} :
              items'[c] = items[c] /\ billStatus'[c] = billStatus[c]
  BY <1>1, <1>2, OneBillPromise
<1>3. CASE UNCHANGED <<items, billStatus>>
  <2>1. PaidBills' = PaidBills /\ VoidBills' = VoidBills /\ items' = items
    BY <1>3 DEF PaidBills, VoidBills
  <2>2. \A b \in PaidBills : paidAmount'[b] = paidAmount[b] /\ bonusSpent'[b] = bonusSpent[b]
    BY <1>1 DEF ClosedBillsKept, PaidBills
  <2>3. QED
    BY <2>1, <2>2 DEF Promise!svars
<1>4. QED
  BY <1>2, <1>3, OneBillAtATime

\* Billing implements Settlement: a line is never taken from another bill, and a bill
\* closes once, voided and empty or with exactly the worth of its lines collected.
THEOREM BillingImplementsSettlement == Spec => ImplementsSettlement
<1>1. Init => Promise!Init
  BY PromiseInit
<1>2. IInv /\ IInv' /\ [Next]_vars => [Promise!Next]_Promise!svars
  BY PromiseStep
<1>3. QED
  BY <1>1, <1>2, InvariantHolds, PTL DEF Spec, ImplementsSettlement, Promise!Spec
=============================================================================
