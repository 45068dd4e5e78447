------------------------------- MODULE Billing -------------------------------
(***************************************************************************)
(* The billing core of apps/billing/services.py, with the part of          *)
(* apps/orders/services.py it calls: orders and their status machine,      *)
(* bills, the allocation of order lines to bills, money payments, bonus    *)
(* payments and the bonus ledger.                                          *)
(*                                                                         *)
(* A command that reads only rows it has locked is one action: its row     *)
(* locks are held to the commit, so no other command commits in between.   *)
(* The two commands that decide on a row they have NOT locked are two      *)
(* actions, a read and a commit:                                           *)
(*   attach_orders_to_bill  holds the bill row, reads the orders unlocked; *)
(*   cancel_order           reads the active bill lines unlocked.          *)
(* A command that raises is rolled back, so it is no step at all.          *)
(*                                                                         *)
(* Money is an integer number of kopecks.  What a set of lines costs is    *)
(* the constant Worth, any additive measure, in place of a sum over rows.  *)
(*                                                                         *)
(* An operator X_Bug... is X with a plausible bug; nothing uses it here.   *)
(***************************************************************************)
EXTENDS Integers, FiniteSets, Functions

CONSTANTS
    Order,           \* orders of one venue
    Line,            \* their OrderItem rows
    Bill,            \* identities of bills
    Guest,           \* guest profiles
    Context,         \* what a bill may span: a table visit, or a guest without a table
    None,            \* SQL NULL: no bill, no guest, no context
    OrderOf,         \* the order of a line
    GuestOf,         \* the guest of an order
    ContextOf,       \* the context of an order
    Pickup,          \* the orders of a prepaid channel
    Worth,           \* the sum of line_total over a set of lines
    InitialBonus,    \* what each guest's ledger held before
    MaxRedeemShare,  \* the largest max_redeem_share of the active programs, in percent
    Accruals         \* the amounts ORDER_COMPLETED programs may award for an order

ASSUME RowsAssumption ==
    /\ IsFiniteSet(Order) /\ IsFiniteSet(Bill)
    /\ OrderOf \in [Line -> Order]
    /\ GuestOf \in [Order -> Guest]
    /\ ContextOf \in [Order -> Context]
    /\ Pickup \subseteq Order
    /\ \A o \in Order : \E l \in Line : OrderOf[l] = o
    /\ None \notin Bill \cup Guest \cup Context

ASSUME MoneyAssumption ==
    /\ Worth \in [SUBSET Line -> Nat]
    /\ Worth[{}] = 0
    /\ \A S, T \in SUBSET Line :
          S \cap T = {} => Worth[S \cup T] = Worth[S] + Worth[T]
    /\ InitialBonus \in [Guest -> Nat]
    /\ MaxRedeemShare \in 0..100
    /\ Accruals \subseteq Nat /\ Accruals # {}

VARIABLES
    status,        \* Order.status, "absent" before create_order
    paidOrders,    \* the orders whose paid_at is set
    billStatus,    \* Bill.status, "absent" before create_bill_from_orders
    billContext,   \* Bill.table and Bill.visit
    primaryGuest,  \* Bill.primary_guest
    items,         \* the active BillItem rows of a bill, by order line
    billOrders,    \* the BillOrder rows of a bill
    totalAmount,   \* the stored Bill.total_amount
    paidAmount,    \* Bill.paid_amount: the money payments
    bonusSpent,    \* Bill.bonus_spent_amount
    ledger,        \* the BonusTransaction rows
    attaching,     \* per bill, the orders a running attach_orders_to_bill has read
    canceling      \* the running cancel_order commands and the lines they have read

orderVars == <<status, paidOrders>>
billVars == <<billStatus, billContext, primaryGuest, items, billOrders,
              totalAmount, paidAmount, bonusSpent>>
vars == <<status, paidOrders, billStatus, billContext, primaryGuest, items,
          billOrders, totalAmount, paidAmount, bonusSpent, ledger, attaching,
          canceling>>

-----------------------------------------------------------------------------
(* Orders *)

OrderStatus == {"new", "accepted", "preparing", "ready", "delivering",
                "completed", "canceled"}

\* ORDER_STATUS_TRANSITIONS
NextStatuses(s) ==
    CASE s = "new"        -> {"accepted", "canceled"}
      [] s = "accepted"   -> {"preparing", "ready", "canceled"}
      [] s = "preparing"  -> {"ready", "canceled"}
      [] s = "ready"      -> {"delivering", "completed", "canceled"}
      [] s = "delivering" -> {"completed", "canceled"}
      [] OTHER            -> {}

LinesOf(os) == {l \in Line : OrderOf[l] \in os}

(* Bills *)

OpenStatus == {"draft", "issued", "partially_paid"}
LiveStatus == OpenStatus \cup {"paid"}

LiveBills == {b \in Bill : billStatus[b] \in LiveStatus}

\* Without the row lock of the bill.
Unlocked_BugNoLock(b) == TRUE

\* A bill whose row no running command holds.
Unlocked(b) == attaching[b] = {}

\* _compute_bill_totals; discount_amount has no writer and stays 0.
BillTotal(ls, bonus) == IF Worth[ls] > bonus THEN Worth[ls] - bonus ELSE 0

\* What is left to pay with money.
Remaining(b) == BillTotal(items[b], bonusSpent[b]) - paidAmount[b]

\* Only the open bills are looked at.
AllocatedElsewhere_BugOpenOnly(b, os) ==
    (UNION {items[c] : c \in {d \in Bill : billStatus[d] \in OpenStatus} \ {b}})
       \cap LinesOf(os)

\* The lines of os some other bill holds, with is_active set.
AllocatedElsewhere(b, os) ==
    (UNION {items[c] : c \in LiveBills \ {b}}) \cap LinesOf(os)

\* The active BillItem rows of an order.
ActiveLines(o) == (UNION {items[b] : b \in Bill}) \cap LinesOf({o})

(* The bonus ledger *)

LedgerRow == [type : {"redemption", "reversal"}, bill : Bill,
              guest : Guest, amount : Nat]
                \cup [type : {"accrual"}, order : Order,
                      guest : Guest, amount : Nat]

AmountIn(rows) == SumFunctionOnSet([r \in rows |-> r.amount], rows)

\* get_bonus_ledger_balance; loyalty_balance is its synchronised copy.
LedgerBalance(g) ==
    LET rows == {r \in ledger : r.guest = g}
    IN  InitialBonus[g]
          + AmountIn({r \in rows : r.type \in {"accrual", "reversal"}})
          - AmountIn({r \in rows : r.type = "redemption"})

\* Decimal.quantize to kopecks of n / 100, ROUND_HALF_EVEN.
Percent(n, share) ==
    LET q == (n * share) \div 100
        r == (n * share) % 100
    IN  IF r > 50 \/ (r = 50 /\ q % 2 = 1) THEN q + 1 ELSE q

\* get_redeemable_bonus_amount is the least of these.
RedeemCaps(g, total) == {LedgerBalance(g), Percent(total, MaxRedeemShare), total}

-----------------------------------------------------------------------------
(* Commands on orders: apps/orders/services.py *)

\* create_order, of any channel.
CreateOrder(o) ==
    /\ status[o] = "absent"
    /\ status' = [status EXCEPT ![o] = "new"]
    /\ UNCHANGED <<paidOrders, billVars, ledger, attaching, canceling>>

\* The prepayment is not asked for.
MayTransition_BugUnpaid(o, to) ==
    /\ to \in NextStatuses(status[o])
    /\ to = "canceled" => ActiveLines(o) = {}

\* The guards of transition_order_status, under the order's row lock.
MayTransition(o, to) ==
    /\ to \in NextStatuses(status[o])
    /\ to = "accepted" /\ o \in Pickup => o \in paidOrders
    /\ to = "canceled" => ActiveLines(o) = {}

\* transition_order_status
TransitionOrder(o, to) ==
    /\ MayTransition(o, to)
    /\ status' = [status EXCEPT ![o] = to]
    /\ UNCHANGED <<paidOrders, billVars, ledger, attaching, canceling>>

\* confirm_order_received_by_guest: from any status that is not final, for an
\* order of the guest's active table session.
ConfirmReceived(o) ==
    /\ o \notin Pickup
    /\ NextStatuses(status[o]) # {}
    /\ status' = [status EXCEPT ![o] = "completed"]
    /\ UNCHANGED <<paidOrders, billVars, ledger, attaching, canceling>>

-----------------------------------------------------------------------------
(* What commands on bills have in common *)

\* Only the orders that were already served.
SettledOrders_BugServed(os) ==
    {o \in os : status[o] \in {"ready", "delivering", "completed"}}

\* The orders of a bill that becomes paid: all that are not canceled.
SettledOrders(os) == {o \in os : status[o] # "canceled"}

\* The rows apply_bonus_programs adds for the orders that were unpaid, one per
\* order: the idempotency key is order_paid:<order>.
AccrualRows(award) ==
    {[type |-> "accrual", order |-> o, guest |-> GuestOf[o], amount |-> award[o]] :
        o \in {p \in DOMAIN award : award[p] > 0}}

\* _sync_orders_after_bill_paid for the orders os of a bill that became paid, in
\* a command that also cancels the orders in dropped and adds rows to the ledger.
SettleOrders(os, dropped, rows) ==
    /\ status' = [o \in Order |->
                    IF o \in dropped THEN "canceled"
                    ELSE IF o \in os /\ status[o] \in {"ready", "delivering"}
                         THEN "completed"
                         ELSE status[o]]
    /\ paidOrders' = paidOrders \cup os
    /\ \E award \in [os \ paidOrders -> Accruals] :
          ledger' = ledger \cup rows \cup AccrualRows(award)

\* The links are kept.
LinksAfter_BugKept(b, ls) == billOrders[b]

\* The BillOrder rows _release_bill_lines keeps: it unlinks the orders of the
\* released lines ls that have no active line left in the bill.
LinksAfter(b, ls) ==
    {o \in billOrders[b] :
        /\ \E l \in ls : OrderOf[l] = o
        => \E l \in items[b] \ ls : OrderOf[l] = o}

\* Any payment settles the bill.
Covered_BugAnyPayment(paid, total) == paid > 0

\* The bill is paid once the money covers a positive total.
Covered(paid, total) == paid > 0 /\ paid = total

-----------------------------------------------------------------------------
(* Putting orders into bills *)

\* create_bill_from_orders: the orders and their items are locked, the orders
\* are of one table visit or of one guest without a table.
CreateBill(b, os) ==
    /\ billStatus[b] = "absent"
    /\ os # {}
    /\ \A o \in os : status[o] \notin {"absent", "canceled"}
    /\ AllocatedElsewhere(b, os) = {}
    /\ \E c \in Context :
          /\ \A o \in os : ContextOf[o] = c
          /\ billContext' = [billContext EXCEPT ![b] = c]
    /\ \/ \E g \in Guest :
             /\ \A o \in os : GuestOf[o] = g
             /\ primaryGuest' = [primaryGuest EXCEPT ![b] = g]
       \/ /\ \E o, p \in os : GuestOf[o] # GuestOf[p]
          /\ primaryGuest' = [primaryGuest EXCEPT ![b] = None]
    /\ billStatus' = [billStatus EXCEPT ![b] = "draft"]
    /\ items' = [items EXCEPT ![b] = LinesOf(os)]
    /\ billOrders' = [billOrders EXCEPT ![b] = os]
    /\ totalAmount' = [totalAmount EXCEPT ![b] = BillTotal(LinesOf(os), 0)]
    /\ UNCHANGED <<orderVars, paidAmount, bonusSpent, ledger, attaching, canceling>>

\* attach_orders_to_bill up to its check of the orders: the bill is locked, the
\* orders are read WITHOUT a lock, those already in the bill are left out.
AttachRead(b, os) ==
    /\ Unlocked(b)
    /\ billStatus[b] \in OpenStatus
    /\ os \ billOrders[b] # {}
    /\ \A o \in os : status[o] # "absent" /\ ContextOf[o] = billContext[b]
    /\ \A o \in os \ billOrders[b] : status[o] # "canceled"
    /\ attaching' = [attaching EXCEPT ![b] = os \ billOrders[b]]
    /\ UNCHANGED <<orderVars, billVars, ledger, canceling>>

\* The rest of attach_orders_to_bill: the items are locked, no other bill may
\* hold one, the lines enter the bill.
AttachCommit(b) ==
    LET os == attaching[b]
    IN  /\ os # {}
        /\ AllocatedElsewhere(b, os) = {}
        /\ items' = [items EXCEPT ![b] = @ \cup LinesOf(os)]
        /\ billOrders' = [billOrders EXCEPT ![b] = @ \cup os]
        /\ totalAmount' = [totalAmount EXCEPT ![b] =
                              BillTotal(items[b] \cup LinesOf(os), bonusSpent[b])]
        /\ attaching' = [attaching EXCEPT ![b] = {}]
        /\ UNCHANGED <<orderVars, billStatus, billContext, primaryGuest,
                       paidAmount, bonusSpent, ledger, canceling>>

\* A refused or interrupted attach_orders_to_bill is rolled back.
AttachAbort(b) ==
    /\ attaching[b] # {}
    /\ attaching' = [attaching EXCEPT ![b] = {}]
    /\ UNCHANGED <<orderVars, billVars, ledger, canceling>>

\* issue_bill
IssueBill(b) ==
    /\ Unlocked(b)
    /\ billStatus[b] = "draft"
    /\ billStatus' = [billStatus EXCEPT ![b] = "issued"]
    /\ UNCHANGED <<orderVars, billContext, primaryGuest, items, billOrders,
                   totalAmount, paidAmount, bonusSpent, ledger, attaching, canceling>>

-----------------------------------------------------------------------------
(* Paying bills *)

\* record_payment of a positive amount of money; the last one settles the bill.
RecordPayment(b, amount) ==
    LET paid  == paidAmount[b] + amount
        total == BillTotal(items[b], bonusSpent[b])
    IN  /\ Unlocked(b)
        /\ billStatus[b] \in OpenStatus
        /\ amount > 0 /\ amount <= Remaining(b)
        /\ paidAmount' = [paidAmount EXCEPT ![b] = paid]
        /\ totalAmount' = [totalAmount EXCEPT ![b] = total]
        /\ \/ /\ Covered(paid, total)
              /\ billStatus' = [billStatus EXCEPT ![b] = "paid"]
              /\ SettleOrders(SettledOrders(billOrders[b]), {}, {})
           \/ /\ ~Covered(paid, total)
              /\ billStatus' = [billStatus EXCEPT ![b] = "partially_paid"]
              /\ UNCHANGED <<orderVars, ledger>>
        /\ UNCHANGED <<billContext, primaryGuest, items, billOrders, bonusSpent,
                       attaching, canceling>>

\* What pay_bill_with_bonuses and redeem_bonus_for_bill both require.
MaySpendBonuses(b) ==
    /\ Unlocked(b)
    /\ billStatus[b] \in OpenStatus
    /\ primaryGuest[b] # None
    /\ bonusSpent[b] = 0
    /\ paidAmount[b] = 0
    /\ BillTotal(items[b], 0) > 0

\* The sign of a redemption is put into its amount.
RedemptionRow_BugNegative(b, amount) ==
    [type |-> "redemption", bill |-> b, guest |-> primaryGuest[b], amount |-> -amount]

\* The ledger row of a bonus payment.
RedemptionRow(b, amount) ==
    [type |-> "redemption", bill |-> b, guest |-> primaryGuest[b], amount |-> amount]

\* pay_bill_with_bonuses: spends all the guest may spend here, and settles the
\* bill if that covers it.
PayWithBonuses(b, amount) ==
    LET total == BillTotal(items[b], amount)
        row   == RedemptionRow(b, amount)
    IN  /\ MaySpendBonuses(b)
        /\ \A o \in billOrders[b] : GuestOf[o] = primaryGuest[b]
        /\ amount > 0
        /\ amount \in RedeemCaps(primaryGuest[b], BillTotal(items[b], 0))
        /\ \A cap \in RedeemCaps(primaryGuest[b], BillTotal(items[b], 0)) : amount <= cap
        /\ bonusSpent' = [bonusSpent EXCEPT ![b] = amount]
        /\ totalAmount' = [totalAmount EXCEPT ![b] = total]
        /\ \/ /\ total = 0
              /\ billStatus' = [billStatus EXCEPT ![b] = "paid"]
              /\ SettleOrders(SettledOrders(billOrders[b]), {}, {row})
           \/ /\ total > 0
              /\ billStatus' = [billStatus EXCEPT ![b] =
                                   IF @ = "draft" THEN "issued" ELSE @]
              /\ ledger' = ledger \cup {row}
              /\ UNCHANGED orderVars
        /\ UNCHANGED <<billContext, primaryGuest, items, billOrders, paidAmount,
                       attaching, canceling>>

\* redeem_bonus_for_bill: spends a chosen amount and never settles the bill.
RedeemBonus(b, amount) ==
    /\ MaySpendBonuses(b)
    /\ amount > 0
    /\ \A cap \in RedeemCaps(primaryGuest[b], BillTotal(items[b], 0)) : amount <= cap
    /\ bonusSpent' = [bonusSpent EXCEPT ![b] = amount]
    /\ totalAmount' = [totalAmount EXCEPT ![b] = BillTotal(items[b], amount)]
    /\ ledger' = ledger \cup {RedemptionRow(b, amount)}
    /\ UNCHANGED <<orderVars, billStatus, billContext, primaryGuest, items,
                   billOrders, paidAmount, attaching, canceling>>

-----------------------------------------------------------------------------
(* Correcting bills.  The actor has the right to adjust bills. *)

\* The total may drop below what is paid.
MayRemove_BugBelowPaid(b, ls) ==
    /\ Unlocked(b)
    /\ billStatus[b] \in OpenStatus
    /\ bonusSpent[b] = 0
    /\ ls # {} /\ ls \subseteq items[b]

\* The checks of remove_bill_lines under the bill's row lock.
MayRemove(b, ls) ==
    /\ Unlocked(b)
    /\ billStatus[b] \in OpenStatus
    /\ bonusSpent[b] = 0
    /\ ls # {} /\ ls \subseteq items[b]
    /\ BillTotal(items[b] \ ls, 0) >= paidAmount[b]

\* remove_bill_lines, in a command that also cancels the orders in dropped.
ReleaseLines(b, ls, dropped) ==
    LET total == BillTotal(items[b] \ ls, 0)
    IN  /\ items' = [items EXCEPT ![b] = @ \ ls]
        /\ billOrders' = [billOrders EXCEPT ![b] = LinksAfter(b, ls)]
        /\ totalAmount' = [totalAmount EXCEPT ![b] = total]
        /\ \/ /\ Covered(paidAmount[b], total)
              /\ billStatus' = [billStatus EXCEPT ![b] = "paid"]
              /\ SettleOrders(SettledOrders(LinksAfter(b, ls)), dropped, {})
           \/ /\ ~Covered(paidAmount[b], total)
              /\ SettleOrders({}, dropped, {})
              /\ UNCHANGED billStatus
        /\ UNCHANGED <<billContext, primaryGuest, paidAmount, bonusSpent, attaching>>

\* remove_bill_lines
RemoveLines(b, ls) ==
    /\ MayRemove(b, ls)
    /\ ReleaseLines(b, ls, {})
    /\ UNCHANGED canceling

\* The bonuses are kept.
ReturnedBonus_BugKept(b) == {}

\* The reversal row of a voided bill.
ReturnedBonus(b) ==
    IF bonusSpent[b] > 0
    THEN {[type |-> "reversal", bill |-> b, guest |-> primaryGuest[b],
           amount |-> bonusSpent[b]]}
    ELSE {}

\* The money already taken is not looked at.
MayVoid_BugPaid(b) == Unlocked(b) /\ billStatus[b] \in OpenStatus

\* A bill can be voided only while no money was taken, and only if there is a
\* guest to return its bonuses to.
MayVoid(b) ==
    /\ Unlocked(b)
    /\ billStatus[b] \in OpenStatus
    /\ paidAmount[b] = 0
    /\ bonusSpent[b] > 0 => primaryGuest[b] # None

\* void_bill; the stored total and bonus_spent_amount stay as they were.
VoidBill(b) ==
    /\ MayVoid(b)
    /\ items' = [items EXCEPT ![b] = {}]
    /\ billOrders' = [billOrders EXCEPT ![b] = LinksAfter(b, items[b])]
    /\ ledger' = ledger \cup ReturnedBonus(b)
    /\ billStatus' = [billStatus EXCEPT ![b] = "canceled"]
    /\ UNCHANGED <<orderVars, billContext, primaryGuest, totalAmount, paidAmount,
                   bonusSpent, attaching, canceling>>

-----------------------------------------------------------------------------
(* cancel_order: its bill, if any, is found before anything is locked *)

\* The read of the order's active lines; an order of a paid bill is refused.
CancelRead(o) ==
    /\ status[o] # "absent"
    /\ \A c \in canceling : c.order # o
    /\ \/ /\ ActiveLines(o) = {}
          /\ canceling' = canceling \cup {[order |-> o, bill |-> None, lines |-> {}]}
       \/ \E b \in Bill :
             /\ items[b] \cap LinesOf({o}) # {}
             /\ billStatus[b] # "paid"
             /\ canceling' = canceling \cup
                   {[order |-> o, bill |-> b, lines |-> items[b] \cap LinesOf({o})]}
    /\ UNCHANGED <<orderVars, billVars, ledger, attaching>>

\* The active lines are not looked at again.
MayCancel_BugNoRecheck(c) == "canceled" \in NextStatuses(status[c.order])

\* transition_order_status checks again, after the order lock, that no active
\* line is left beside the ones this command has released.
MayCancel(c) ==
    /\ "canceled" \in NextStatuses(status[c.order])
    /\ ActiveLines(c.order) \subseteq c.lines

\* The commit: the lines leave the bill, then the order is canceled.
CancelCommit(c) ==
    /\ MayCancel(c)
    /\ \/ /\ c.bill = None
          /\ status' = [status EXCEPT ![c.order] = "canceled"]
          /\ UNCHANGED <<paidOrders, billVars, ledger, attaching>>
       \/ /\ c.bill # None
          /\ MayRemove(c.bill, c.lines)
          /\ ReleaseLines(c.bill, c.lines, {c.order})
    /\ canceling' = canceling \ {c}

\* A refused or interrupted cancel_order is rolled back.
CancelAbort(c) ==
    /\ canceling' = canceling \ {c}
    /\ UNCHANGED <<orderVars, billVars, ledger, attaching>>

-----------------------------------------------------------------------------

Init ==
    /\ status = [o \in Order |-> "absent"]
    /\ paidOrders = {}
    /\ billStatus = [b \in Bill |-> "absent"]
    /\ billContext = [b \in Bill |-> None]
    /\ primaryGuest = [b \in Bill |-> None]
    /\ items = [b \in Bill |-> {}]
    /\ billOrders = [b \in Bill |-> {}]
    /\ totalAmount = [b \in Bill |-> 0]
    /\ paidAmount = [b \in Bill |-> 0]
    /\ bonusSpent = [b \in Bill |-> 0]
    /\ ledger = {}
    /\ attaching = [b \in Bill |-> {}]
    /\ canceling = {}

Next ==
    \/ \E o \in Order : \/ CreateOrder(o)
                        \/ \E to \in OrderStatus : TransitionOrder(o, to)
                        \/ ConfirmReceived(o)
                        \/ CancelRead(o)
    \/ \E c \in canceling : CancelCommit(c) \/ CancelAbort(c)
    \/ \E b \in Bill :
          \/ \E os \in SUBSET Order : CreateBill(b, os) \/ AttachRead(b, os)
          \/ AttachCommit(b)
          \/ AttachAbort(b)
          \/ IssueBill(b)
          \/ \E amount \in 1..Worth[Line] :
                \/ RecordPayment(b, amount)
                \/ PayWithBonuses(b, amount)
                \/ RedeemBonus(b, amount)
          \/ \E ls \in SUBSET items[b] : RemoveLines(b, ls)
          \/ VoidBill(b)

Spec == Init /\ [][Next]_vars

-----------------------------------------------------------------------------
(* Properties *)

TypeOK ==
    /\ status \in [Order -> OrderStatus \cup {"absent"}]
    /\ paidOrders \subseteq Order
    /\ billStatus \in [Bill -> LiveStatus \cup {"absent", "canceled"}]
    /\ billContext \in [Bill -> Context \cup {None}]
    /\ primaryGuest \in [Bill -> Guest \cup {None}]
    /\ items \in [Bill -> SUBSET Line]
    /\ billOrders \in [Bill -> SUBSET Order]
    /\ totalAmount \in [Bill -> Nat]
    /\ paidAmount \in [Bill -> Nat]
    /\ bonusSpent \in [Bill -> Nat]
    /\ ledger \subseteq LedgerRow
    /\ attaching \in [Bill -> SUBSET Order]
    /\ canceling \subseteq [order : Order, bill : Bill \cup {None}, lines : SUBSET Line]

\* An order line is charged at most once: no line is active in two bills, and no
\* order is linked to two bills that still stand, whatever bills are created,
\* extended, corrected and voided at the same time.
ChargedOnce ==
    \A b, c \in Bill :
        b # c => /\ items[b] \cap items[c] = {}
                 /\ billOrders[b] \cap billOrders[c] = {}

\* A bill is linked to exactly the orders it charges a line of: settlement pays
\* the linked orders, so a stale link pays an order nobody was charged for.
LinkedMeansCharged ==
    \A b \in Bill : billOrders[b] = {OrderOf[l] : l \in items[b]}

\* The money of a bill adds up: the stored total is that of its active lines less
\* the bonuses, what was taken never exceeds it, a paid bill is covered to the
\* kopeck, and an open bill always leaves either something to pay or the
\* possibility to void it.
MoneyAddsUp ==
    \A b \in LiveBills :
        /\ totalAmount[b] + bonusSpent[b] = Worth[items[b]]
        /\ paidAmount[b] <= totalAmount[b]
        /\ billStatus[b] \in {"draft", "issued"} => paidAmount[b] = 0
        /\ billStatus[b] = "partially_paid" =>
              0 < paidAmount[b] /\ paidAmount[b] < totalAmount[b]
        /\ billStatus[b] = "paid" => paidAmount[b] = totalAmount[b]

\* A voided bill took no money and charges nothing, so nothing is owed to anybody.
VoidedIsEmpty ==
    \A b \in Bill \ LiveBills :
        paidAmount[b] = 0 /\ items[b] = {} /\ billOrders[b] = {}

\* What a running command has decided on stays true until it commits: the bill an
\* attach_orders_to_bill holds stays open and takes no other order, and the
\* lines a cancel_order has read are lines of its order.
RunningCommandsSound ==
    /\ \A b \in Bill : attaching[b] # {} =>
          billStatus[b] \in OpenStatus /\ attaching[b] \cap billOrders[b] = {}
    /\ \A c \in canceling :
          /\ c.lines \subseteq LinesOf({c.order})
          /\ c.bill = None => c.lines = {}

\* Orders and bills agree on what is settled: the orders of a paid bill are paid
\* unless canceled, and a paid order is charged in a paid bill and not canceled.
SettledTogether ==
    /\ \A b \in Bill : billStatus[b] = "paid" =>
          \A o \in billOrders[b] : status[o] = "canceled" \/ o \in paidOrders
    /\ \A o \in paidOrders :
          /\ status[o] # "canceled"
          /\ \E b \in Bill : billStatus[b] = "paid" /\ o \in billOrders[b]

\* An order is rewarded once, and only after the bill that charges it was covered
\* in full by money and bonuses.
RewardedOnce ==
    \A r, t \in {x \in ledger : x.type = "accrual"} :
        /\ r.order = t.order => r = t
        /\ \E b \in Bill : /\ billStatus[b] = "paid" /\ r.order \in billOrders[b]
                          /\ paidAmount[b] + bonusSpent[b] = Worth[items[b]]

\* No bonus is lost or minted: what the redemptions took from a guest and no
\* reversal gave back is what the bills that stand have spent, and no balance is
\* ever negative.
BonusesConserved ==
    \A g \in Guest :
        LET rows(t) == {r \in ledger : r.type = t /\ r.guest = g}
            spent   == {b \in LiveBills : primaryGuest[b] = g}
        IN  /\ LedgerBalance(g) >= 0
            /\ AmountIn(rows("redemption")) - AmountIn(rows("reversal"))
                  = SumFunctionOnSet(bonusSpent, spent)

\* A prepaid order goes into work only once it is paid, and stays paid.
PickupPaidBeforeWork ==
    \A o \in Pickup : status[o] \in {"absent", "new", "canceled"} \/ o \in paidOrders

\* A closed bill is final, and money is never given back: neither a payment nor
\* a correction that started earlier may touch a paid or voided bill.
ClosedBillsKept ==
    \A b \in Bill :
        /\ paidAmount'[b] >= paidAmount[b]
        /\ billStatus[b] \in {"paid", "canceled"} =>
              /\ billStatus'[b] = billStatus[b]
              /\ items'[b] = items[b]
              /\ billOrders'[b] = billOrders[b]
              /\ paidAmount'[b] = paidAmount[b]
              /\ bonusSpent'[b] = bonusSpent[b]
ClosedBillsFinal == [][ClosedBillsKept]_vars

\* The step that cancels an order leaves no active line of it in any bill, also
\* when the lines were put there after cancel_order looked.
CanceledIsReleased ==
    \A o \in Order : status[o] # "canceled" /\ status'[o] = "canceled" =>
        ActiveLines(o)' = {}
CancelLeavesNoLine == [][CanceledIsReleased]_vars

\* What the lines, the links and the locks of the bills must be for a command to
\* keep ChargedOnce.
AllocationInv ==
    /\ ChargedOnce
    /\ LinkedMeansCharged
    /\ VoidedIsEmpty
    /\ RunningCommandsSound

\* The same for MoneyAddsUp: a bill starts with no bonuses spent.
MoneyInv ==
    /\ MoneyAddsUp
    /\ \A b \in Bill : billStatus[b] = "absent" => bonusSpent[b] = 0

\* The same for RewardedOnce: only paid orders were awarded, one row each.
AwardsPaid ==
    \A r, t \in {x \in ledger : x.type = "accrual"} :
        r.order \in paidOrders /\ (r.order = t.order => r = t)

\* The inductive invariant behind the properties above.
IInv ==
    /\ TypeOK
    /\ AllocationInv
    /\ MoneyInv
    /\ SettledTogether
    /\ AwardsPaid
    /\ PickupPaidBeforeWork

-----------------------------------------------------------------------------
(* What bills promise, see Settlement: the bill an order line belongs to, the *)
(* bills closed for good, and what the paid ones collected.                   *)

\* The bill that holds line l, when each bill b holds the lines held[b].
Holder(held, l) ==
    IF \E b \in Bill : l \in held[b] THEN CHOOSE b \in Bill : l \in held[b] ELSE None

PaidBills == {b \in Bill : billStatus[b] = "paid"}
VoidBills == {b \in Bill : billStatus[b] = "canceled"}

Promise == INSTANCE Settlement WITH
        owner <- [l \in Line |-> Holder(items, l)],
        settled <- PaidBills,
        voided <- VoidBills,
        collected <- [b \in Bill |-> IF b \in PaidBills THEN paidAmount[b] + bonusSpent[b]
                                                       ELSE 0]

\* The billing commands implement Settlement: each changes the lines of at most one
\* open bill, never takes a line from another one, and closes a bill either empty
\* or with exactly the worth of its lines collected.
ImplementsSettlement == Promise!Spec
=============================================================================
