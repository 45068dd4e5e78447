------------------------------ MODULE StaffDesk ------------------------------
(***************************************************************************)
(* The cards of the staff: bot/handlers/staff.py and bot/keyboards/staff.py *)
(* over confirm_transfer and reject_transfer of                            *)
(* apps/billing/remote_orders.py and the commands of                       *)
(* apps/billing/services.py.                                               *)
(*                                                                         *)
(* A message shows what the database held when it was made, and stays in   *)
(* the chat with its buttons while colleagues work on the same orders and  *)
(* bills; every command must therefore look again at what it has locked.   *)
(* One message of each employee is followed (a feed of several is one of   *)
(* them); an employee waits for the answer to a tap, so a double tap is    *)
(* two employees with the same card.  A command that reads a row before it *)
(* locks anything is two steps, with hand[e] between them.                 *)
(*                                                                         *)
(* The orders are of one guest, every line costs 1, bonus programs award   *)
(* nothing, and part payments, which only the administration records, are  *)
(* in Billing.  The comment to a change of a bill is left out.             *)
(* An operator X_Bug... is X with a plausible bug; nothing uses it here.   *)
(***************************************************************************)
EXTENDS Integers, FiniteSets, Functions

CONSTANTS
    Employee,
    Cashier,        \* PAYMENT_CHECK_ROLES, _STAFF_OPERATIONS_ROLES
    Adjuster,       \* user_can_adjust_bills
    Pickup,         \* orders paid by transfer before work starts
    AtTable,        \* orders of one table
    Bill,
    Lines,          \* order lines of an order
    PickupBill,     \* the bill its checkout made for a pickup order
    Allowed,        \* ORDER_STATUS_TRANSITIONS
    Offered,        \* get_available_staff_actions
    Bonuses,        \* bonuses of the guest at the start
    None

Order == Pickup \cup AtTable
Line == UNION {Lines[o] : o \in Order}
Status == DOMAIN Allowed
OpenStatus == {"draft", "issued", "partially_paid"}

ASSUME StaffDeskAssumption ==
    /\ Adjuster \subseteq Cashier /\ Cashier \subseteq Employee
    /\ Pickup \cap AtTable = {} /\ None \notin Order \cup Bill
    /\ \A o \in Order : Lines[o] # {}
    /\ \A o, p \in Order : o # p => Lines[o] \cap Lines[p] = {}
    /\ IsFiniteSet(Line) /\ IsFiniteSet(Bill)
    /\ PickupBill \in [Pickup -> Bill]
    /\ \A o, p \in Pickup : PickupBill[o] = PickupBill[p] => o = p
    /\ {"new", "accepted", "completed", "canceled"} \subseteq Status
    /\ Allowed \in [Status -> SUBSET Status] /\ Offered \in [Status -> SUBSET Status]
    /\ Allowed["canceled"] = {} /\ \A s \in Status : "new" \notin Allowed[s]
    /\ Bonuses \in Nat

VARIABLES
    status,      \* Order.status
    settled,     \* the orders with a paid_at
    bill,        \* status, active lines, money taken and bonuses spent of each Bill
    balance,     \* GuestProfile.loyalty_balance
    screen,      \* the buttons of the message each employee looks at
    hand,        \* the command of each employee that has read and not yet locked
    lastCancel,  \* the bill of the last ORDER_CANCELED adjustment of each employee
    told         \* the transfers somebody was told are confirmed, or refused

orderVars == <<status, settled>>
db == <<status, settled, bill, balance>>
vars == <<db, screen, hand, lastCancel, told>>

Idle == [act |-> "none", on |-> None, bill |-> None, seen |-> 0, lines |-> {}]

OrderOf(l) == CHOOSE o \in Order : l \in Lines[o]
Total(b) == Cardinality(bill[b].items) - bill[b].spent
Remaining(b) == Total(b) - bill[b].paid
IsOpen(b) == bill[b].status \in OpenStatus

\* The orders of the BillOrder rows of a bill.
OrdersIn(b) == {OrderOf(l) : l \in bill[b].items}

\* The bill an order line is active in, if any.
BillOfLine(l) == {b \in Bill : l \in bill[b].items}
ActiveLines(o) == {l \in Lines[o] : BillOfLine(l) # {}}

\* unbilled_open_orders_for_partner
Unbilled == {o \in Order \ settled : status[o] # "canceled" /\ \A b \in Bill : o \notin OrdersIn(b)}

\* awaits_transfer_check
AwaitsCheck(o) == o \in Pickup /\ o \notin settled /\ status[o] = "new"

-----------------------------------------------------------------------------
(* What a message shows *)

Button(act, x) == [act |-> act, on |-> x]
When(shown, button) == IF shown THEN {button} ELSE {}

\* OrderRepository.open_for_partner: whatever is not canceled, or completed and paid.
OpenOrders == {o \in Order : status[o] # "canceled" /\ ~(status[o] = "completed" /\ o \in settled)}

\* A new order can be taken from the list, be its transfer checked or not.
OrderList == {Button("order", o) : o \in OpenOrders}
             \cup {Button("accepted", o) : o \in {p \in OpenOrders : status[p] = "new"}}

\* An order that waits for the check of its transfer offers nothing else.
OrderActions(o) == IF AwaitsCheck(o) THEN {Button("confirm", o), Button("ask reject", o)}
                                     ELSE {Button(to, o) : to \in Offered[status[o]]}

OrderCard(o) == {Button("order", o)} \cup OrderActions(o)

RejectQuestion(o) == {Button("reject", o), Button("order", o)}

\* The orders without a bill; a card of each open bill follows.
BillingOverview == {Button("order", o) : o \in Unbilled}
                   \cup When(Unbilled \cap AtTable # {}, Button("table", None))

\* get_redeemable_bonus_amount, with the whole bill payable in bonuses.
Redeemable(b) == IF balance < Total(b) THEN balance ELSE Total(b)

MaySpendBonuses(b) == IsOpen(b) /\ bill[b].spent = 0 /\ bill[b].paid = 0 /\ Redeemable(b) > 0

MayEdit(e, b) == IsOpen(b) /\ e \in Adjuster /\ bill[b].spent = 0

\* What the question was asked about is trusted.
MayVoid_BugAsked(e, b) == e \in Adjuster /\ bill[b].paid = 0

MayVoid(e, b) == IsOpen(b) /\ e \in Adjuster /\ bill[b].paid = 0

BillCard(e, b) ==
    {Button("bill", b)}
    \cup When(bill[b].status = "draft", Button("issue", b))
    \cup When(MaySpendBonuses(b), Button("bonuses", b))
    \cup When(IsOpen(b) /\ Remaining(b) > 0, Button("pay", b))
    \cup When(MayEdit(e, b) /\ bill[b].items # {}, Button("edit", b))
    \cup When(MayVoid(e, b), Button("ask void", b))

EditCard(b) == {Button("bill", b)} \cup {Button("ask remove", l) : l \in bill[b].items}
               \cup {Button("ask cancel", o) : o \in OrdersIn(b)}

\* One button for each reason.
ReasonCard(act, x, b) == {Button(act, x), Button("bill", b)}

DoneCard(b) == {Button("bill", b)}

\* The card of the table; its guests and visits are in Visits and TableBills.
TablesOverview == {Button("table", None)}
TableCard == When(Unbilled \cap AtTable # {}, Button("make bill", None))

-----------------------------------------------------------------------------

Tapped(e, act, x) == hand[e] = Idle /\ Button(act, x) \in screen[e]

Show(e, buttons) == screen' = [screen EXCEPT ![e] = buttons]

\* The lists can be had at any time, from the home keyboard and from each other.
ListOrders(e) == hand[e] = Idle /\ Show(e, OrderList) /\ UNCHANGED <<db, hand, lastCancel, told>>

ListBills(e) ==
    /\ hand[e] = Idle /\ e \in Cashier
    /\ Show(e, BillingOverview) \/ \E b \in Bill : IsOpen(b) /\ Show(e, BillCard(e, b))
    /\ UNCHANGED <<db, hand, lastCancel, told>>

ListTables(e) == hand[e] = Idle /\ e \in Cashier /\ Show(e, TablesOverview)
                 /\ UNCHANGED <<db, hand, lastCancel, told>>

OpenOrder(e, o) == Tapped(e, "order", o) /\ Show(e, OrderCard(o))
                   /\ UNCHANGED <<db, hand, lastCancel, told>>

OpenTable(e) == Tapped(e, "table", None) /\ Show(e, TableCard)
                /\ UNCHANGED <<db, hand, lastCancel, told>>

OpenBill(e, b) == Tapped(e, "bill", b) /\ Show(e, BillCard(e, b))
                  /\ UNCHANGED <<db, hand, lastCancel, told>>

AskReject(e, o) == Tapped(e, "ask reject", o) /\ AwaitsCheck(o) /\ Show(e, RejectQuestion(o))
                   /\ UNCHANGED <<db, hand, lastCancel, told>>

OpenEdit(e, b) == Tapped(e, "edit", b) /\ MayEdit(e, b) /\ Show(e, EditCard(b))
                  /\ UNCHANGED <<db, hand, lastCancel, told>>

AskRemove(e, l) ==
    /\ Tapped(e, "ask remove", l)
    /\ \E b \in BillOfLine(l) : Show(e, ReasonCard("remove", l, b))
    /\ UNCHANGED <<db, hand, lastCancel, told>>

AskCancel(e, o) ==
    /\ Tapped(e, "ask cancel", o)
    /\ \E l \in Lines[o] : \E b \in BillOfLine(l) : Show(e, ReasonCard("cancel", o, b))
    /\ UNCHANGED <<db, hand, lastCancel, told>>

AskVoid(e, b) == Tapped(e, "ask void", b) /\ MayVoid(e, b) /\ Show(e, ReasonCard("void", b, b))
                 /\ UNCHANGED <<db, hand, lastCancel, told>>

-----------------------------------------------------------------------------
(* The orders *)

\* transition_order_status
CanMove(o, to) ==
    /\ to \in Allowed[status[o]]
    /\ to = "accepted" /\ o \in Pickup => o \in settled
    /\ to = "canceled" => ActiveLines(o) = {}

\* A status button, but for the one that cancels: a refusal shows the order as it is.
Move(e, o, to) ==
    /\ Tapped(e, to, o) /\ to \in Status \ {"canceled"}
    /\ status' = IF CanMove(o, to) THEN [status EXCEPT ![o] = to] ELSE status
    /\ UNCHANGED <<settled, bill, balance, hand, lastCancel, told>>
    /\ Show(e, OrderCard(o)')

\* cancel_order, from the card of the order and from that of its bill, reads the lines first;
\* a billed order is refused without a reason, and so is a paid one.
TapCancel(e, o, act) ==
    /\ act \in {"canceled", "cancel"} /\ Tapped(e, act, o)
    /\ act = "canceled" => ActiveLines(o) = {}
    /\ \A l \in ActiveLines(o) : \A b \in BillOfLine(l) : bill[b].status # "paid"
    /\ hand' = [hand EXCEPT ![e] = [Idle EXCEPT !.act = act, !.on = o, !.lines = ActiveLines(o),
           !.bill = IF ActiveLines(o) = {} THEN None
                    ELSE CHOOSE b \in Bill : bill[b].items \cap Lines[o] # {}]]
    /\ UNCHANGED <<db, screen, lastCancel, told>>

\* remove_bill_lines: the lines are those of the bill still, and it may be changed.
MayRemove(e, b, ls) ==
    /\ MayEdit(e, b) /\ ls \subseteq bill[b].items
    /\ Cardinality(bill[b].items \ ls) >= bill[b].paid

\* The lines a command has read are removed, and the order must have no other.
CanCancel(e, o, b, ls) ==
    /\ "canceled" \in Allowed[status[o]] /\ ActiveLines(o) \subseteq ls
    /\ b # None => MayRemove(e, b, ls)

\* The card shown at the end is that of the last order this employee has taken from a bill, which
\* is another one when the lines were gone; the first time there is none, and nothing is shown.
Cancel(e, o) ==
    LET b == hand[e].bill
        ok == CanCancel(e, o, b, hand[e].lines) IN
    /\ hand[e].act \in {"cancel", "canceled"} /\ hand[e].on = o
    /\ hand' = [hand EXCEPT ![e] = Idle]
    /\ status' = IF ok THEN [status EXCEPT ![o] = "canceled"] ELSE status
    /\ bill' = IF ok /\ b # None THEN [bill EXCEPT ![b].items = @ \ hand[e].lines] ELSE bill
    /\ lastCancel' = IF ok /\ b # None THEN [lastCancel EXCEPT ![e] = b] ELSE lastCancel
    /\ UNCHANGED <<settled, balance, told>>
    /\ CASE hand[e].act = "canceled" -> Show(e, OrderCard(o)')
         [] ok /\ hand[e].act = "cancel" /\ lastCancel'[e] # None -> Show(e, DoneCard(lastCancel'[e]))
         [] OTHER -> UNCHANGED screen

-----------------------------------------------------------------------------
(* The transfer of a pickup order *)

\* _order_bill: a bill in force is linked to the order.
TransferBill(o) == {b \in Bill : o \in OrdersIn(b) /\ bill[b].status # "canceled"}

\* _sync_orders_after_bill_paid
Settle(b) ==
    /\ settled' = settled \cup OrdersIn(b)
    /\ status' = [o \in Order |-> IF o \in OrdersIn(b) /\ status[o] \in {"ready", "delivering"}
                                  THEN "completed" ELSE status[o]]

\* The handler shows the order as it has become.
Answer(e, o, what) == told' = told \cup {<<o, what>>} /\ Show(e, OrderCard(o)')

\* confirm_transfer: what the bill is short of is the transfer, and the order goes into work.
Confirm(e, o) ==
    /\ Tapped(e, "confirm", o) /\ e \in Cashier
    /\ \E b \in TransferBill(o) :
          /\ AwaitsCheck(o) /\ IsOpen(b) /\ Remaining(b) > 0
          /\ bill' = [bill EXCEPT ![b].paid = @ + Remaining(b), ![b].status = "paid"]
    /\ settled' = settled \cup {o}
    /\ status' = [status EXCEPT ![o] = "accepted"]
    /\ UNCHANGED <<balance, hand, lastCancel>>
    /\ Answer(e, o, "confirmed")

\* The question was about an order that waited; what became of it since is not looked at.
MayReject_BugAsked(o, b) == bill[b].status # "canceled"

\* reject_transfer: the order still waits, and no money has come.
MayReject(o, b) == AwaitsCheck(o) /\ bill[b].status # "paid" /\ bill[b].paid = 0

\* _void_locked_bill
Voided(b) == [bill[b] EXCEPT !.status = "canceled", !.items = {}]

Reject(e, o) ==
    /\ Tapped(e, "reject", o) /\ e \in Cashier
    /\ \E b \in TransferBill(o) :
          /\ MayReject(o, b)
          /\ bill' = [bill EXCEPT ![b] = Voided(b)]
          /\ balance' = balance + bill[b].spent
    /\ status' = [status EXCEPT ![o] = "canceled"]
    /\ UNCHANGED <<settled, hand, lastCancel>>
    /\ Answer(e, o, "rejected")

-----------------------------------------------------------------------------
(* The bills *)

\* "Make a bill" on the card of the table, with create_bill_from_orders.
MakeBill(e) ==
    /\ Tapped(e, "make bill", None) /\ Unbilled \cap AtTable # {}
    /\ \E b \in Bill :
          /\ bill[b].status = "absent"
          /\ bill' = [bill EXCEPT ![b].status = "draft",
                                  ![b].items = UNION {Lines[o] : o \in Unbilled \cap AtTable}]
    /\ UNCHANGED <<orderVars, balance, hand, lastCancel, told>>
    /\ Show(e, TableCard')

Issue(e, b) ==
    /\ Tapped(e, "issue", b) /\ bill[b].status = "draft"
    /\ bill' = [bill EXCEPT ![b].status = "issued"]
    /\ UNCHANGED <<orderVars, balance, hand, lastCancel, told>>
    /\ Show(e, BillCard(e, b)')

\* The handler reads what the bill is short of at the tap, whatever the card showed.
TapPay(e, b) ==
    /\ Tapped(e, "pay", b)
    /\ hand' = [hand EXCEPT ![e] = [Idle EXCEPT !.act = "pay", !.on = b, !.seen = Remaining(b)]]
    /\ UNCHANGED <<db, screen, lastCancel, told>>

\* The amount was right when it was read.
MayRecord_BugSeen(b, amount) == amount > 0

\* record_payment, of the locked bill.
MayRecord(b, amount) == IsOpen(b) /\ 0 < amount /\ amount <= Remaining(b)

Pay(e, b) ==
    LET amount == hand[e].seen IN
    /\ hand[e].act = "pay" /\ hand[e].on = b
    /\ hand' = [hand EXCEPT ![e] = Idle] /\ UNCHANGED <<balance, lastCancel, told>>
    /\ IF MayRecord(b, amount)
       THEN /\ bill' = [bill EXCEPT ![b].paid = @ + amount,
                   ![b].status = IF amount = Remaining(b) THEN "paid" ELSE "partially_paid"]
            /\ IF amount = Remaining(b) THEN Settle(b) ELSE UNCHANGED orderVars
            /\ Show(e, BillCard(e, b)')
       ELSE UNCHANGED <<bill, orderVars, screen>>

\* pay_bill_with_bonuses
PayWithBonuses(e, b) ==
    /\ Tapped(e, "bonuses", b) /\ MaySpendBonuses(b)
    /\ balance' = balance - Redeemable(b)
    /\ bill' = [bill EXCEPT ![b].spent = Redeemable(b),
           ![b].status = IF Redeemable(b) = Total(b) THEN "paid" ELSE "issued"]
    /\ IF Redeemable(b) = Total(b) THEN Settle(b) ELSE UNCHANGED orderVars
    /\ UNCHANGED <<hand, lastCancel, told>>
    /\ Show(e, BillCard(e, b)')

\* The bill the line is in is read before it is locked.
TapRemove(e, l) ==
    /\ Tapped(e, "remove", l)
    /\ \E b \in BillOfLine(l) :
          hand' = [hand EXCEPT ![e] = [Idle EXCEPT !.act = "remove", !.bill = b, !.lines = {l}]]
    /\ UNCHANGED <<db, screen, lastCancel, told>>

Remove(e) ==
    LET b == hand[e].bill IN
    /\ hand[e].act = "remove"
    /\ hand' = [hand EXCEPT ![e] = Idle]
    /\ IF MayRemove(e, b, hand[e].lines)
       THEN bill' = [bill EXCEPT ![b].items = @ \ hand[e].lines] /\ Show(e, DoneCard(b))
       ELSE UNCHANGED <<bill, screen>>
    /\ UNCHANGED <<orderVars, balance, lastCancel, told>>

\* void_bill
Void(e, b) ==
    /\ Tapped(e, "void", b) /\ MayVoid(e, b)
    /\ bill' = [bill EXCEPT ![b] = Voided(b)]
    /\ balance' = balance + bill[b].spent
    /\ Show(e, DoneCard(b))
    /\ UNCHANGED <<orderVars, hand, lastCancel, told>>

-----------------------------------------------------------------------------
NoBill == [status |-> "absent", items |-> {}, paid |-> 0, spent |-> 0]

\* The pickup orders wait for the check of their transfer; part was paid with bonuses, or none.
Init ==
    /\ status = [o \in Order |-> "new"] /\ settled = {}
    /\ \E spent \in [Pickup -> 0..Bonuses] :
          /\ \A o \in Pickup : spent[o] < Cardinality(Lines[o])
          /\ balance = Bonuses - SumFunctionOnSet(spent, Pickup) /\ balance \in Nat
          /\ bill = [b \in Bill |-> IF \E o \in Pickup : PickupBill[o] = b
                THEN LET o == CHOOSE p \in Pickup : PickupBill[p] = b IN
                     [NoBill EXCEPT !.status = "issued", !.items = Lines[o], !.spent = spent[o]]
                ELSE NoBill]
    /\ screen = [e \in Employee |-> {}] /\ hand = [e \in Employee |-> Idle]
    /\ lastCancel = [e \in Employee |-> None] /\ told = {}

Looks(e) ==
    \/ ListOrders(e) \/ ListBills(e) \/ ListTables(e) \/ OpenTable(e)
    \/ \E o \in Order : OpenOrder(e, o) \/ AskReject(e, o) \/ AskCancel(e, o)
    \/ \E b \in Bill : OpenBill(e, b) \/ OpenEdit(e, b) \/ AskVoid(e, b)
    \/ \E l \in Line : AskRemove(e, l)

Works(e) ==
    \/ \E o \in Order : \/ Confirm(e, o)
                        \/ Reject(e, o)
                        \/ \E to \in Status : Move(e, o, to) \/ TapCancel(e, o, to)
                        \/ TapCancel(e, o, "cancel")
                        \/ Cancel(e, o)
    \/ \E b \in Bill : Issue(e, b) \/ TapPay(e, b) \/ Pay(e, b) \/ PayWithBonuses(e, b)
                       \/ Void(e, b)
    \/ \E l \in Line : TapRemove(e, l)
    \/ MakeBill(e) \/ Remove(e)

Next == \E e \in Employee : Looks(e) \/ Works(e)

Spec == Init /\ [][Next]_vars

-----------------------------------------------------------------------------
(* Properties *)

\* A transfer is settled once, whatever cards are tapped: nobody is told that it has come while
\* somebody else is told that it has not; when it has, the order is in work and its bill paid to
\* the end; when it has not, the order is canceled and no money lies on a bill that was voided.
TransferSettledOnce ==
    \A o \in Pickup :
        LET b == bill[PickupBill[o]] IN
        /\ <<o, "confirmed">> \in told =>
              /\ <<o, "rejected">> \notin told
              /\ o \in settled /\ status[o] \notin {"new", "canceled"}
              /\ b.status = "paid" /\ Remaining(PickupBill[o]) = 0
        /\ <<o, "rejected">> \in told =>
              status[o] = "canceled" /\ o \notin settled /\ b.status = "canceled" /\ b.paid = 0

\* A bill is paid once, however many cards offer to take its payment: no more is taken than it
\* asks for, a paid bill asks for nothing more, and one that was voided has taken nothing.
PaidOnce ==
    \A b \in Bill : /\ bill[b].status # "canceled" => Remaining(b) >= 0
                    /\ bill[b].status = "paid" => Remaining(b) = 0
                    /\ bill[b].status = "canceled" => bill[b].paid = 0

\* The bonuses of the guest are on the account or on one bill in force, whichever of a bill card,
\* a rejected transfer and a voided bill spends or returns them.
BonusesWhole ==
    balance + SumFunctionOnSet([b \in Bill |-> bill[b].spent],
                               {b \in Bill : bill[b].status # "canceled"}) = Bonuses

=============================================================================
