----------------------------- MODULE TableBills -----------------------------
(***************************************************************************)
(* How a visit asks for its bills and settles them,                        *)
(* apps/billing/table_bills.py: the requests of the guests, the bills they *)
(* and the staff prepare, and what a payment does to the requests and the  *)
(* sessions of the table within its own transaction.                       *)
(*                                                                         *)
(* One visit, one session per guest.  A command that prepares bills is     *)
(* three steps: it looks for an open bill, it looks for the orders not yet *)
(* billed (both without a lock), and it locks, checks and commits.  A      *)
(* payment, or a removal of lines that leaves what is paid already, locks  *)
(* its bill and then takes a step for every list it reads and every row it *)
(* locks: requests, sessions and, with the first session it closes, the    *)
(* visit.  The staff and a guest who moves to another table close a        *)
(* session in the same way.  The writes appear with the commit, and a      *)
(* raised error rolls all of it back.  The other commands take their locks *)
(* at once.  The money of a bill is in Billing; joining a visit, and the   *)
(* command that closes a whole one, are in Visits.                         *)
(*                                                                         *)
(* Orders, bills and requests are numbered as they are made; the numbers   *)
(* bound how many there are.  The time between two like requests is not    *)
(* kept: a guest who is refused for asking too soon changes nothing.       *)
(* An operator X_Bug... is X with a plausible bug; nothing uses it here.   *)
(***************************************************************************)
EXTENDS Integers, FiniteSets, FiniteSetsExt

CONSTANTS
    Guest,        \* guests of the visit
    Cashier,      \* who takes payments and closes sessions, one each at a time
    Manager,      \* whoever prepares the bills of the table for the staff
    Wants,        \* who may ask for which bills, a bound on the instance
    Places,       \* who may place which order, a bound on the instance
    AutoClose,    \* PartnerBotSettings.auto_close_table_session_after_payment
    MaxOrders, MaxBills, MaxRequests,
    MaxActs,      \* bound on what happens at the table besides asking and paying
    MaxWork,      \* bound on that and the orders together
    None          \* no guest

Order   == 1..MaxOrders
Bill    == 1..MaxBills
Request == 1..MaxRequests
Asker   == Guest \cup {Manager}
Type    == {"personal", "shared", "custom_split"}

ASSUME TableBillsAssumption ==
    /\ IsFiniteSet(Cashier)
    /\ AutoClose \in BOOLEAN
    /\ \A w \in Wants : w \in Asker \X Type /\ w # <<Manager, "custom_split">>
    /\ MaxOrders \in Nat /\ MaxBills \in Nat /\ MaxRequests \in Nat /\ MaxActs \in Nat
    /\ MaxWork \in Nat
    /\ Manager \notin Guest /\ None \notin Guest

VARIABLES
    active,       \* guests whose TableSession is active
    status,       \* Order.status: "new" until it is ready, then "served"
    guestOf,      \* Order.guest
    paid,         \* orders with paid_at
    billOf,       \* the bill with an active line of the order, 0 if there is none
    billStatus,   \* Bill.status, "open" for draft, issued and partially paid
    kind,         \* Bill.kind
    primary,      \* Bill.primary_guest
    reqStatus,    \* BillingRequest.status
    reqGuest,     \* BillingRequest.guest, who stands for the session
    reqBill,      \* BillingRequest.bill, 0 for null
    ask,          \* the preparation of bills under way
    pay,          \* the payments and closings under way
    acts          \* how much of what MaxActs bounds has happened

orderVars == <<status, guestOf, paid>>
billVars == <<billOf, billStatus, kind, primary>>
requestVars == <<reqStatus, reqGuest, reqBill>>
vars == <<active, status, guestOf, paid, billOf, billStatus, kind, primary,
          reqStatus, reqGuest, reqBill, ask, pay, acts>>

-----------------------------------------------------------------------------
(* Reading *)

Made(state) == {n \in DOMAIN state : state[n] # "absent"}

\* The primary key of the next row.
NextKey(state) == Cardinality(Made(state)) + 1

Pending == {r \in Request : reqStatus[r] \in {"open", "auto_prepared"}}

OrdersOf(g) == {o \in Made(status) : guestOf[o] = g}
LinesOf(b) == {o \in Order : billOf[o] = b}

\* get_table_billable_orders
Billable == {o \in Made(status) : status[o] # "canceled" /\ billOf[o] = 0}

\* can_close_table_session without its look at the cart and the requests, for who sees the
\* payment of os.
Settled(g, os) ==
    /\ \A o \in OrdersOf(g) : status[o] = "canceled" \/ (status[o] = "served" /\ o \in paid \cup os)
    /\ \A b \in {billOf[o] : o \in OrdersOf(g)} \ {0} :
          billStatus[b] # "open" \/ LinesOf(b) \subseteq os

-----------------------------------------------------------------------------
(* Transactions *)

NoAsk == [step |-> "idle", type |-> "shared", bill |-> 0, orders |-> {}]

NoPay == [step |-> "idle", bill |-> 0, dropped |-> {}, listed |-> {}, sessions |-> {},
          session |-> None, marked |-> {}, held |-> {}, visit |-> FALSE]

\* The orders a payment pays: those of its bill but the ones it takes out.
Covered(c) == IF pay[c].bill = 0 THEN {} ELSE LinesOf(pay[c].bill) \ pay[c].dropped

BillLocked(b) == \E c \in Cashier : pay[c].bill = b
OrderLocked(o) == \E c \in Cashier : o \in Covered(c)
RequestLocked(r) == \E c \in Cashier : r \in pay[c].marked
SessionLocked(g) == \E c \in Cashier : g \in pay[c].held
VisitLocked == \E c \in Cashier : pay[c].visit

Init ==
    /\ active = Guest
    /\ status = [o \in Order |-> "absent"] /\ guestOf = [o \in Order |-> None] /\ paid = {}
    /\ billOf = [o \in Order |-> 0] /\ billStatus = [b \in Bill |-> "absent"]
    /\ kind = [b \in Bill |-> "shared"] /\ primary = [b \in Bill |-> None]
    /\ reqStatus = [r \in Request |-> "absent"]
    /\ reqGuest = [r \in Request |-> None] /\ reqBill = [r \in Request |-> 0]
    /\ ask = [a \in Asker |-> NoAsk] /\ pay = [c \in Cashier |-> NoPay] /\ acts = 0

\* One more of the acts that are bounded.
OneAct == acts < MaxActs /\ NextKey(status) + acts <= MaxWork /\ acts' = acts + 1

-----------------------------------------------------------------------------
(* Guests and the kitchen *)

\* checkout_active_cart_for_telegram_user, seen from the bills.
Checkout(g) ==
    /\ g \in active /\ ~SessionLocked(g)
    /\ NextKey(status) \in Order /\ <<NextKey(status), g>> \in Places
    /\ NextKey(status) + acts <= MaxWork
    /\ status' = [status EXCEPT ![NextKey(status)] = "new"]
    /\ guestOf' = [guestOf EXCEPT ![NextKey(status)] = g]
    /\ UNCHANGED <<active, paid, billVars, requestVars, ask, pay, acts>>

\* A payment under way holds the orders it pays.
ServeOrder(o) ==
    /\ status[o] = "new" /\ ~OrderLocked(o)
    /\ status' = [status EXCEPT ![o] = "served"]
    /\ UNCHANGED <<active, guestOf, paid, billVars, requestVars, ask, pay, acts>>

\* An order that no bill has is given up.
CancelOrder(o) ==
    /\ status[o] = "new" /\ billOf[o] = 0
    /\ status' = [status EXCEPT ![o] = "canceled"]
    /\ OneAct
    /\ UNCHANGED <<active, guestOf, paid, billVars, requestVars, ask, pay>>

-----------------------------------------------------------------------------
(* Preparing bills *)

\* Open bills of that kind which the asker may extend.
Extendable(a, type) ==
    {b \in Bill : billStatus[b] = "open" /\ kind[b] = type /\ (type = "personal" => primary[b] = a)}

\* request_bill_callback: a guest who sits at the table looks for a bill to extend.
GuestAsks(g, type) ==
    /\ g \in active /\ ask[g] = NoAsk /\ <<g, type>> \in Wants
    /\ ask' = [ask EXCEPT ![g] = [NoAsk EXCEPT
           !.step = IF type = "custom_split" THEN "write" ELSE "orders", !.type = type,
           !.bill = Max({0} \cup Extendable(g, type))]]
    /\ UNCHANGED <<active, orderVars, billVars, requestVars, pay, acts>>

\* The buttons of a table card: the staff always makes new bills.
StaffAsks(type) ==
    /\ ask[Manager] = NoAsk /\ <<Manager, type>> \in Wants
    /\ ask' = [ask EXCEPT ![Manager] = [NoAsk EXCEPT !.step = "orders", !.type = type]]
    /\ OneAct
    /\ UNCHANGED <<active, orderVars, billVars, requestVars, pay>>

FindOrders(a) ==
    /\ ask[a].step = "orders"
    /\ ask' = [ask EXCEPT ![a].step = "write",
                          ![a].orders = {o \in Billable : ask[a].type = "personal" /\ a \in Guest
                                                             => guestOf[o] = a}]
    /\ UNCHANGED <<active, orderVars, billVars, requestVars, pay, acts>>

\* Nothing is locked when there is nothing to add.
AttachAllowed_BugNoLock(b, os) ==
    os # {} => /\ ~BillLocked(b)
               /\ billStatus[b] = "open" /\ \A o \in os : status[o] # "canceled" /\ billOf[o] \in {0, b}

\* attach_orders_to_bill: the bill is locked and open, and the orders are still free.
AttachAllowed(b, os) ==
    /\ ~BillLocked(b)
    /\ billStatus[b] = "open"
    /\ \A o \in os : status[o] # "canceled" /\ billOf[o] \in {0, b}

\* create_bill_from_orders, with the orders locked.
CreateAllowed(os) == os # {} /\ \A o \in os : status[o] # "canceled" /\ billOf[o] = 0

\* What the request is stored with, once the session of the guest is free.
StoreRequest(a, b) ==
    LET r == NextKey(reqStatus) IN
    /\ r \in Request /\ ~SessionLocked(a)
    /\ reqStatus' = [reqStatus EXCEPT ![r] = IF b = 0 THEN "open" ELSE "auto_prepared"]
    /\ reqGuest' = [reqGuest EXCEPT ![r] = a]
    /\ reqBill' = [reqBill EXCEPT ![r] = b]

AskExtends(a) ==
    /\ a \in Guest /\ ask[a].step = "write" /\ ask[a].bill # 0
    /\ AttachAllowed(ask[a].bill, ask[a].orders)
    /\ billOf' = [o \in Order |-> IF o \in ask[a].orders THEN ask[a].bill ELSE billOf[o]]
    /\ StoreRequest(a, ask[a].bill)
    /\ ask' = [ask EXCEPT ![a] = NoAsk]
    /\ UNCHANGED <<active, orderVars, billStatus, kind, primary, pay, acts>>

\* The bills of one command of the staff, one for each guest of a split.
Shares(a) == IF a = Manager /\ ask[a].type = "personal"
             THEN {OrdersOf(g) \cap ask[a].orders : g \in Guest} \ {{}}
             ELSE {ask[a].orders}

AskCreates(a) ==
    /\ ask[a].step = "write" /\ ask[a].bill = 0 /\ ask[a].type # "custom_split"
    /\ CreateAllowed(ask[a].orders) /\ ~VisitLocked
    /\ NextKey(billStatus) + Cardinality(Shares(a)) - 1 \in Bill
    /\ LET b(os) == NextKey(billStatus) + Cardinality({x \in Shares(a) : Min(x) < Min(os)}) IN
       /\ billOf' = [o \in Order |-> IF o \in ask[a].orders
                                     THEN b(CHOOSE os \in Shares(a) : o \in os) ELSE billOf[o]]
       /\ billStatus' = [x \in Bill |-> IF \E os \in Shares(a) : x = b(os) THEN "open" ELSE billStatus[x]]
       /\ kind' = [x \in Bill |-> IF \E os \in Shares(a) : x = b(os) THEN ask[a].type ELSE kind[x]]
       /\ primary' = [x \in Bill |-> IF \E os \in Shares(a) :
                                           x = b(os) /\ Cardinality({guestOf[o] : o \in os}) = 1
                                     THEN guestOf[Min(CHOOSE os \in Shares(a) : x = b(os))]
                                     ELSE primary[x]]
    /\ IF a = Manager THEN UNCHANGED requestVars ELSE StoreRequest(a, NextKey(billStatus))
    /\ ask' = [ask EXCEPT ![a] = NoAsk]
    /\ UNCHANGED <<active, orderVars, pay, acts>>

AskSplit(a) ==
    /\ ask[a].step = "write" /\ ask[a].type = "custom_split"
    /\ StoreRequest(a, 0)
    /\ ask' = [ask EXCEPT ![a] = NoAsk]
    /\ UNCHANGED <<active, orderVars, billVars, pay, acts>>

\* The command raises: the bill has closed, an order is billed or canceled, nothing to bill.
AskFails(a) ==
    /\ ask[a].step = "write" /\ ask[a].type # "custom_split"
    /\ IF ask[a].bill = 0
       THEN ~CreateAllowed(ask[a].orders)
       ELSE ~BillLocked(ask[a].bill) /\ ~AttachAllowed(ask[a].bill, ask[a].orders)
    /\ ask' = [ask EXCEPT ![a] = NoAsk]
    /\ UNCHANGED <<active, orderVars, billVars, requestVars, pay, acts>>

-----------------------------------------------------------------------------
(* Payments *)

\* The orders os leave the bill and the others, which were in it, are paid; those that are
\* served are completed.  _mark_related_billing_requests_processed lists the requests of the bill.
FollowUp(c, b, os) ==
    /\ pay[c] = NoPay /\ billStatus[b] = "open" /\ LinesOf(b) \ os # {} /\ ~BillLocked(b)
    /\ pay' = [pay EXCEPT ![c] = [NoPay EXCEPT
           !.step = "mark bill", !.bill = b, !.dropped = os,
           !.listed = {r \in Pending : reqBill[r] = b}]]
    /\ UNCHANGED <<active, orderVars, billVars, requestVars, ask>>

\* The last money for a bill: record_payment.
BeginPayment(c, b) == FollowUp(c, b, {}) /\ UNCHANGED acts

\* remove_bill_lines leaves as much in the bill as is paid already.
BeginRemoval(c, b) ==
    /\ \E os \in SUBSET LinesOf(b) : os # {} /\ FollowUp(c, b, os)
    /\ OneAct

Marking(c) == pay[c].step \in {"mark bill", "mark session"} /\ pay[c].listed # {}

\* Whatever has become of the request.
MayMark_BugNoReload(c, r) == Marking(c) /\ r \in pay[c].listed /\ ~RequestLocked(r)

\* The request is locked and read again.
MayMark(c, r) ==
    Marking(c) /\ r \in pay[c].listed /\ ~RequestLocked(r) /\ reqStatus[r] # "canceled"

\* mark_billing_request_processed, called by a payment.
MarkRequest(c, r) ==
    /\ MayMark(c, r)
    /\ pay' = [pay EXCEPT ![c].listed = @ \ {r}, ![c].marked = @ \cup {r}]
    /\ UNCHANGED <<active, orderVars, billVars, requestVars, ask, acts>>

MeetsCanceled(c) ==
    Marking(c) /\ \E r \in pay[c].listed : ~RequestLocked(r) /\ reqStatus[r] = "canceled"

\* The error of a canceled request goes up through the payment and rolls it back.
FollowUpRaises(c) ==
    /\ MeetsCanceled(c)
    /\ pay' = [pay EXCEPT ![c] = NoPay]
    /\ UNCHANGED <<active, orderVars, billVars, requestVars, ask, acts>>

\* _close_settled_sessions_of_bill lists the active sessions with an order of the bill.
ListSessions(c) ==
    /\ pay[c].step = "mark bill" /\ pay[c].listed = {}
    /\ pay' = [pay EXCEPT ![c].step = "sessions",
           ![c].sessions = IF AutoClose THEN active \cap {guestOf[o] : o \in Covered(c)} ELSE {}]
    /\ UNCHANGED <<active, orderVars, billVars, requestVars, ask, acts>>

\* One of them, settled in the eyes of the payment, has its requests listed; another, or that
\* of a guest with a cart, is left alone.
ListSessionRequests(c, g) ==
    /\ pay[c].step = "sessions" /\ g \in pay[c].sessions
    /\ \/ /\ Settled(g, Covered(c))
          /\ pay' = [pay EXCEPT ![c].step = "mark session", ![c].session = g,
                 ![c].sessions = @ \ {g},
                 ![c].listed = {r \in Pending \ pay[c].marked : reqGuest[r] = g}]
       \/ pay' = [pay EXCEPT ![c].sessions = @ \ {g}]
    /\ UNCHANGED <<active, orderVars, billVars, requestVars, ask, acts>>

\* The session g is settled in the eyes of the payment, which has marked its requests.
Closable(c, g) ==
    /\ g \in active /\ Settled(g, Covered(c))
    /\ {r \in Pending : reqGuest[r] = g} \subseteq pay[c].marked

\* A session is locked and closed for another reason than a payment: its guest sits down at
\* another table (_close_guest_active_sessions), settled or not, or the staff closes it, which
\* is possible for a settled one only.
BeginClosing(c, g) ==
    /\ pay[c] = NoPay /\ g \in active /\ ~SessionLocked(g)
    /\ pay' = [pay EXCEPT ![c] = [NoPay EXCEPT !.step = "visit", !.held = {g}]]
    /\ OneAct
    /\ UNCHANGED <<active, orderVars, billVars, requestVars, ask>>

\* A session that cannot be closed is tried again until it can.
MayLock_BugRetries(c) ==
    /\ pay[c].step = "mark session" /\ pay[c].listed = {} /\ ~SessionLocked(pay[c].session)
    /\ Closable(c, pay[c].session)

MayLock(c) ==
    pay[c].step = "mark session" /\ pay[c].listed = {} /\ ~SessionLocked(pay[c].session)

\* close_table_session_if_settled locks the session and looks again.  The session is kept when
\* it is to be closed and when it has been closed meanwhile; the error of one that may not be
\* closed, for the cart of its guest too, lets go of it and is swallowed.
LockSession(c) ==
    LET g == pay[c].session IN
    /\ MayLock(c)
    /\ \/ /\ Closable(c, g)
          /\ pay' = [pay EXCEPT ![c].step = "visit", ![c].held = @ \cup {g}]
       \/ /\ g \notin active
          /\ pay' = [pay EXCEPT ![c].step = "sessions", ![c].session = None, ![c].held = @ \cup {g}]
       \/ /\ g \in active
          /\ pay' = [pay EXCEPT ![c].step = "sessions", ![c].session = None]
    /\ UNCHANGED <<active, orderVars, billVars, requestVars, ask, acts>>

MayLockVisit(c) == pay[c].step = "visit" /\ \A d \in Cashier \ {c} : ~pay[d].visit

\* _close_visit_if_finished locks the visit of the session.
LockVisit(c) ==
    /\ MayLockVisit(c)
    /\ pay' = [pay EXCEPT ![c].step = "sessions", ![c].session = None, ![c].visit = TRUE]
    /\ UNCHANGED <<active, orderVars, billVars, requestVars, ask, acts>>

MayCommit(c) == pay[c].step = "sessions" /\ pay[c].sessions = {}

\* With cancel_order, the one order taken out of the bill is canceled as well.
Commit(c) ==
    /\ MayCommit(c)
    /\ \E cs \in SUBSET pay[c].dropped :
          /\ cs # {} => Cardinality(pay[c].dropped) = 1 /\ \A o \in cs : status[o] = "new"
          /\ status' = [o \in Order |-> IF o \in cs THEN "canceled" ELSE status[o]]
    /\ billStatus' = [b \in Bill |-> IF b = pay[c].bill THEN "paid" ELSE billStatus[b]]
    /\ billOf' = [o \in Order |-> IF o \in pay[c].dropped THEN 0 ELSE billOf[o]]
    /\ paid' = paid \cup Covered(c)
    /\ reqStatus' = [r \in Request |-> IF r \in pay[c].marked THEN "processed" ELSE reqStatus[r]]
    /\ active' = active \ pay[c].held
    /\ pay' = [pay EXCEPT ![c] = NoPay]
    /\ UNCHANGED <<guestOf, kind, primary, reqGuest, reqBill, ask, acts>>

\* Or the order cannot be canceled any more, and everything is rolled back.
CancelFails(c) ==
    /\ MayCommit(c) /\ \E o \in pay[c].dropped : status[o] # "new"
    /\ pay' = [pay EXCEPT ![c] = NoPay]
    /\ UNCHANGED <<active, orderVars, billVars, requestVars, ask, acts>>

\* One waits for a request, a session or the visit that the other has locked.
WaitsFor(c, d) ==
    /\ c # d
    /\ \/ Marking(c) /\ pay[c].listed \cap pay[d].marked # {}
       \/ pay[c].step = "mark session" /\ pay[c].listed = {} /\ pay[c].session \in pay[d].held
       \/ pay[c].step = "visit" /\ pay[d].visit

\* Each of D waits for one of D.
Circle(D) == D # {} /\ \A c \in D : \E d \in D : WaitsFor(c, d)

\* A circle that has no smaller one inside.
Deadlocked(c) ==
    \E D \in SUBSET Cashier : c \in D /\ Circle(D) /\ \A E \in SUBSET D : Circle(E) => E = D

\* PostgreSQL rolls back one of the transactions that wait in a circle.
BreakDeadlock(c) ==
    /\ Deadlocked(c)
    /\ pay' = [pay EXCEPT ![c] = NoPay]
    /\ UNCHANGED <<active, orderVars, billVars, requestVars, ask, acts>>

-----------------------------------------------------------------------------
(* The staff *)

\* void_bill frees the orders and opens the requests of the bill again.
VoidBill(b) ==
    /\ billStatus[b] = "open" /\ ~BillLocked(b)
    /\ \A r \in Pending : reqBill[r] = b => ~RequestLocked(r)
    /\ billStatus' = [billStatus EXCEPT ![b] = "canceled"]
    /\ billOf' = [o \in Order |-> IF billOf[o] = b THEN 0 ELSE billOf[o]]
    /\ reqStatus' = [r \in Request |-> IF r \in Pending /\ reqBill[r] = b THEN "open" ELSE reqStatus[r]]
    /\ reqBill' = [r \in Request |-> IF r \in Pending /\ reqBill[r] = b THEN 0 ELSE reqBill[r]]
    /\ OneAct
    /\ UNCHANGED <<active, orderVars, kind, primary, reqGuest, ask, pay>>

\* remove_bill_lines takes the orders os out of a bill, perhaps all it has; with cancel_order it
\* is one order, which is canceled.  The requests of the bill stay as they are.
RemoveLines(b, os) ==
    /\ billStatus[b] = "open" /\ ~BillLocked(b)
    /\ os # {} /\ os \subseteq LinesOf(b)
    /\ billOf' = [o \in Order |-> IF o \in os THEN 0 ELSE billOf[o]]
    /\ \/ UNCHANGED status
       \/ \E o \in os : os = {o} /\ status[o] = "new" /\ status' = [status EXCEPT ![o] = "canceled"]
    /\ OneAct
    /\ UNCHANGED <<active, guestOf, paid, billStatus, kind, primary, requestVars, ask, pay>>

\* mark_billing_request_processed and cancel_billing_request, from the card of the request
\* (a custom split only) and from the Admin (any).
FinishRequest(r, final) ==
    /\ r \in Pending /\ ~RequestLocked(r) /\ final \in {"processed", "canceled"}
    /\ reqStatus' = [reqStatus EXCEPT ![r] = final]
    /\ OneAct
    /\ UNCHANGED <<active, orderVars, billVars, reqGuest, reqBill, ask, pay>>

-----------------------------------------------------------------------------

PaymentStep(c) ==
    \/ FollowUpRaises(c) \/ ListSessions(c) \/ LockSession(c) \/ LockVisit(c)
    \/ Commit(c) \/ CancelFails(c) \/ BreakDeadlock(c)
    \/ \E r \in Request : MarkRequest(c, r)
    \/ \E g \in Guest : ListSessionRequests(c, g)

Next ==
    \/ \E g \in Guest : Checkout(g) \/ \E type \in Type : GuestAsks(g, type)
    \/ \E type \in Type : StaffAsks(type)
    \/ \E o \in Order : ServeOrder(o) \/ CancelOrder(o)
    \/ \E a \in Asker :
          \/ FindOrders(a) \/ AskExtends(a) \/ AskCreates(a) \/ AskSplit(a) \/ AskFails(a)
    \/ \E c \in Cashier : \/ PaymentStep(c) \/ \E g \in Guest : BeginClosing(c, g)
                          \/ \E b \in Bill : BeginPayment(c, b) \/ BeginRemoval(c, b)
    \/ \E b \in Bill : VoidBill(b) \/ \E os \in SUBSET Order : RemoveLines(b, os)
    \/ \E r \in Request, final \in {"processed", "canceled"} : FinishRequest(r, final)

Spec == Init /\ [][Next]_vars

-----------------------------------------------------------------------------
(* Properties *)

\* A request that still waits for its bill waits for one that is neither paid nor voided: a
\* payment answers the requests of its bill, a void takes them off it, and a guest who asks
\* meanwhile finds the bill locked.  The bill may have been emptied since; then nobody can pay
\* it, and the request waits until the bill is extended or voided.
PendingBillOpen ==
    \A r \in Pending : reqBill[r] # 0 => billStatus[reqBill[r]] = "open"

\* A request that is processed or canceled stays what it is, also for a payment that has
\* listed it before.
RequestsFinal ==
    [][\A r \in Request : reqStatus[r] \in {"processed", "canceled"} => reqStatus'[r] = reqStatus[r]]_vars

\* One of those under way that one of the steps above may take on.
CanGoOn(c) ==
    \/ MeetsCanceled(c) \/ MayLock(c) \/ MayLockVisit(c) \/ MayCommit(c) \/ Deadlocked(c)
    \/ \E r \in Request : MayMark(c, r)
    \/ pay[c].step = "mark bill" /\ pay[c].listed = {}
    \/ pay[c].step = "sessions" /\ pay[c].sessions \cap Guest # {}

\* Payments and closings never all wait: of those under way, one can go on, whatever requests
\* and sessions the others hold and whoever holds the visit.
PaymentsProceed ==
    (\E c \in Cashier : pay[c] # NoPay) => \E c \in Cashier : CanGoOn(c)

\* "Never raises into the payment": what follows a payment does not undo it.
PaymentStands ==
    [][\A c \in Cashier : pay[c].bill # 0 /\ pay[c].dropped = {} /\ pay'[c].step = "idle"
          => billStatus'[pay[c].bill] = "paid"]_vars
=============================================================================
