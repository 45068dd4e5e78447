-------------------------------- MODULE Visits --------------------------------
(***************************************************************************)
(* Table sessions and visits, apps/tables/services.py, with what closes    *)
(* them: the orders of a session, the cart of a guest and the payment of a *)
(* bill (apps/billing/table_bills.py).                                     *)
(*                                                                         *)
(* A scan of a table is three steps of one transaction: it plans with the  *)
(* guest and the table locked but the visits only read; it locks the       *)
(* session and the visit the guest leaves and decides whether that visit   *)
(* closes; it locks the visit the guest joins.  Its writes appear with the *)
(* last step.  The staff command that closes a visit is two: it lists and  *)
(* locks the sessions, then locks the visit.  A command on the cart reads  *)
(* the guest's session without a lock and ties the cart to it, or checks   *)
(* the cart out, in later steps; a guest may have one command of each kind *)
(* under way.  The other commands lock what they read before they decide.  *)
(*                                                                         *)
(* Sessions, visits and orders are numbered as they are made; the numbers  *)
(* bound how many there are.  The variables late, stray and strayCarts are *)
(* history: the code keeps no such record, and no action depends on them.  *)
(* An operator X_Bug... is X with a plausible bug; nothing uses it here.   *)
(***************************************************************************)
EXTENDS Integers, FiniteSets, FiniteSetsExt

CONSTANTS
    Guest,        \* guests of the venue
    Diner,        \* those of them who order, a bound on the instance
    Table,        \* its tables
    MaxSessions,  \* bound on the sessions
    MaxVisits,    \* bound on the visits
    MaxOrders,    \* bound on the orders
    None          \* no guest, no table

ASSUME VisitsAssumption ==
    /\ MaxSessions \in Nat /\ MaxVisits \in Nat /\ MaxOrders \in Nat
    /\ Diner \subseteq Guest /\ None \notin Guest \cup Table

Session == 1..MaxSessions
Visit   == 1..MaxVisits
Order   == 1..MaxOrders

VARIABLES
    visitStatus,    \* TableVisit.status, "absent" before it is made
    tableOf,        \* TableVisit.table
    sessionStatus,  \* TableSession.status
    guestOf,        \* TableSession.guest
    visitOf,        \* TableSession.visit, 0 before it is made
    sessionOf,      \* Order.table_session, 0 before it is made
    paid,           \* orders with paid_at
    received,       \* orders with received_at
    canceled,       \* canceled orders
    cart,           \* the session of a guest's active cart, 0 if there is none
    late,           \* orders stored when their session had closed already
    strayCarts,     \* guests whose active cart was tied to a session that had closed already
    stray,          \* orders of such carts
    scan,           \* a guest's scan under way
    adding,         \* the session a command that fills the cart has read, 0 if there is none
    checkout,       \* the session a checkout under way has read, 0 if there is none
    locked,         \* guests whose checkout has locked the cart
    closing         \* the sessions close_table_visit has listed and locked

visitVars == <<visitStatus, tableOf>>
sessionVars == <<sessionStatus, guestOf, visitOf>>
orderVars == <<sessionOf, paid, received, canceled, late, stray>>
cartVars == <<cart, strayCarts>>
tapVars == <<adding, checkout, locked>>
vars == <<visitStatus, tableOf, sessionStatus, guestOf, visitOf, sessionOf, paid, received,
          canceled, late, strayCarts, stray, cart, scan, adding, checkout, locked, closing>>

-----------------------------------------------------------------------------
(* Reading *)

\* The number n is the next to be given, when those are free that free says.
NextOf(n, free) == free[n] /\ \A i \in DOMAIN free : i < n => ~free[i]

ActiveSessions(status) == {s \in Session : status[s] = "active"}
SessionsOf(g) == {s \in ActiveSessions(sessionStatus) : guestOf[s] = g}
SeatedAt(v, status) == {s \in ActiveSessions(status) : visitOf[s] = v}

OrdersOf(ss) == {o \in Order : sessionOf[o] \in ss}

\* Canceled orders count as well.
Debts_BugCanceled(pd) == {o \in Order : sessionOf[o] # 0} \ pd

\* Orders of a session that are neither paid, given the paid ones, nor canceled.
Debts(pd) == {o \in Order : sessionOf[o] # 0} \ (pd \cup canceled)

\* Only the orders of guests who still sit there count.
Unsettled_BugSeated(v, pd) ==
    OrdersOf(SeatedAt(v, sessionStatus)) \cap Debts(pd) # {}

\* visit_unsettled_reason, with the orders paid that are in pd.
Unsettled(v, pd) == OrdersOf({s \in Session : visitOf[s] = v}) \cap Debts(pd) # {}

\* A cart does not keep a session open.
CanClose_BugNoCart(s, pd) == OrdersOf({s}) \subseteq canceled \cup (pd \cap received)

\* can_close_table_session.
CanClose(s, pd) ==
    /\ \A g \in Guest : cart[g] # s
    /\ OrdersOf({s}) \subseteq canceled \cup (pd \cap received)

\* _close_visit_if_finished: those of the visits vs that close, given what sessions and
\* payments will be.
Finished(vs, status, pd) ==
    {v \in vs : /\ visitStatus[v] = "active"
                /\ SeatedAt(v, status) = {}
                /\ ~Unsettled(v, pd)}

VisitsClosed(vs) == [v \in Visit |-> IF v \in vs THEN "closed" ELSE visitStatus[v]]

ClosedNow(ss) == [s \in Session |-> IF s \in ss THEN "closed" ELSE sessionStatus[s]]

-----------------------------------------------------------------------------
(* Locks *)

NoScan == [phase |-> "none", table |-> None, target |-> 0, explicit |-> FALSE, closes |-> {}]

\* The visits a guest leaves with a scan are those of other sessions than its target's.
VisitsLeft(g) == {visitOf[s] : s \in SessionsOf(g)} \ {scan[g].target}

\* What a scan that has got this far holds locked.
HeldVisits(g) == IF scan[g].phase = "leaving" THEN VisitsLeft(g) ELSE {}
HeldSessions(g) == IF scan[g].phase = "leaving" THEN SessionsOf(g) ELSE {}

\* The scans that have got to the visit they join and wait for h to let go of it.
WaitsFor(g, h) == /\ scan[g].phase = "leaving" /\ g # h
                  /\ scan[g].target \in HeldVisits(h)

\* Scans that wait for one another in a circle.
Deadlocked(g) == \E S \in SUBSET Guest :
                    /\ g \in S
                    /\ \A x \in S : /\ \E y \in S : WaitsFor(x, y)
                                   /\ \E y \in S : WaitsFor(y, x)

VisitFree(v) == \A g \in Guest : v \notin HeldVisits(g)
SessionFree(s) == /\ \A g \in Guest : s \notin HeldSessions(g)
                  /\ \A v \in Visit : s \notin closing[v]

-----------------------------------------------------------------------------
(* Scanning a table: activate_table_session *)

\* Visits of the table where somebody else sits.
Joinable(g, t) ==
    {v \in Visit : /\ visitStatus[v] = "active" /\ tableOf[v] = t
                   /\ \E s \in SeatedAt(v, sessionStatus) : guestOf[s] # g}

\* The visit of the table the guest already sits in.
Membership(g, t) ==
    {v \in Visit : /\ visitStatus[v] = "active" /\ tableOf[v] = t
                   /\ \E s \in SessionsOf(g) : visitOf[s] = v}

\* _plan_visit without an explicit choice: the target, 0 for a new visit.
AutoTarget(g, t) ==
    IF Membership(g, t) # {} THEN Max(Membership(g, t))
    ELSE IF Joinable(g, t) # {} THEN Max(Joinable(g, t)) ELSE 0

\* The guest and the table are locked and the visit is planned; explicit is the
\* choice to join a certain visit, made earlier in the chat.
PlanScan(g, t) ==
    /\ scan[g] = NoScan
    /\ Cardinality({s \in Session : sessionStatus[s] # "absent"})
         + Cardinality({h \in Guest : scan[h] # NoScan}) < MaxSessions
    /\ \A h \in Guest : scan[h].table # t
    /\ \E target \in {0} \cup Visit, explicit \in BOOLEAN :
          /\ \/ explicit /\ target # 0 /\ tableOf[target] = t
             \/ ~explicit /\ target \in {AutoTarget(g, t), 0}
          /\ scan' = [scan EXCEPT ![g] = [phase |-> "planned", table |-> t, target |-> target,
                                          explicit |-> explicit, closes |-> {}]]
    /\ UNCHANGED <<visitVars, sessionVars, orderVars, cartVars, tapVars, closing>>

Leave(g) ==
    /\ scan' = [scan EXCEPT ![g].phase = "leaving",
                            ![g].closes = Finished(VisitsLeft(g), ClosedNow(SessionsOf(g)), paid)]
    /\ UNCHANGED <<visitVars, sessionVars, orderVars, cartVars, tapVars, closing>>

\* The visit left is read without a lock.
LeaveVisits_BugNoLock(g) ==
    /\ scan[g].phase = "planned"
    /\ \A s \in SessionsOf(g) : SessionFree(s)
    /\ Leave(g)

\* _close_guest_active_sessions locks the guest's session and the visit left, and decides
\* whether the visit closes.
LeaveVisits(g) ==
    /\ scan[g].phase = "planned"
    /\ \A s \in SessionsOf(g) : SessionFree(s)
    /\ \A v \in VisitsLeft(g) : VisitFree(v)
    /\ Leave(g)

\* The planned visit is joined without looking at it again.
StillOpen_BugPlanned(v, status) == v # 0

\* Whether the target, now locked, is still active.
StillOpen(v, status) == v # 0 /\ status[v] = "active"

\* The target is locked (_lock_target_visit), and the scan commits.
FinishScan(g) ==
    LET mine == SessionsOf(g)
        target == scan[g].target
        after == VisitsClosed(scan[g].closes)
        Sit(v) == \E s \in Session :
            /\ NextOf(s, [x \in Session |-> sessionStatus[x] = "absent"])
            /\ sessionStatus' = [ClosedNow(mine) EXCEPT ![s] = "active"]
            /\ guestOf' = [guestOf EXCEPT ![s] = g]
            /\ visitOf' = [visitOf EXCEPT ![s] = v]
    IN  /\ scan[g].phase = "leaving"
        /\ target = 0 \/ \A h \in Guest \ {g} : target \notin HeldVisits(h)
        /\ scan' = [scan EXCEPT ![g] = NoScan]
        /\ \/ \* the party sits there: join it
              /\ StillOpen(target, after)
              /\ Sit(target)
              /\ visitStatus' = after
              /\ UNCHANGED tableOf
           \/ \* nobody to join: a visit of one's own
              /\ ~StillOpen(target, after) /\ ~scan[g].explicit
              /\ \E v \in Visit :
                    /\ NextOf(v, [x \in Visit |-> visitStatus[x] = "absent"])
                    /\ Sit(v)
                    /\ visitStatus' = [after EXCEPT ![v] = "active"]
                    /\ tableOf' = [tableOf EXCEPT ![v] = scan[g].table]
           \/ \* the party to join has left: everything is rolled back
              /\ ~StillOpen(target, after) /\ scan[g].explicit
              /\ UNCHANGED <<visitVars, sessionVars>>
        /\ UNCHANGED <<orderVars, cartVars, tapVars, closing>>

\* PostgreSQL breaks a deadlock: the scan of one of the guests is rolled back.
AbortScan(g) ==
    /\ Deadlocked(g)
    /\ scan' = [scan EXCEPT ![g] = NoScan]
    /\ UNCHANGED <<visitVars, sessionVars, orderVars, cartVars, tapVars, closing>>

-----------------------------------------------------------------------------
(* Carts and orders of a session, as far as they keep it open *)

\* A command that fills the guest's cart finds the session the guest sits in.
ReadForCart(g) ==
    /\ g \in Diner /\ adding[g] = 0
    /\ \E s \in SessionsOf(g) : adding' = [adding EXCEPT ![g] = s]
    /\ UNCHANGED <<visitVars, sessionVars, orderVars, cartVars, scan, checkout, locked, closing>>

\* Then it locks the active cart, or makes one, and ties it to that session without looking at
\* the session again.  A cart of that session stays as it is, as does one for pickup, and all
\* stays as it is when the command fails.
TieCart(g) ==
    LET s == adding[g] IN
    /\ s # 0 /\ g \notin locked
    /\ adding' = [adding EXCEPT ![g] = 0]
    /\ \/ /\ cart[g] # s /\ SessionFree(s)
          /\ cart' = [cart EXCEPT ![g] = s]
          /\ strayCarts' = IF sessionStatus[s] = "active" THEN strayCarts \ {g} ELSE strayCarts \cup {g}
       \/ UNCHANGED cartVars
    /\ UNCHANGED <<visitVars, sessionVars, orderVars, scan, checkout, locked, closing>>

\* The guest chooses pickup, or sits nowhere any more: the cart becomes a pickup cart.
UntieCart(g) ==
    /\ g \notin locked /\ cart[g] # 0
    /\ cart' = [cart EXCEPT ![g] = 0]
    /\ strayCarts' = strayCarts \ {g}
    /\ UNCHANGED <<visitVars, sessionVars, orderVars, scan, tapVars, closing>>

\* checkout_active_cart_for_telegram_user finds the session the guest sits in.
ReadForCheckout(g) ==
    /\ g \in Diner /\ checkout[g] = 0
    /\ \E o \in Order : sessionOf[o] = 0
    /\ \E s \in SessionsOf(g) : checkout' = [checkout EXCEPT ![g] = s]
    /\ UNCHANGED <<visitVars, sessionVars, orderVars, cartVars, scan, adding, locked, closing>>

\* Then it locks the cart, which is that of the session it has read.
LockCart(g) ==
    /\ checkout[g] # 0 /\ g \notin locked
    /\ cart[g] = checkout[g]
    /\ locked' = locked \cup {g}
    /\ UNCHANGED <<visitVars, sessionVars, orderVars, cartVars, scan, adding, checkout, closing>>

\* The cart is another's, for pickup or empty: everything is rolled back.
FailCheckout(g) ==
    /\ checkout[g] # 0 /\ g \notin locked
    /\ checkout' = [checkout EXCEPT ![g] = 0]
    /\ UNCHANGED <<visitVars, sessionVars, orderVars, cartVars, scan, adding, locked, closing>>

\* The order is stored under that session, once its row is free, and the cart is
\* checked out.
FinishCheckout(g) ==
    /\ g \in locked
    /\ SessionFree(checkout[g])
    /\ \E o \in Order :
          /\ NextOf(o, [x \in Order |-> sessionOf[x] = 0])
          /\ sessionOf' = [sessionOf EXCEPT ![o] = checkout[g]]
          /\ late' = IF sessionStatus[checkout[g]] = "active" THEN late ELSE late \cup {o}
          /\ stray' = IF g \in strayCarts THEN stray \cup {o} ELSE stray
    /\ cart' = [cart EXCEPT ![g] = 0]
    /\ strayCarts' = strayCarts \ {g}
    /\ checkout' = [checkout EXCEPT ![g] = 0]
    /\ locked' = locked \ {g}
    /\ UNCHANGED <<visitVars, sessionVars, paid, received, canceled, scan, adding, closing>>

\* An order is received: the guest says so or the staff complete it.
ReceiveOrder(o) ==
    /\ sessionOf[o] # 0 /\ o \notin canceled \cup received
    /\ received' = received \cup {o}
    /\ UNCHANGED <<visitVars, sessionVars, sessionOf, paid, canceled, late, stray, cartVars, scan,
                   tapVars, closing>>

\* An order is canceled.
CancelOrder(o) ==
    /\ o \in Debts(paid) \ received
    /\ canceled' = canceled \cup {o}
    /\ UNCHANGED <<visitVars, sessionVars, sessionOf, paid, received, late, stray, cartVars, scan,
                   tapVars, closing>>

-----------------------------------------------------------------------------
(* Closing *)

\* A bill over the orders os of one visit is paid.  If the venue wants it,
\* after_table_bill_paid closes the sessions it settled, and their visits.
PayOrders(os) ==
    /\ os # {} /\ os \subseteq Debts(paid)
    /\ \E v \in Visit : \A o \in os : visitOf[sessionOf[o]] = v
    /\ paid' = paid \cup os
    /\ \E ss \in {{}, {s \in ActiveSessions(sessionStatus) :
                          OrdersOf({s}) \cap os # {} /\ CanClose(s, paid')}} :
          /\ \A s \in ss : SessionFree(s) /\ VisitFree(visitOf[s])
          /\ sessionStatus' = ClosedNow(ss)
          /\ visitStatus' = VisitsClosed(Finished({visitOf[s] : s \in ss}, ClosedNow(ss), paid'))
    /\ UNCHANGED <<tableOf, guestOf, visitOf, sessionOf, received, canceled, late, stray, cartVars,
                   scan, tapVars, closing>>

\* close_table_session_if_settled, by the staff.
CloseSession(s) ==
    /\ sessionStatus[s] = "active"
    /\ SessionFree(s) /\ VisitFree(visitOf[s])
    /\ CanClose(s, paid)
    /\ sessionStatus' = ClosedNow({s})
    /\ visitStatus' = VisitsClosed(Finished({visitOf[s]}, ClosedNow({s}), paid))
    /\ UNCHANGED <<tableOf, guestOf, visitOf, orderVars, cartVars, scan, tapVars, closing>>

NotClosing == {0}

\* close_table_visit lists the active sessions of the visit and locks them.  With a visit that
\* has closed already the command does nothing.
ListSessions(v) ==
    /\ visitStatus[v] = "active"
    /\ closing[v] = NotClosing
    /\ \A s \in SeatedAt(v, sessionStatus) : SessionFree(s)
    /\ closing' = [closing EXCEPT ![v] = SeatedAt(v, sessionStatus)]
    /\ UNCHANGED <<visitVars, sessionVars, orderVars, cartVars, scan, tapVars>>

\* Then it locks the visit, and closes it and the listed sessions if all is settled.
CloseVisit(v) ==
    /\ closing[v] # NotClosing
    /\ VisitFree(v)
    /\ closing' = [closing EXCEPT ![v] = NotClosing]
    /\ \/ /\ visitStatus[v] = "active" /\ ~Unsettled(v, paid)
          /\ \A s \in closing[v] : CanClose(s, paid)
          /\ sessionStatus' = ClosedNow(closing[v])
          /\ visitStatus' = [visitStatus EXCEPT ![v] = "closed"]
       \/ /\ visitStatus[v] # "active" \/ Unsettled(v, paid)
             \/ \E s \in closing[v] : ~CanClose(s, paid)
          /\ UNCHANGED <<sessionStatus, visitStatus>>
    /\ UNCHANGED <<tableOf, guestOf, visitOf, orderVars, cartVars, scan, tapVars>>

-----------------------------------------------------------------------------

Init ==
    /\ visitStatus = [v \in Visit |-> "absent"]
    /\ tableOf = [v \in Visit |-> None]
    /\ sessionStatus = [s \in Session |-> "absent"]
    /\ guestOf = [s \in Session |-> None]
    /\ visitOf = [s \in Session |-> 0]
    /\ sessionOf = [o \in Order |-> 0]
    /\ paid = {}
    /\ received = {}
    /\ canceled = {}
    /\ late = {} /\ stray = {} /\ strayCarts = {}
    /\ cart = [g \in Guest |-> 0]
    /\ scan = [g \in Guest |-> NoScan]
    /\ adding = [g \in Guest |-> 0]
    /\ checkout = [g \in Guest |-> 0] /\ locked = {}
    /\ closing = [v \in Visit |-> NotClosing]

Next ==
    \/ \E g \in Guest : \/ \E t \in Table : PlanScan(g, t)
                        \/ LeaveVisits(g) \/ FinishScan(g) \/ AbortScan(g)
                        \/ ReadForCart(g) \/ TieCart(g) \/ UntieCart(g)
                        \/ ReadForCheckout(g) \/ LockCart(g) \/ FailCheckout(g) \/ FinishCheckout(g)
    \/ \E o \in Order : ReceiveOrder(o) \/ CancelOrder(o)
    \/ \E os \in SUBSET Order : PayOrders(os)
    \/ \E s \in Session : CloseSession(s)
    \/ \E v \in Visit : ListSessions(v) \/ CloseVisit(v)

Spec == Init /\ [][Next]_vars

-----------------------------------------------------------------------------
(* Properties *)

\* The kinds of the values, that a session has a visit and what is paid, received or canceled
\* was ordered, and that what is canceled is never paid or received.
TypeOK ==
    /\ visitStatus \in [Visit -> {"absent", "active", "closed"}]
    /\ tableOf \in [Visit -> Table \cup {None}]
    /\ sessionStatus \in [Session -> {"absent", "active", "closed"}]
    /\ guestOf \in [Session -> Guest \cup {None}]
    /\ visitOf \in [Session -> {0} \cup Visit]
    /\ \A s \in Session : /\ (sessionStatus[s] = "absent") <=> (visitOf[s] = 0)
                          /\ (sessionStatus[s] = "absent") <=> (guestOf[s] = None)
    /\ sessionOf \in [Order -> {0} \cup Session]
    /\ \A os \in {paid, received, canceled, late, stray} :
          os \subseteq {o \in Order : sessionOf[o] # 0}
    /\ canceled \cap (paid \cup received) = {}
    /\ cart \in [Guest -> {0} \cup Session]
    /\ strayCarts \subseteq Guest /\ locked \subseteq Guest
    /\ scan \in [Guest -> [phase : {"none", "planned", "leaving"}, table : Table \cup {None},
                           target : {0} \cup Visit, explicit : BOOLEAN, closes : SUBSET Visit]]
    /\ adding \in [Guest -> {0} \cup Session]
    /\ checkout \in [Guest -> {0} \cup Session]
    /\ closing \in [Visit -> (SUBSET Session) \cup {NotClosing}]

\* Whoever sits down sits down in a visit that is open when the scan commits, however many
\* guests leave the visit, pay its bills or are sent off between the plan and the lock.
JoinsOpenVisit ==
    [][\A s \in Session : sessionStatus[s] = "absent" /\ sessionStatus'[s] = "active"
          => visitStatus'[visitOf'[s]] = "active"]_vars

\* A visit closes with nothing owed in it, by the guests who left it earlier as little as by
\* those who leave it now.  The one exception is an order stored after its session had closed:
\* its guest had moved on, or its cart was tied to the closed session.
ClosesSettled ==
    [][\A v \in Visit : visitStatus[v] = "active" /\ visitStatus'[v] = "closed"
          => (OrdersOf({s \in Session : visitOf[s] = v}) \cap Debts(paid))' \subseteq late']_vars

\* The staff, and the payment that closes what it settled, never close a session that owes
\* something or is about to, with a checkout of its cart under way.  An unpaid order of a closed
\* session was left behind by a guest who scanned another table, or it was stored from a cart
\* that a command tied to the session after the session had closed.
ClosedWithoutDebt ==
    \A o \in Debts(paid) \ stray : sessionStatus[sessionOf[o]] = "closed"
        => \E s \in Session : s > sessionOf[o] /\ guestOf[s] = guestOf[sessionOf[o]]

\* Nobody forgets to close a visit without orders: of the guests who leave it at the same
\* time, the last one closes it.
NoForgottenVisit ==
    \A v \in Visit : visitStatus[v] = "active" /\ SeatedAt(v, sessionStatus) = {}
        => OrdersOf({s \in Session : visitOf[s] = v}) # {}

-----------------------------------------------------------------------------
(* The inductive invariant *)

\* Sessions are numbered as they are made; their visits were made, as were the sessions of
\* orders.
NumberingInv ==
    /\ \A s \in Session : sessionStatus[s] # "absent" => visitStatus[visitOf[s]] # "absent"
    /\ \A s, x \in Session : s < x /\ sessionStatus[s] = "absent" => sessionStatus[x] = "absent"
    /\ \A o \in Order : sessionOf[o] # 0 => sessionStatus[sessionOf[o]] # "absent"

\* A command on the cart has read a session of its guest, and the cart is tied to one.  A
\* checkout that has locked the cart keeps it.
CheckoutInv ==
    \A g \in Guest :
        /\ \A s \in {adding[g], checkout[g], cart[g]} \ {0} : guestOf[s] = g
        /\ g \in locked => checkout[g] # 0 /\ cart[g] = checkout[g]

\* The session of an active cart closes when its guest moves, or had closed when the cart was
\* tied to it.
CartInv ==
    \A g \in Guest \ strayCarts : cart[g] # 0 /\ sessionStatus[cart[g]] = "closed"
        => \E s \in Session : s > cart[g] /\ guestOf[s] = g

\* The staff command has listed sessions of its visit, and nobody else holds them.
ClosingInv ==
    \A v \in Visit : closing[v] # NotClosing =>
        /\ \A s \in closing[v] : s \in Session /\ visitOf[s] = v
        /\ \A g \in Guest : closing[v] \cap HeldSessions(g) = {}

\* Scans hold different visits.
LockInv == \A g, h \in Guest : g # h => HeldVisits(g) \cap HeldVisits(h) = {}

\* What a scan has decided about the visits it leaves stays right until it commits.
DecisionInv ==
    \A g \in Guest : scan[g].phase = "leaving" =>
        /\ \A v \in scan[g].closes :
              /\ v \in VisitsLeft(g) /\ visitStatus[v] = "active"
              /\ SeatedAt(v, sessionStatus) \subseteq SessionsOf(g)
              /\ OrdersOf({s \in Session : visitOf[s] = v}) \cap Debts(paid) \subseteq late
        /\ \A v \in VisitsLeft(g) \ scan[g].closes : visitStatus[v] = "active" =>
              \/ ~(SeatedAt(v, sessionStatus) \subseteq SessionsOf(g))
              \/ OrdersOf({s \in Session : visitOf[s] = v}) # {}

IInv == /\ TypeOK /\ NumberingInv /\ CheckoutInv /\ CartInv /\ ClosingInv /\ LockInv
        /\ DecisionInv /\ ClosedWithoutDebt /\ NoForgottenVisit

-----------------------------------------------------------------------------
(* What a test says, and the code does not do *)

\* Nobody sits in a closed visit.  close_table_visit lists the sessions before it locks the
\* visit, and a guest may join in between.
NoSessionInClosedVisit ==
    \A s \in ActiveSessions(sessionStatus) : visitStatus[visitOf[s]] = "active"
=============================================================================
