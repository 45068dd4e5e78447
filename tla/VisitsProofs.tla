----------------------------- MODULE VisitsProofs -----------------------------
(***************************************************************************)
(* The safety of Visits for any number of guests, tables, sessions, visits *)
(* and orders.                                                             *)
(*                                                                         *)
(* The argument: a step either ends a scan or closes sessions no scan      *)
(* holds, in visits no scan holds (SessionsStep).  So what a scan has      *)
(* decided about the visits it leaves stays right until it commits         *)
(* (HeldKept, DecisionInv), the one exception being an order that comes    *)
(* after its session has closed.                                           *)
(***************************************************************************)
EXTENDS Visits, TLAPS

-----------------------------------------------------------------------------
(* The shapes of a step *)

\* A command closes the sessions ss.
Closes(ss) == sessionStatus' = ClosedNow(ss) /\ UNCHANGED <<guestOf, visitOf>>

\* A scan of guest g ends with session s in visit v.
Sits(g, s, v) ==
    /\ sessionStatus[s] = "absent" /\ \A x \in Session : x < s => sessionStatus[x] # "absent"
    /\ sessionStatus' = [ClosedNow(SessionsOf(g)) EXCEPT ![s] = "active"]
    /\ guestOf' = [guestOf EXCEPT ![s] = g]
    /\ visitOf' = [visitOf EXCEPT ![s] = v]

\* The visit joined, or the visit made for the guest.
Joins(g, v) == /\ v = scan[g].target /\ v \notin scan[g].closes /\ visitStatus[v] = "active"
               /\ visitStatus' = VisitsClosed(scan[g].closes) /\ UNCHANGED tableOf
Makes(g, v) == /\ visitStatus[v] = "absent"
               /\ ~StillOpen(scan[g].target, VisitsClosed(scan[g].closes))
               /\ visitStatus' = [VisitsClosed(scan[g].closes) EXCEPT ![v] = "active"]
               /\ tableOf' = [tableOf EXCEPT ![v] = scan[g].table]

\* A scan ends with its guest seated, or with nothing changed.
LEMMA FinishShape ==
    ASSUME TypeOK, NEW g \in Guest, FinishScan(g)
    PROVE  \/ UNCHANGED <<visitVars, sessionVars>>
           \/ \E s \in Session, v \in Visit : Sits(g, s, v) /\ (Joins(g, v) \/ Makes(g, v))
<1> SUFFICES ASSUME ~UNCHANGED <<visitVars, sessionVars>>
             PROVE  \E s \in Session, v \in Visit : Sits(g, s, v) /\ (Joins(g, v) \/ Makes(g, v))
  OBVIOUS
<1> DEFINE after == VisitsClosed(scan[g].closes)
<1>1. CASE StillOpen(scan[g].target, after)
  <2>1. scan[g].target \in Visit
    BY <1>1 DEF TypeOK, StillOpen
  <2>2. visitStatus[scan[g].target] = "active" /\ scan[g].target \notin scan[g].closes
    BY <1>1, <2>1 DEF TypeOK, StillOpen, VisitsClosed
  <2>3. PICK s \in Session : Sits(g, s, scan[g].target)
    BY <1>1 DEF FinishScan, NextOf, Sits
  <2>4. Joins(g, scan[g].target)
    BY <1>1, <2>2 DEF FinishScan, Joins
  <2> QED BY <2>1, <2>3, <2>4
<1>2. CASE ~StillOpen(scan[g].target, after)
  <2>1. PICK v \in Visit :
           /\ visitStatus[v] = "absent"
           /\ \E s \in Session : Sits(g, s, v)
           /\ visitStatus' = [after EXCEPT ![v] = "active"]
           /\ tableOf' = [tableOf EXCEPT ![v] = scan[g].table]
    BY <1>2 DEF FinishScan, NextOf, Sits
  <2>2. Makes(g, v)
    BY <1>2, <2>1 DEF Makes
  <2> QED BY <2>1, <2>2
<1> QED BY <1>1, <1>2

-----------------------------------------------------------------------------
(* Types *)

\* Closing sessions and visits keeps their types.
LEMMA ClosedTypes ==
    /\ \A ss : TypeOK => ClosedNow(ss) \in [Session -> {"absent", "active", "closed"}]
    /\ \A vs : TypeOK => VisitsClosed(vs) \in [Visit -> {"absent", "active", "closed"}]
BY DEF TypeOK, ClosedNow, VisitsClosed

\* So does a step that closes them, whatever it pays.
LEMMA ClosingTypes ==
    ASSUME TypeOK, NEW ss \in SUBSET ActiveSessions(sessionStatus), NEW vs,
           sessionStatus' = ClosedNow(ss), visitStatus' = VisitsClosed(vs),
           paid' \subseteq {o \in Order : sessionOf[o] # 0},
           canceled \cap paid' = {},
           UNCHANGED <<tableOf, guestOf, visitOf, sessionOf, received, canceled, late, stray,
                       cartVars, scan, tapVars, closing>>
    PROVE  TypeOK'
<1>1. \A x \in Session : (ClosedNow(ss)[x] = "absent") <=> (sessionStatus[x] = "absent")
  BY DEF TypeOK, ClosedNow, ActiveSessions
<1>2. /\ sessionStatus' \in [Session -> {"absent", "active", "closed"}]
      /\ visitStatus' \in [Visit -> {"absent", "active", "closed"}]
  BY ClosedTypes
<1>3. \A x \in Session : /\ (sessionStatus'[x] = "absent") <=> (visitOf'[x] = 0)
                         /\ (sessionStatus'[x] = "absent") <=> (guestOf'[x] = None)
  BY <1>1 DEF TypeOK
<1>4. \A os \in {paid', received', canceled', late', stray'} : os \subseteq {o \in Order : sessionOf'[o] # 0}
  BY DEF TypeOK
<1>5. /\ tableOf' = tableOf /\ guestOf' = guestOf /\ visitOf' = visitOf
      /\ sessionOf' = sessionOf /\ cart' = cart /\ strayCarts' = strayCarts
      /\ scan' = scan /\ adding' = adding /\ checkout' = checkout /\ locked' = locked
      /\ closing' = closing /\ canceled' \cap (paid' \cup received') = {}
  BY DEF TypeOK, cartVars, tapVars
<1> QED BY <1>2, <1>3, <1>4, <1>5 DEF TypeOK

\* What a scan leaves and closes are visits.
LEMMA LeftTypes ==
    ASSUME TypeOK, NEW g \in Guest
    PROVE  /\ SessionsOf(g) \subseteq Session
           /\ VisitsLeft(g) \subseteq Visit
           /\ \A ss : Finished(VisitsLeft(g), ClosedNow(ss), paid) \subseteq Visit
<1>1. \A s \in SessionsOf(g) : s \in Session /\ visitOf[s] \in Visit
  BY DEF TypeOK, SessionsOf, ActiveSessions
<1> QED BY <1>1 DEF VisitsLeft, Finished

\* Every state is well typed.
LEMMA TypeNext == TypeOK /\ CheckoutInv /\ ClosingInv /\ [Next]_vars => TypeOK'
<1> SUFFICES ASSUME TypeOK, CheckoutInv, ClosingInv, [Next]_vars PROVE TypeOK'
  OBVIOUS
<1>1. ASSUME NEW g \in Guest, NEW t \in Table, PlanScan(g, t) PROVE TypeOK'
  BY <1>1 DEF TypeOK, PlanScan, visitVars, sessionVars, orderVars, cartVars, tapVars
<1>2. ASSUME NEW g \in Guest, LeaveVisits(g) PROVE TypeOK'
  <2>1. PICK vs \in SUBSET Visit : scan' = [scan EXCEPT ![g].phase = "leaving", ![g].closes = vs]
    BY <1>2, LeftTypes DEF LeaveVisits, Leave
  <2>2. UNCHANGED <<visitVars, sessionVars, orderVars, cartVars, tapVars, closing>>
    BY <1>2 DEF LeaveVisits, Leave
  <2>3. /\ scan[g].table \in Table \cup {None} /\ scan[g].target \in {0} \cup Visit
        /\ scan[g].explicit \in BOOLEAN
    BY DEF TypeOK
  <2>4. scan'[g] = [phase |-> "leaving", table |-> scan[g].table, target |-> scan[g].target,
                    explicit |-> scan[g].explicit, closes |-> vs]
    <3>1. scan[g] \in [phase : {"none", "planned", "leaving"}, table : Table \cup {None},
                       target : {0} \cup Visit, explicit : BOOLEAN, closes : SUBSET Visit]
      BY DEF TypeOK
    <3>2. scan'[g] = [scan[g] EXCEPT !.phase = "leaving", !.closes = vs]
      BY <2>1 DEF TypeOK
    <3> QED BY <3>1, <3>2
  <2>5. scan' \in [Guest -> [phase : {"none", "planned", "leaving"}, table : Table \cup {None},
                             target : {0} \cup Visit, explicit : BOOLEAN, closes : SUBSET Visit]]
    BY <2>1, <2>3, <2>4 DEF TypeOK
  <2> QED BY <2>2, <2>5 DEF TypeOK, visitVars, sessionVars, orderVars, cartVars, tapVars
<1>3. ASSUME NEW g \in Guest, FinishScan(g) PROVE TypeOK'
  <2>1. /\ scan' = [scan EXCEPT ![g] = NoScan]
        /\ UNCHANGED <<orderVars, cartVars, tapVars, closing>>
    BY <1>3 DEF FinishScan
  <2>2. NoScan \in [phase : {"none", "planned", "leaving"}, table : Table \cup {None},
                    target : {0} \cup Visit, explicit : BOOLEAN, closes : SUBSET Visit]
    BY DEF NoScan
  <2>3. CASE UNCHANGED <<visitVars, sessionVars>>
    BY <2>1, <2>2, <2>3 DEF TypeOK, visitVars, sessionVars, orderVars, cartVars, tapVars
  <2>4. CASE ~UNCHANGED <<visitVars, sessionVars>>
    <3>1. PICK s \in Session, v \in Visit : Sits(g, s, v) /\ (Joins(g, v) \/ Makes(g, v))
      BY <1>3, <2>4, FinishShape
    <3>2. \A x \in Session : (ClosedNow(SessionsOf(g))[x] = "absent") <=> (sessionStatus[x] = "absent")
      BY DEF TypeOK, ClosedNow, SessionsOf, ActiveSessions
    <3>3. /\ sessionStatus' \in [Session -> {"absent", "active", "closed"}]
          /\ guestOf' \in [Session -> Guest \cup {None}]
          /\ visitOf' \in [Session -> {0} \cup Visit]
      BY <3>1, ClosedTypes DEF TypeOK, Sits
    <3>4. \A x \in Session : /\ (sessionStatus'[x] = "absent") <=> (visitOf'[x] = 0)
                             /\ (sessionStatus'[x] = "absent") <=> (guestOf'[x] = None)
      <4> TAKE x \in Session
      <4>1. CASE x = s
        <5>1. sessionStatus'[s] = "active" /\ visitOf'[s] = v /\ guestOf'[s] = g
          BY <3>1, ClosedTypes DEF TypeOK, Sits
        <5>2. v # 0 /\ g # None
          BY VisitsAssumption DEF Visit
        <5> QED BY <4>1, <5>1, <5>2
      <4>2. CASE x # s
        BY <3>1, <3>2, <4>2, ClosedTypes DEF TypeOK, Sits
      <4> QED BY <4>1, <4>2
    <3>5. /\ visitStatus' \in [Visit -> {"absent", "active", "closed"}]
          /\ tableOf' \in [Visit -> Table \cup {None}]
      <4>1. scan[g].table \in Table \cup {None}
        BY DEF TypeOK
      <4>2. VisitsClosed(scan[g].closes) \in [Visit -> {"absent", "active", "closed"}]
        BY ClosedTypes
      <4>3. tableOf \in [Visit -> Table \cup {None}]
        BY DEF TypeOK
      <4> QED BY <3>1, <4>1, <4>2, <4>3 DEF Joins, Makes
    <3> QED BY <2>1, <2>2, <3>3, <3>4, <3>5 DEF TypeOK, orderVars, cartVars, tapVars
  <2> QED BY <2>3, <2>4
<1>4. ASSUME NEW g \in Guest, AbortScan(g) PROVE TypeOK'
  BY <1>4 DEF TypeOK, AbortScan, NoScan, visitVars, sessionVars, orderVars, cartVars, tapVars
<1>5. ASSUME NEW g \in Guest, ReadForCart(g) \/ ReadForCheckout(g) PROVE TypeOK'
  BY <1>5 DEF TypeOK, ReadForCart, ReadForCheckout, SessionsOf, ActiveSessions, visitVars,
       sessionVars, orderVars, cartVars
<1>6. ASSUME NEW g \in Guest, TieCart(g) \/ UntieCart(g) PROVE TypeOK'
  <2>1. /\ cart' \in [Guest -> {0} \cup Session] /\ strayCarts' \subseteq Guest
        /\ adding' \in [Guest -> {0} \cup Session]
    <3>1. CASE TieCart(g)
      <4>1. adding[g] \in Session /\ adding' = [adding EXCEPT ![g] = 0]
        BY <3>1 DEF TypeOK, TieCart
      <4>2. /\ cart' \in {cart, [cart EXCEPT ![g] = adding[g]]}
            /\ strayCarts' \in {strayCarts, strayCarts \ {g}, strayCarts \cup {g}}
        BY <3>1 DEF TieCart, cartVars
      <4> QED BY <4>1, <4>2 DEF TypeOK
    <3>2. CASE UntieCart(g)
      BY <3>2 DEF TypeOK, UntieCart, tapVars
    <3> QED BY <1>6, <3>1, <3>2
  <2> QED BY <1>6, <2>1 DEF TypeOK, TieCart, UntieCart, visitVars, sessionVars, orderVars, tapVars
<1>7. ASSUME NEW g \in Guest, LockCart(g) \/ FailCheckout(g) PROVE TypeOK'
  BY <1>7 DEF TypeOK, LockCart, FailCheckout, visitVars, sessionVars, orderVars, cartVars
<1>8. ASSUME NEW g \in Guest, FinishCheckout(g) PROVE TypeOK'
  <2>1. PICK o \in Order :
           /\ sessionOf[o] = 0
           /\ sessionOf' = [sessionOf EXCEPT ![o] = checkout[g]]
           /\ late' \in {late, late \cup {o}} /\ stray' \in {stray, stray \cup {o}}
    BY <1>8 DEF FinishCheckout, NextOf
  <2>2. /\ cart' = [cart EXCEPT ![g] = 0] /\ checkout' = [checkout EXCEPT ![g] = 0]
        /\ strayCarts' = strayCarts \ {g} /\ locked' = locked \ {g}
        /\ UNCHANGED <<visitVars, sessionVars, paid, received, canceled, scan, adding, closing>>
    BY <1>8 DEF FinishCheckout
  <2>3. checkout[g] \in Session
    BY <1>8 DEF TypeOK, CheckoutInv, FinishCheckout
  <2>4. /\ sessionOf' \in [Order -> {0} \cup Session]
        /\ \A os \in {paid', received', canceled', late', stray'} :
              os \subseteq {x \in Order : sessionOf'[x] # 0}
    <3>1. sessionOf'[o] # 0 /\ \A x \in Order : sessionOf[x] # 0 => sessionOf'[x] # 0
      BY <2>1, <2>3 DEF TypeOK, Session
    <3>2. paid' = paid /\ received' = received /\ canceled' = canceled
      BY <2>2
    <3>3. sessionOf' \in [Order -> {0} \cup Session]
      BY <2>1, <2>3 DEF TypeOK
    <3> QED BY <2>1, <3>1, <3>2, <3>3 DEF TypeOK
  <2> QED BY <2>2, <2>4 DEF TypeOK, visitVars, sessionVars
<1>9. ASSUME NEW o \in Order, ReceiveOrder(o) PROVE TypeOK'
  BY <1>9 DEF TypeOK, ReceiveOrder, visitVars, sessionVars, cartVars, tapVars
<1>10. ASSUME NEW o \in Order, CancelOrder(o) PROVE TypeOK'
  BY <1>10 DEF TypeOK, CancelOrder, Debts, visitVars, sessionVars, cartVars, tapVars
<1>11. ASSUME NEW os \in SUBSET Order, PayOrders(os) PROVE TypeOK'
  <2>1. PICK ss \in SUBSET ActiveSessions(sessionStatus) :
           /\ sessionStatus' = ClosedNow(ss)
           /\ visitStatus' = VisitsClosed(Finished({visitOf[s] : s \in ss}, ClosedNow(ss), paid'))
    BY <1>11 DEF PayOrders
  <2>2. /\ paid' = paid \cup os /\ os \subseteq {o \in Order : sessionOf[o] # 0}
        /\ UNCHANGED <<tableOf, guestOf, visitOf, sessionOf, received, canceled, late, stray,
                       cartVars, scan, tapVars, closing>>
    BY <1>11 DEF PayOrders, Debts
  <2>3. paid' \subseteq {o \in Order : sessionOf[o] # 0} /\ canceled \cap paid' = {}
    BY <1>11, <2>2 DEF TypeOK, PayOrders, Debts
  <2> QED BY <2>1, <2>2, <2>3, ClosingTypes
<1>12. ASSUME NEW s \in Session, CloseSession(s) PROVE TypeOK'
  <2>1. /\ {s} \in SUBSET ActiveSessions(sessionStatus)
        /\ sessionStatus' = ClosedNow({s})
        /\ visitStatus' = VisitsClosed(Finished({visitOf[s]}, ClosedNow({s}), paid))
        /\ paid' = paid
        /\ UNCHANGED <<tableOf, guestOf, visitOf, sessionOf, received, canceled, late, stray,
                       cartVars, scan, tapVars, closing>>
    BY <1>12 DEF CloseSession, ActiveSessions, orderVars
  <2>2. paid' \subseteq {o \in Order : sessionOf[o] # 0} /\ canceled \cap paid' = {}
    BY <2>1 DEF TypeOK
  <2> QED BY <2>1, <2>2, ClosingTypes
<1>13. ASSUME NEW v \in Visit, ListSessions(v) PROVE TypeOK'
  <2>1. SeatedAt(v, sessionStatus) \subseteq Session
    BY DEF SeatedAt, ActiveSessions
  <2> QED BY <1>13, <2>1 DEF TypeOK, ListSessions, NotClosing, visitVars, sessionVars,
       orderVars, cartVars, tapVars
<1>14. ASSUME NEW v \in Visit, CloseVisit(v) PROVE TypeOK'
  <2>1. closing[v] \in SUBSET Session /\ \A s \in closing[v] : sessionStatus[s] # "absent"
    BY <1>14 DEF TypeOK, ClosingInv, CloseVisit, Visit
  <2>2. \A x \in Session : (ClosedNow(closing[v])[x] = "absent") <=> (sessionStatus[x] = "absent")
    BY <2>1 DEF TypeOK, ClosedNow
  <2>3. /\ sessionStatus' \in {ClosedNow(closing[v]), sessionStatus}
        /\ visitStatus' \in [Visit -> {"absent", "active", "closed"}]
        /\ closing' = [closing EXCEPT ![v] = NotClosing]
        /\ UNCHANGED <<tableOf, guestOf, visitOf, orderVars, cartVars, scan, tapVars>>
    BY <1>14 DEF CloseVisit, TypeOK
  <2>4. sessionStatus' \in [Session -> {"absent", "active", "closed"}]
    <3>1. sessionStatus \in [Session -> {"absent", "active", "closed"}]
      BY DEF TypeOK
    <3> QED BY <2>3, <3>1, ClosedTypes
  <2>5. /\ visitOf' = visitOf /\ guestOf' = guestOf
        /\ \A x \in Session : (sessionStatus'[x] = "absent") <=> (sessionStatus[x] = "absent")
    BY <2>2, <2>3
  <2>6. closing' \in [Visit -> (SUBSET Session) \cup {NotClosing}]
    <3>1. closing \in [Visit -> (SUBSET Session) \cup {NotClosing}]
      BY DEF TypeOK
    <3> QED BY <2>3, <3>1
  <2> QED BY <2>3, <2>4, <2>5, <2>6 DEF TypeOK, orderVars, cartVars, tapVars
<1>15. CASE UNCHANGED vars
  BY <1>15 DEF TypeOK, vars
<1> QED
  BY <1>1, <1>2, <1>3, <1>4, <1>5, <1>6, <1>7, <1>8, <1>9, <1>10, <1>11, <1>12, <1>13,
     <1>14, <1>15 DEF Next
-----------------------------------------------------------------------------
(* What a step leaves alone *)

\* The sessions ss close, of guests and visits no scan holds, and no visit held changes.
ClosesFree(ss) ==
    /\ Closes(ss)
    /\ ss \subseteq Session
    /\ \A s \in ss : /\ sessionStatus[s] # "absent"
                     /\ \A h \in Guest : s \notin HeldSessions(h) /\ visitOf[s] \notin HeldVisits(h)
    /\ \A h \in Guest : \A v \in HeldVisits(h) : visitStatus'[v] = visitStatus[v]

\* Whatever ends a scan is a case of its own; everything else closes free sessions, or none.
LEMMA SessionsStep ==
    ASSUME TypeOK, ClosingInv, [Next]_vars
    PROVE  \/ \E ss : ClosesFree(ss)
           \/ \E g \in Guest, s \in Session, v \in Visit :
                 FinishScan(g) /\ Sits(g, s, v) /\ (Joins(g, v) \/ Makes(g, v))
<1> DEFINE Goal == \/ \E ss : ClosesFree(ss)
                   \/ \E g \in Guest, s \in Session, v \in Visit :
                        FinishScan(g) /\ Sits(g, s, v) /\ (Joins(g, v) \/ Makes(g, v))
<1>0. ASSUME UNCHANGED <<visitVars, sessionVars>> PROVE Goal
  <2>1. ClosedNow({}) = sessionStatus
    BY DEF TypeOK, ClosedNow
  <2>2. ClosesFree({})
    BY <1>0, <2>1 DEF ClosesFree, Closes, visitVars, sessionVars
  <2> QED BY <2>2
<1>1. ASSUME NEW g \in Guest, NEW t \in Table, PlanScan(g, t) PROVE Goal
  BY <1>0, <1>1 DEF PlanScan
<1>2. ASSUME NEW g \in Guest, LeaveVisits(g) PROVE Goal
  BY <1>0, <1>2 DEF LeaveVisits, Leave
<1>3. ASSUME NEW g \in Guest, FinishScan(g) PROVE Goal
  BY <1>0, <1>3, FinishShape
<1>4. ASSUME NEW g \in Guest, AbortScan(g) PROVE Goal
  BY <1>0, <1>4 DEF AbortScan
<1>5. ASSUME NEW g \in Guest, ReadForCart(g) \/ TieCart(g) \/ UntieCart(g) PROVE Goal
  BY <1>0, <1>5 DEF ReadForCart, TieCart, UntieCart
<1>6. ASSUME NEW g \in Guest,
             ReadForCheckout(g) \/ LockCart(g) \/ FailCheckout(g) \/ FinishCheckout(g)
      PROVE  Goal
  BY <1>0, <1>6 DEF ReadForCheckout, LockCart, FailCheckout, FinishCheckout
<1>7. ASSUME NEW o \in Order, ReceiveOrder(o) \/ CancelOrder(o) PROVE Goal
  BY <1>0, <1>7 DEF ReceiveOrder, CancelOrder
<1>8. ASSUME NEW os \in SUBSET Order, PayOrders(os) PROVE Goal
  <2>1. PICK ss \in SUBSET ActiveSessions(sessionStatus) :
           /\ \A s \in ss : SessionFree(s) /\ VisitFree(visitOf[s])
           /\ sessionStatus' = ClosedNow(ss)
           /\ visitStatus' = VisitsClosed(Finished({visitOf[s] : s \in ss}, ClosedNow(ss), paid'))
    BY <1>8 DEF PayOrders
  <2>2. UNCHANGED <<guestOf, visitOf>>
    BY <1>8 DEF PayOrders
  <2>3. \A h \in Guest : \A v \in HeldVisits(h) : visitStatus'[v] = visitStatus[v]
    <3> TAKE h \in Guest
    <3> TAKE v \in HeldVisits(h)
    <3>1. v \in Visit
      BY LeftTypes DEF HeldVisits
    <3>2. v \notin {visitOf[s] : s \in ss}
      BY <2>1 DEF VisitFree
    <3> QED BY <2>1, <3>1, <3>2 DEF VisitsClosed, Finished
  <2>4. ClosesFree(ss)
    BY <2>1, <2>2, <2>3 DEF ClosesFree, Closes, ActiveSessions, SessionFree, VisitFree
  <2> QED BY <2>4
<1>9. ASSUME NEW s \in Session, CloseSession(s) PROVE Goal
  <2>1. \A h \in Guest : \A v \in HeldVisits(h) : visitStatus'[v] = visitStatus[v]
    <3> TAKE h \in Guest
    <3> TAKE v \in HeldVisits(h)
    <3>1. v \in Visit
      BY LeftTypes DEF HeldVisits
    <3>2. v # visitOf[s]
      BY <1>9 DEF CloseSession, VisitFree
    <3> QED BY <1>9, <3>1, <3>2 DEF CloseSession, VisitsClosed, Finished
  <2>2. ClosesFree({s})
    BY <1>9, <2>1 DEF CloseSession, ClosesFree, Closes, SessionFree, VisitFree
  <2> QED BY <2>2
<1>10. ASSUME NEW v \in Visit, ListSessions(v) PROVE Goal
  BY <1>0, <1>10 DEF ListSessions
<1>11. ASSUME NEW v \in Visit, CloseVisit(v) PROVE Goal
  <2>1. CASE UNCHANGED <<sessionStatus, visitStatus>>
    BY <1>0, <1>11, <2>1 DEF CloseVisit, visitVars, sessionVars
  <2>2. CASE ~UNCHANGED <<sessionStatus, visitStatus>>
    <3>1. /\ sessionStatus' = ClosedNow(closing[v])
          /\ visitStatus' = [visitStatus EXCEPT ![v] = "closed"]
          /\ UNCHANGED <<guestOf, visitOf>>
          /\ closing[v] # NotClosing /\ VisitFree(v)
      BY <1>11, <2>2 DEF CloseVisit
    <3>2. \A s \in closing[v] : s \in Session /\ visitOf[s] = v /\ sessionStatus[s] # "absent"
      BY <3>1 DEF ClosingInv, TypeOK, Visit
    <3>3. ClosesFree(closing[v])
      BY <3>1, <3>2 DEF ClosesFree, Closes, ClosingInv, VisitFree, TypeOK
    <3> QED BY <3>3
  <2> QED BY <2>1, <2>2
<1>12. CASE UNCHANGED vars
  BY <1>0, <1>12 DEF vars, visitVars, sessionVars
<1> QED
  BY <1>1, <1>2, <1>3, <1>4, <1>5, <1>6, <1>7, <1>8, <1>9, <1>10, <1>11, <1>12 DEF Next

\* A session keeps its guest and visit, and stays closed once it is.
LEMMA SessionsKept ==
    ASSUME TypeOK, ClosingInv, [Next]_vars, NEW s \in Session, sessionStatus[s] # "absent"
    PROVE  /\ guestOf'[s] = guestOf[s] /\ visitOf'[s] = visitOf[s]
           /\ sessionStatus'[s] # "absent"
           /\ sessionStatus[s] = "closed" => sessionStatus'[s] = "closed"
<1>1. ASSUME NEW ss, ClosesFree(ss)
      PROVE  /\ guestOf'[s] = guestOf[s] /\ visitOf'[s] = visitOf[s]
             /\ sessionStatus'[s] # "absent"
             /\ sessionStatus[s] = "closed" => sessionStatus'[s] = "closed"
  BY <1>1 DEF ClosesFree, Closes, ClosedNow
<1>2. ASSUME NEW g \in Guest, NEW x \in Session, NEW v \in Visit, Sits(g, x, v)
      PROVE  /\ guestOf'[s] = guestOf[s] /\ visitOf'[s] = visitOf[s]
             /\ sessionStatus'[s] # "absent"
             /\ sessionStatus[s] = "closed" => sessionStatus'[s] = "closed"
  BY <1>2 DEF Sits, ClosedNow, TypeOK
<1> QED BY <1>1, <1>2, SessionsStep

\* Orders stay with their sessions, and what is settled or late stays so.
LEMMA OrdersKept ==
    ASSUME TypeOK, [Next]_vars
    PROVE  /\ \A o \in Order : sessionOf[o] # 0 => sessionOf'[o] = sessionOf[o]
           /\ paid \subseteq paid' /\ canceled \subseteq canceled' /\ late \subseteq late'
           /\ stray \subseteq stray'
           /\ \A o \in Order : sessionOf[o] = 0 /\ sessionOf'[o] # 0 =>
                 \E g \in Guest : FinishCheckout(g) /\ sessionOf'[o] = checkout[g]
<1> USE DEF orderVars
<1>1. ASSUME NEW g \in Guest, FinishCheckout(g)
      PROVE  /\ \A o \in Order : sessionOf[o] # 0 => sessionOf'[o] = sessionOf[o]
             /\ paid \subseteq paid' /\ canceled \subseteq canceled' /\ late \subseteq late'
           /\ stray \subseteq stray'
             /\ \A o \in Order : sessionOf[o] = 0 /\ sessionOf'[o] # 0 => sessionOf'[o] = checkout[g]
  BY <1>1 DEF FinishCheckout, NextOf, TypeOK
<1>2. ASSUME ~\E g \in Guest : FinishCheckout(g)
      PROVE  sessionOf' = sessionOf /\ paid \subseteq paid' /\ canceled \subseteq canceled' /\ late' = late
             /\ stray' = stray
  BY <1>2 DEF Next, PlanScan, LeaveVisits, Leave, FinishScan, AbortScan, ReadForCart, TieCart, UntieCart,
       ReadForCheckout, LockCart, FailCheckout, ReceiveOrder, CancelOrder, PayOrders, CloseSession, ListSessions,
            CloseVisit, vars
<1> QED BY <1>1, <1>2

\* A scan that holds its locks after a step held them before, or has just got them.
LEMMA ScanStep ==
    ASSUME TypeOK, [Next]_vars, NEW h \in Guest, scan'[h].phase = "leaving"
    PROVE  \/ LeaveVisits(h)
           \/ scan[h].phase = "leaving" /\ scan'[h] = scan[h] /\ ~FinishScan(h)
<1>1. CASE LeaveVisits(h)
  BY <1>1
<1>2. CASE FinishScan(h) \/ AbortScan(h) \/ \E t \in Table : PlanScan(h, t)
  <2>1. scan'[h].phase # "leaving"
    <3>1. ASSUME FinishScan(h) PROVE scan'[h] = NoScan
      BY <3>1 DEF FinishScan, TypeOK
    <3>2. ASSUME AbortScan(h) PROVE scan'[h] = NoScan
      BY <3>2 DEF AbortScan, TypeOK
    <3>3. ASSUME NEW t \in Table, PlanScan(h, t) PROVE scan'[h].phase = "planned"
      BY <3>3 DEF PlanScan, TypeOK
    <3> QED BY <1>2, <3>1, <3>2, <3>3 DEF NoScan
  <2> QED BY <2>1
<1>3. CASE \E g \in Guest \ {h} : \/ LeaveVisits(g) \/ FinishScan(g) \/ AbortScan(g)
                                  \/ \E t \in Table : PlanScan(g, t)
  <2>1. ASSUME NEW g \in Guest \ {h}, LeaveVisits(g) PROVE scan'[h] = scan[h]
    BY <2>1 DEF LeaveVisits, Leave, TypeOK
  <2>2. ASSUME NEW g \in Guest \ {h}, FinishScan(g) \/ AbortScan(g) PROVE scan'[h] = scan[h]
    BY <2>2 DEF FinishScan, AbortScan, TypeOK
  <2>3. ASSUME NEW g \in Guest \ {h}, NEW t \in Table, PlanScan(g, t) PROVE scan'[h] = scan[h]
    BY <2>3 DEF PlanScan, TypeOK
  <2> QED BY <1>1, <1>2, <1>3, <2>1, <2>2, <2>3
<1>4. CASE ~\E g \in Guest : \/ LeaveVisits(g) \/ FinishScan(g) \/ AbortScan(g)
                             \/ \E t \in Table : PlanScan(g, t)
  <2>1. scan' = scan
    BY <1>4 DEF Next, ReadForCart, TieCart, UntieCart,
       ReadForCheckout, LockCart, FailCheckout, FinishCheckout, ReceiveOrder, CancelOrder,
         PayOrders, CloseSession, ListSessions, CloseVisit, vars
  <2> QED BY <1>4, <2>1
<1> QED BY <1>1, <1>2, <1>3, <1>4
\* As long as a scan holds its locks, what it holds stays as it is.
LEMMA HeldKept ==
    ASSUME TypeOK, NumberingInv, ClosingInv, LockInv, DecisionInv, [Next]_vars, NEW h \in Guest,
           scan[h].phase = "leaving", scan'[h] = scan[h], ~FinishScan(h)
    PROVE  /\ SessionsOf(h)' = SessionsOf(h) /\ VisitsLeft(h)' = VisitsLeft(h)
           /\ \A v \in VisitsLeft(h) :
                 /\ visitStatus'[v] = visitStatus[v]
                 /\ SeatedAt(v, sessionStatus)' = SeatedAt(v, sessionStatus)
                 /\ {s \in Session : visitOf[s] = v}' = {s \in Session : visitOf[s] = v}
<1>1. VisitsLeft(h) \subseteq Visit /\ HeldVisits(h) = VisitsLeft(h) /\ HeldSessions(h) = SessionsOf(h)
  BY LeftTypes DEF HeldVisits, HeldSessions
<1>2. ASSUME NEW ss, ClosesFree(ss)
      PROVE  /\ SessionsOf(h)' = SessionsOf(h)
             /\ \A v \in VisitsLeft(h) :
                   /\ visitStatus'[v] = visitStatus[v]
                   /\ SeatedAt(v, sessionStatus)' = SeatedAt(v, sessionStatus)
                   /\ {s \in Session : visitOf[s] = v}' = {s \in Session : visitOf[s] = v}
  <2>1. /\ sessionStatus' = ClosedNow(ss) /\ guestOf' = guestOf /\ visitOf' = visitOf
        /\ ss \cap SessionsOf(h) = {}
        /\ \A s \in ss : visitOf[s] \notin VisitsLeft(h)
    BY <1>1, <1>2 DEF ClosesFree, Closes
  <2>2. SessionsOf(h)' = SessionsOf(h)
    BY <2>1 DEF SessionsOf, ActiveSessions, ClosedNow
  <2>3. ASSUME NEW v \in VisitsLeft(h)
        PROVE  SeatedAt(v, sessionStatus)' = SeatedAt(v, sessionStatus)
    BY <2>1, <2>3 DEF SeatedAt, ActiveSessions, ClosedNow
  <2> QED BY <1>1, <1>2, <2>1, <2>2, <2>3 DEF ClosesFree
<1>3. ASSUME NEW g \in Guest, NEW x \in Session, NEW w \in Visit,
             FinishScan(g), Sits(g, x, w), Joins(g, w) \/ Makes(g, w)
      PROVE  /\ SessionsOf(h)' = SessionsOf(h)
             /\ \A v \in VisitsLeft(h) :
                   /\ visitStatus'[v] = visitStatus[v]
                   /\ SeatedAt(v, sessionStatus)' = SeatedAt(v, sessionStatus)
                   /\ {s \in Session : visitOf[s] = v}' = {s \in Session : visitOf[s] = v}
  <2>1. g # h /\ scan[g].phase = "leaving"
    BY <1>3 DEF FinishScan
  <2>2. /\ \A s \in SessionsOf(g) : guestOf[s] = g /\ s # x
        /\ sessionStatus[x] = "absent" /\ visitOf[x] = 0 /\ guestOf[x] = None
    BY <1>3 DEF SessionsOf, ActiveSessions, Sits, TypeOK
  <2>3. /\ \A s \in Session : s # x => sessionStatus'[s] = IF s \in SessionsOf(g) THEN "closed" ELSE sessionStatus[s]
        /\ sessionStatus'[x] = "active" /\ guestOf'[x] = g /\ visitOf'[x] = w
        /\ \A s \in Session : s # x => guestOf'[s] = guestOf[s] /\ visitOf'[s] = visitOf[s]
    BY <1>3 DEF Sits, ClosedNow, TypeOK
  <2>4. SessionsOf(h)' = SessionsOf(h)
    BY <2>1, <2>2, <2>3 DEF SessionsOf, ActiveSessions
  <2>5. ASSUME NEW v \in VisitsLeft(h)
        PROVE  /\ v \in Visit /\ v \notin VisitsLeft(g) /\ v \notin scan[g].closes /\ v # w
               /\ \A s \in SessionsOf(g) : visitOf[s] # v
    <3>1. v \in Visit /\ v \notin VisitsLeft(g)
      BY <1>1, <2>1, <2>5 DEF LockInv, HeldVisits
    <3>2. v \notin scan[g].closes
      BY <2>1, <3>1 DEF DecisionInv
    <3>3. v # scan[g].target
      <4>1. scan[g].target = 0 \/ scan[g].target \notin HeldVisits(h)
        BY <1>3, <2>1 DEF FinishScan
      <4> QED BY <1>1, <2>5, <3>1, <4>1 DEF Visit
    <3>4. v # w
      <4>1. CASE Joins(g, w)
        BY <3>3, <4>1 DEF Joins
      <4>2. CASE Makes(g, w)
        <5>1. PICK s \in SessionsOf(h) : visitOf[s] = v
          BY <2>5 DEF VisitsLeft
        <5>2. x \in Session /\ visitStatus[v] # "absent"
          BY <5>1 DEF NumberingInv, SessionsOf, ActiveSessions
        <5> QED BY <4>2, <5>2 DEF Makes
      <4> QED BY <1>3, <4>1, <4>2
    <3>5. \A s \in SessionsOf(g) : visitOf[s] # v
      BY <3>1, <3>3 DEF VisitsLeft
    <3> QED BY <3>1, <3>2, <3>4, <3>5
  <2>6. ASSUME NEW v \in VisitsLeft(h)
        PROVE  /\ visitStatus'[v] = visitStatus[v]
               /\ SeatedAt(v, sessionStatus)' = SeatedAt(v, sessionStatus)
               /\ {s \in Session : visitOf[s] = v}' = {s \in Session : visitOf[s] = v}
    <3>1. visitStatus'[v] = visitStatus[v]
      BY <1>3, <2>5 DEF Joins, Makes, VisitsClosed
    <3>2. v # 0
      BY <2>5 DEF Visit
    <3>3. {s \in Session : visitOf[s] = v}' = {s \in Session : visitOf[s] = v}
      BY <2>2, <2>3, <2>5, <3>2
    <3>4. SeatedAt(v, sessionStatus)' = SeatedAt(v, sessionStatus)
      BY <2>2, <2>3, <2>5, <3>2 DEF SeatedAt, ActiveSessions
    <3> QED BY <3>1, <3>3, <3>4
  <2> QED BY <2>4, <2>6
<1>4. /\ SessionsOf(h)' = SessionsOf(h)
      /\ \A v \in VisitsLeft(h) :
            /\ visitStatus'[v] = visitStatus[v]
            /\ SeatedAt(v, sessionStatus)' = SeatedAt(v, sessionStatus)
            /\ {s \in Session : visitOf[s] = v}' = {s \in Session : visitOf[s] = v}
  BY <1>2, <1>3, SessionsStep
<1>5. \A s \in SessionsOf(h) : visitOf'[s] = visitOf[s]
  BY SessionsKept DEF SessionsOf, ActiveSessions
<1>6. VisitsLeft(h)' = VisitsLeft(h)
  BY <1>4, <1>5 DEF VisitsLeft
<1> QED BY <1>4, <1>6
-----------------------------------------------------------------------------
(* The invariant *)

\* Sessions, visits and orders are numbered as they are made.
LEMMA NumberingNext ==
    ASSUME TypeOK, NumberingInv, CheckoutInv, ClosingInv, [Next]_vars
    PROVE  NumberingInv'
<1>1. ASSUME NEW v \in Visit, visitStatus[v] # "absent" PROVE visitStatus'[v] # "absent"
  <2>1. ASSUME NEW g \in Guest, NEW w \in Visit, Joins(g, w) \/ Makes(g,
       w) PROVE visitStatus'[v] # "absent"
    BY <1>1, <2>1 DEF Joins, Makes, VisitsClosed, TypeOK
  <2>2. ASSUME NEW g \in Guest, FinishScan(g) PROVE visitStatus'[v] # "absent"
    BY <1>1, <2>1, <2>2, FinishShape DEF visitVars
  <2>3. ASSUME NEW os \in SUBSET Order, PayOrders(os) PROVE visitStatus'[v] # "absent"
    BY <1>1, <2>3 DEF PayOrders, VisitsClosed
  <2>4. ASSUME NEW s \in Session, CloseSession(s) PROVE visitStatus'[v] # "absent"
    BY <1>1, <2>4 DEF CloseSession, VisitsClosed
  <2>5. ASSUME NEW w \in Visit, CloseVisit(w) PROVE visitStatus'[v] # "absent"
    BY <1>1, <2>5 DEF CloseVisit, TypeOK
  <2> QED BY <1>1, <2>2, <2>3, <2>4, <2>5 DEF Next, PlanScan, LeaveVisits, Leave, AbortScan,
       ReadForCart, TieCart, UntieCart,
       ReadForCheckout, LockCart, FailCheckout, FinishCheckout, ReceiveOrder, CancelOrder, ListSessions, vars,
              visitVars
<1>2. \A s \in Session : sessionStatus'[s] # "absent" => visitStatus'[visitOf'[s]] # "absent"
  <2> TAKE s \in Session
  <2>1. CASE sessionStatus[s] # "absent"
    <3>1. visitOf[s] \in Visit /\ visitStatus[visitOf[s]] # "absent"
      BY <2>1 DEF NumberingInv, TypeOK
    <3> QED BY <1>1, <2>1, <3>1, SessionsKept
  <2>2. CASE sessionStatus[s] = "absent" /\ sessionStatus'[s] # "absent"
    <3>1. ~\E ss : ClosesFree(ss)
      BY <2>2 DEF ClosesFree, Closes, ClosedNow
    <3>2. PICK g \in Guest, x \in Session, v \in Visit : Sits(g, x, v) /\ (Joins(g,
         v) \/ Makes(g, v))
      BY <3>1, SessionsStep
    <3>3. x = s
      BY <2>2, <3>2 DEF Sits, ClosedNow, SessionsOf, ActiveSessions
    <3>4. visitOf'[s] = v
      BY <3>2, <3>3 DEF Sits, TypeOK
    <3>5. visitStatus'[v] = "active"
      BY <3>2 DEF Joins, Makes, VisitsClosed, TypeOK
    <3> QED BY <3>4, <3>5
  <2> QED BY <2>1, <2>2
<1>3. \A s, x \in Session : s < x /\ sessionStatus'[s] = "absent" => sessionStatus'[x] = "absent"
  <2>1. ASSUME NEW ss, ClosesFree(ss)
        PROVE  \A s \in Session : (sessionStatus'[s] = "absent") <=> (sessionStatus[s] = "absent")
    BY <2>1 DEF ClosesFree, Closes, ClosedNow
  <2>2. ASSUME NEW g \in Guest, NEW y \in Session, NEW v \in Visit, Sits(g, y, v)
        PROVE  \A s \in Session : (sessionStatus'[s] = "absent") <=> (sessionStatus[s] = "absent" /\ s # y)
    BY <2>2 DEF Sits, ClosedNow, SessionsOf, ActiveSessions
  <2>3. ASSUME NEW g \in Guest, NEW y \in Session, NEW v \in Visit, Sits(g, y, v)
        PROVE  \A s \in Session : s < y => sessionStatus[s] # "absent"
    BY <2>3 DEF Sits
  <2>4. \A s, x \in Session : s < x /\ sessionStatus[s] = "absent" => sessionStatus[x] = "absent"
    BY DEF NumberingInv
  <2>5. CASE \E ss : ClosesFree(ss)
    BY <2>1, <2>4, <2>5
  <2>6. ASSUME NEW g \in Guest, NEW y \in Session, NEW v \in Visit, Sits(g, y, v),
               NEW s \in Session, NEW x \in Session, s < x, sessionStatus'[s] = "absent"
        PROVE  sessionStatus'[x] = "absent"
    <3>1. sessionStatus[s] = "absent" /\ s # y /\ ~(s < y)
      BY <2>2, <2>3, <2>6
    <3>2. x # y
      BY <2>6, <3>1
    <3> QED BY <2>2, <2>4, <2>6, <3>1, <3>2
  <2> QED BY <2>5, <2>6, SessionsStep
<1>4. \A o \in Order : sessionOf'[o] # 0 => sessionStatus'[sessionOf'[o]] # "absent"
  <2> TAKE o \in Order
  <2>1. CASE sessionOf[o] # 0
    <3>1. sessionOf'[o] = sessionOf[o] /\ sessionOf[o] \in Session /\ sessionStatus[sessionOf[o]] # "absent"
      BY <2>1, OrdersKept DEF NumberingInv, TypeOK
    <3> QED BY <3>1, SessionsKept
  <2>2. CASE sessionOf[o] = 0 /\ sessionOf'[o] # 0
    <3>1. PICK g \in Guest : FinishCheckout(g) /\ sessionOf'[o] = checkout[g]
      BY <2>2, OrdersKept
    <3>2. checkout[g] \in Session /\ guestOf[checkout[g]] = g
      BY <3>1 DEF FinishCheckout, CheckoutInv, TypeOK
    <3>3. sessionStatus[checkout[g]] # "absent"
      BY <3>2, VisitsAssumption DEF TypeOK
    <3> QED BY <3>1, <3>2, <3>3, SessionsKept
  <2> QED BY <2>1, <2>2
<1> QED BY <1>2, <1>3, <1>4 DEF NumberingInv

\* What a step may do to the cart of a guest and to the commands on it.
LEMMA CartStep ==
    ASSUME TypeOK, CheckoutInv, [Next]_vars, NEW g \in Guest
    PROVE  /\ adding'[g] \in {0, adding[g]} \cup SessionsOf(g)
           /\ checkout'[g] \in {0, checkout[g]} \cup SessionsOf(g)
           /\ cart'[g] \in {0, cart[g], adding[g]}
           /\ g \in locked' => /\ cart'[g] = cart[g] /\ checkout'[g] = checkout[g]
                               /\ g \in locked \/ LockCart(g)
           /\ cart'[g] # 0 /\ g \notin strayCarts' =>
                 \/ cart'[g] = cart[g] /\ g \notin strayCarts
                 \/ /\ cart'[g] = adding[g] /\ sessionStatus[adding[g]] = "active"
                    /\ UNCHANGED sessionVars
<1> DEFINE Reads == /\ adding'[g] \in {0, adding[g]} \cup SessionsOf(g)
                    /\ checkout'[g] \in {0, checkout[g]} \cup SessionsOf(g)
                    /\ UNCHANGED <<cart, strayCarts, locked>>
                    /\ g \in locked => checkout'[g] = checkout[g]
           Goal == /\ adding'[g] \in {0, adding[g]} \cup SessionsOf(g)
                   /\ checkout'[g] \in {0, checkout[g]} \cup SessionsOf(g)
                   /\ cart'[g] \in {0, cart[g], adding[g]}
                   /\ g \in locked' => /\ cart'[g] = cart[g] /\ checkout'[g] = checkout[g]
                                       /\ g \in locked \/ LockCart(g)
                   /\ cart'[g] # 0 /\ g \notin strayCarts' =>
                         \/ cart'[g] = cart[g] /\ g \notin strayCarts
                         \/ /\ cart'[g] = adding[g] /\ sessionStatus[adding[g]] = "active"
                            /\ UNCHANGED sessionVars
<1>1. ASSUME Reads PROVE Goal
  BY <1>1
<1>2. ASSUME NEW h \in Guest, ReadForCart(h) PROVE Goal
  BY <1>1, <1>2 DEF ReadForCart, cartVars, TypeOK
<1>3. ASSUME NEW h \in Guest, ReadForCheckout(h) PROVE Goal
  <2>1. h = g => g \notin locked
    BY <1>3 DEF ReadForCheckout, CheckoutInv
  <2> QED BY <1>1, <1>3, <2>1 DEF ReadForCheckout, cartVars, TypeOK
<1>4. ASSUME NEW h \in Guest, FailCheckout(h) PROVE Goal
  BY <1>1, <1>4 DEF FailCheckout, cartVars, TypeOK
<1>5. ASSUME NEW h \in Guest, LockCart(h) PROVE Goal
  BY <1>5 DEF LockCart, cartVars
<1>6. ASSUME NEW h \in Guest, UntieCart(h) PROVE Goal
  BY <1>6 DEF UntieCart, tapVars, TypeOK
<1>7. ASSUME NEW h \in Guest, FinishCheckout(h) PROVE Goal
  BY <1>7 DEF FinishCheckout, TypeOK
<1>8. ASSUME NEW h \in Guest, TieCart(h) PROVE Goal
  <2>1. /\ UNCHANGED <<checkout, locked, sessionVars>> /\ h \notin locked
        /\ adding' = [adding EXCEPT ![h] = 0]
    BY <1>8 DEF TieCart
  <2>2. CASE UNCHANGED cartVars
    BY <2>1, <2>2 DEF cartVars, TypeOK
  <2>3. CASE ~UNCHANGED cartVars
    <3>1. /\ cart' = [cart EXCEPT ![h] = adding[h]]
          /\ strayCarts' = IF sessionStatus[adding[h]] = "active" THEN strayCarts \ {h}
                                                                 ELSE strayCarts \cup {h}
      BY <1>8, <2>3 DEF TieCart
    <3>2. CASE h = g
      BY <2>1, <3>1, <3>2 DEF TypeOK
    <3>3. CASE h # g
      BY <2>1, <3>1, <3>3 DEF TypeOK
    <3> QED BY <3>2, <3>3
  <2> QED BY <2>2, <2>3
<1>9. CASE ~\E h \in Guest : \/ ReadForCart(h) \/ ReadForCheckout(h) \/ FailCheckout(h)
                            \/ LockCart(h) \/ UntieCart(h) \/ FinishCheckout(h) \/ TieCart(h)
  <2>1. UNCHANGED <<cartVars, tapVars>>
    BY <1>9 DEF Next, PlanScan, LeaveVisits, Leave, FinishScan, AbortScan, ReceiveOrder,
       CancelOrder, PayOrders, CloseSession, ListSessions, CloseVisit, vars, cartVars, tapVars
  <2> QED BY <1>1, <2>1 DEF cartVars, tapVars
<1> QED BY <1>2, <1>3, <1>4, <1>5, <1>6, <1>7, <1>8, <1>9

\* What commands on the cart read are sessions of their guest, and a locked cart is kept.
LEMMA CheckoutNext ==
    ASSUME TypeOK, CheckoutInv, ClosingInv, [Next]_vars
    PROVE  CheckoutInv'
<1> SUFFICES ASSUME NEW g \in Guest
             PROVE  /\ \A s \in {adding'[g], checkout'[g], cart'[g]} \ {0} : guestOf'[s] = g
                    /\ g \in locked' => checkout'[g] # 0 /\ cart'[g] = checkout'[g]
  BY DEF CheckoutInv
<1>1. ASSUME NEW s \in Session, guestOf[s] = g PROVE guestOf'[s] = g
  <2>1. sessionStatus[s] # "absent"
    BY <1>1, VisitsAssumption DEF TypeOK
  <2> QED BY <1>1, <2>1, SessionsKept
<1>2. \A s \in {adding[g], checkout[g], cart[g]} \ {0} : s \in Session /\ guestOf[s] = g
  BY DEF CheckoutInv, TypeOK
<1>3. \A s \in SessionsOf(g) : s \in Session /\ guestOf[s] = g
  BY DEF SessionsOf, ActiveSessions
<1>4. {adding'[g], checkout'[g], cart'[g]} \subseteq
         {0, adding[g], checkout[g], cart[g]} \cup SessionsOf(g)
  BY CartStep
<1>5. \A s \in {adding'[g], checkout'[g], cart'[g]} \ {0} : guestOf'[s] = g
  BY <1>1, <1>2, <1>3, <1>4
<1>6. g \in locked' => checkout'[g] # 0 /\ cart'[g] = checkout'[g]
  BY CartStep DEF CheckoutInv, LockCart
<1> QED BY <1>5, <1>6

\* A session that closes without its guest moving has no cart.
LEMMA CartNext ==
    ASSUME TypeOK, NumberingInv, CheckoutInv, CartInv, ClosingInv, [Next]_vars
    PROVE  CartInv'
<1> DEFINE Moved(s, g) == \E x \in Session : x > s /\ guestOf'[x] = g
<1> SUFFICES ASSUME NEW g \in Guest, g \notin strayCarts', cart'[g] # 0,
                    sessionStatus'[cart'[g]] = "closed"
             PROVE  Moved(cart'[g], g)
  BY DEF CartInv
<1>1. CASE UNCHANGED sessionVars /\ cart'[g] = adding[g] /\ sessionStatus[adding[g]] = "active"
  BY <1>1 DEF sessionVars
<1>2. CASE cart'[g] = cart[g] /\ g \notin strayCarts
  <2> DEFINE c == cart[g]
  <2>3. /\ c \in Session /\ guestOf[c] = g /\ sessionStatus[c] # "absent"
        /\ sessionStatus[c] = "closed" => \E s \in Session : s > c /\ guestOf[s] = g
    <3>1. c \in Session /\ guestOf[c] = g
      BY <1>2 DEF CheckoutInv, TypeOK
    <3> QED BY <1>2, <3>1, VisitsAssumption DEF CartInv, TypeOK
  <2>5. ASSUME NEW s \in Session, s > c, guestOf[s] = g PROVE guestOf'[s] = g
    <3>1. sessionStatus[s] # "absent"
      BY <2>5, VisitsAssumption DEF TypeOK
    <3> QED BY <2>5, <3>1, SessionsKept
  <2>6. ASSUME sessionStatus[c] # "closed", sessionStatus'[c] = "closed"
        PROVE  \E s \in Session : s > c /\ guestOf'[s] = g
    <3>1. ASSUME NEW ss, sessionStatus' = ClosedNow(ss), \A s \in ss : CanClose(s,
         paid) \/ CanClose(s, paid')
          PROVE  FALSE
      BY <2>3, <2>6, <3>1 DEF ClosedNow, CanClose
    <3>2. ASSUME NEW h \in Guest, FinishScan(h)
          PROVE  \E s \in Session : s > c /\ guestOf'[s] = g
      <4>1. PICK s \in Session, v \in Visit : Sits(h, s, v)
        BY <2>6, <3>2, FinishShape DEF sessionVars
      <4>2. s # c /\ c \in SessionsOf(h)
        BY <2>3, <2>6, <4>1 DEF Sits, ClosedNow, SessionsOf, ActiveSessions
      <4>3. h = g
        BY <2>3, <4>2 DEF SessionsOf
      <4>4. s > c
        <5>1. ~(s < c)
          BY <2>3, <4>1 DEF NumberingInv, Sits
        <5> QED BY <2>3, <4>2, <5>1 DEF Session
      <4>5. guestOf'[s] = g
        BY <4>1, <4>3 DEF Sits, TypeOK
      <4> QED BY <4>4, <4>5
    <3>3. ASSUME NEW os \in SUBSET Order, PayOrders(os) PROVE FALSE
      BY <3>1, <3>3 DEF PayOrders
    <3>4. ASSUME NEW s \in Session, CloseSession(s) PROVE FALSE
      BY <3>1, <3>4 DEF CloseSession
    <3>5. ASSUME NEW v \in Visit, CloseVisit(v) PROVE FALSE
      BY <2>6, <3>1, <3>5 DEF CloseVisit
    <3> QED BY <2>6, <3>2, <3>3, <3>4, <3>5 DEF Next, PlanScan, LeaveVisits, Leave, AbortScan,
         ReadForCart, TieCart, UntieCart,
         ReadForCheckout, LockCart, FailCheckout, FinishCheckout, ReceiveOrder, CancelOrder, ListSessions,
                vars, sessionVars
  <2> QED BY <1>2, <2>3, <2>5, <2>6
<1> QED BY <1>1, <1>2, CartStep

\* What the staff command has listed stays listed, and no scan gets hold of it.
LEMMA ClosingNext ==
    ASSUME TypeOK, NumberingInv, ClosingInv, LockInv, DecisionInv, [Next]_vars
    PROVE  ClosingInv'
<1> SUFFICES ASSUME NEW v \in Visit, closing'[v] # NotClosing
             PROVE  /\ \A s \in closing'[v] : s \in Session /\ visitOf'[s] = v
                    /\ \A g \in Guest : closing'[v] \cap HeldSessions(g)' = {}
  BY DEF ClosingInv, NotClosing
<1>1. CASE ListSessions(v)
  <2>1. /\ closing'[v] = SeatedAt(v, sessionStatus)
        /\ UNCHANGED <<visitVars, sessionVars, orderVars, cartVars, scan, tapVars>>
        /\ \A s \in SeatedAt(v, sessionStatus) : SessionFree(s)
    BY <1>1 DEF ListSessions, TypeOK
  <2>2. \A g \in Guest : HeldSessions(g)' = HeldSessions(g)
    BY <2>1 DEF HeldSessions, SessionsOf, ActiveSessions, sessionVars
  <2> QED BY <2>1, <2>2 DEF SeatedAt, ActiveSessions, SessionFree, sessionVars
<1>2. CASE ~ListSessions(v)
  <2>1. ~CloseVisit(v)
    BY DEF CloseVisit, TypeOK
  <2>2. closing'[v] = closing[v]
    <3>1. ASSUME NEW w \in Visit \ {v}, ListSessions(w) \/ CloseVisit(w) PROVE closing'[v] = closing[v]
      BY <3>1 DEF ListSessions, CloseVisit, TypeOK
    <3>2. CASE ~\E w \in Visit : ListSessions(w) \/ CloseVisit(w)
      BY <3>2 DEF Next, PlanScan, LeaveVisits, Leave, FinishScan, AbortScan, ReadForCart, TieCart, UntieCart,
       ReadForCheckout, LockCart, FailCheckout, FinishCheckout, ReceiveOrder, CancelOrder, PayOrders, CloseSession, vars
    <3> QED BY <1>2, <2>1, <3>1, <3>2
  <2>3. /\ \A s \in closing[v] : s \in Session /\ visitOf[s] = v
        /\ \A g \in Guest : closing[v] \cap HeldSessions(g) = {}
    BY <2>2 DEF ClosingInv
  <2>4. \A s \in closing[v] : visitOf'[s] = v
    BY <2>3, SessionsKept DEF TypeOK, Visit
  <2>5. ASSUME NEW g \in Guest PROVE closing[v] \cap HeldSessions(g)' = {}
    <3>1. CASE scan'[g].phase # "leaving"
      BY <3>1 DEF HeldSessions
    <3>2. CASE scan[g].phase = "leaving" /\ scan'[g] = scan[g] /\ ~FinishScan(g)
      <4>1. HeldSessions(g)' = HeldSessions(g)
        BY <3>2, HeldKept DEF HeldSessions
      <4> QED BY <2>3, <4>1
    <3>3. CASE LeaveVisits(g)
      <4>1. SessionsOf(g)' = SessionsOf(g)
        BY <3>3 DEF LeaveVisits, Leave, SessionsOf, ActiveSessions, sessionVars
      <4>2. \A s \in SessionsOf(g) : s \notin closing[v]
        BY <3>3 DEF LeaveVisits, SessionFree
      <4> QED BY <4>1, <4>2 DEF HeldSessions
    <3> QED BY <3>1, <3>2, <3>3, ScanStep
  <2> QED BY <2>2, <2>3, <2>4, <2>5
<1> QED BY <1>1, <1>2

\* Scans get hold of free visits only.
LEMMA LockNext ==
    ASSUME TypeOK, NumberingInv, ClosingInv, LockInv, DecisionInv, [Next]_vars
    PROVE  LockInv'
<1>1. ASSUME NEW g \in Guest
      PROVE  \/ HeldVisits(g)' \subseteq HeldVisits(g)
             \/ LeaveVisits(g) /\ HeldVisits(g)' = VisitsLeft(g)
  <2>1. CASE scan'[g].phase # "leaving"
    BY <2>1 DEF HeldVisits
  <2>2. CASE scan[g].phase = "leaving" /\ scan'[g] = scan[g] /\ ~FinishScan(g)
    BY <2>2, HeldKept DEF HeldVisits
  <2>3. CASE LeaveVisits(g)
    <3>1. scan'[g].phase = "leaving" /\ scan'[g].target = scan[g].target
      BY <2>3 DEF LeaveVisits, Leave, TypeOK
    <3>2. VisitsLeft(g)' = VisitsLeft(g)
      BY <2>3, <3>1 DEF LeaveVisits, Leave, VisitsLeft, SessionsOf, ActiveSessions, sessionVars
    <3> QED BY <2>3, <3>1, <3>2 DEF HeldVisits
  <2> QED BY <2>1, <2>2, <2>3, ScanStep
<1>2. ASSUME NEW g \in Guest, NEW h \in Guest, g # h, LeaveVisits(g)
      PROVE  HeldVisits(g)' \cap HeldVisits(h)' = {}
  <2>1. ~LeaveVisits(h)
    <3>1. SUFFICES ASSUME LeaveVisits(h) PROVE FALSE
      OBVIOUS
    <3>2. scan'[h] = scan[h]
      BY <1>2 DEF LeaveVisits, Leave, TypeOK
    <3>3. scan'[h].phase = "leaving" /\ scan[h].phase = "planned"
      BY <3>1 DEF LeaveVisits, Leave, TypeOK
    <3> QED BY <3>2, <3>3
  <2>2. HeldVisits(h)' \subseteq HeldVisits(h)
    BY <1>1, <2>1
  <2>3. HeldVisits(g)' \subseteq VisitsLeft(g)
    <3>1. HeldVisits(g) = {}
      BY <1>2 DEF LeaveVisits, HeldVisits
    <3> QED BY <1>1, <3>1
  <2>4. \A v \in VisitsLeft(g) : v \notin HeldVisits(h)
    BY <1>2 DEF LeaveVisits, VisitFree
  <2> QED BY <2>2, <2>3, <2>4
<1>3. ASSUME NEW g \in Guest, NEW h \in Guest, g # h, ~LeaveVisits(g), ~LeaveVisits(h)
      PROVE  HeldVisits(g)' \cap HeldVisits(h)' = {}
  BY <1>1, <1>3 DEF LockInv
<1> QED BY <1>2, <1>3 DEF LockInv

\* Orders of a visit stay orders of the visit, and its debts only shrink, or are late.
LEMMA DebtsOfVisit ==
    ASSUME TypeOK, [Next]_vars, NEW v,
           {s \in Session : visitOf[s] = v}' = {s \in Session : visitOf[s] = v}
    PROVE  /\ OrdersOf({s \in Session : visitOf[s] = v}) \subseteq OrdersOf({s \in Session : visitOf[s] = v})'
           /\ \A o \in (OrdersOf({s \in Session : visitOf[s] = v}) \cap Debts(paid))' :
                 \/ o \in OrdersOf({s \in Session : visitOf[s] = v}) \cap Debts(paid)
                 \/ \E g \in Guest : /\ FinishCheckout(g) /\ sessionOf'[o] = checkout[g]
                                     /\ sessionOf[o] = 0 /\ visitOf[checkout[g]] = v
                                     /\ checkout[g] \in Session
<1> DEFINE there == {s \in Session : visitOf[s] = v}
<1>1. OrdersOf(there) \subseteq OrdersOf(there)'
  <2>1. \A o \in OrdersOf(there) : sessionOf[o] # 0
    BY DEF OrdersOf, Session
  <2> QED BY <2>1, OrdersKept DEF OrdersOf
<1>2. ASSUME NEW o \in (OrdersOf(there) \cap Debts(paid))', sessionOf[o] # 0
      PROVE  o \in OrdersOf(there) \cap Debts(paid)
  <2>1. o \in Order /\ sessionOf'[o] = sessionOf[o]
    BY <1>2, OrdersKept DEF OrdersOf
  <2>2. o \in OrdersOf(there)
    BY <1>2, <2>1 DEF OrdersOf
  <2>3. o \notin paid' \cup canceled'
    BY <1>2 DEF Debts
  <2> QED BY <1>2, <2>1, <2>2, <2>3, OrdersKept DEF Debts
<1>3. ASSUME NEW o \in (OrdersOf(there) \cap Debts(paid))', sessionOf[o] = 0
      PROVE  \E g \in Guest : /\ FinishCheckout(g) /\ sessionOf'[o] = checkout[g]
                              /\ sessionOf[o] = 0 /\ visitOf[checkout[g]] = v
                              /\ checkout[g] \in Session
  <2>1. o \in Order /\ sessionOf'[o] \in there'
    BY <1>3 DEF OrdersOf
  <2>2. sessionOf'[o] \in Session /\ visitOf[sessionOf'[o]] = v
    BY <2>1
  <2>3. sessionOf'[o] # 0
    BY <2>2 DEF Session
  <2> QED BY <1>3, <2>1, <2>2, <2>3, OrdersKept
<1> QED BY <1>1, <1>2, <1>3

\* What a scan has decided stays right: whoever could change it waits for its locks.
LEMMA DecisionNext ==
    ASSUME TypeOK, NumberingInv, CheckoutInv, ClosingInv, LockInv, DecisionInv, [Next]_vars
    PROVE  DecisionInv'
<1> DEFINE of(v) == {s \in Session : visitOf[s] = v}
           Right(h) == /\ \A v \in scan[h].closes :
                             /\ v \in VisitsLeft(h) /\ visitStatus[v] = "active"
                             /\ SeatedAt(v, sessionStatus) \subseteq SessionsOf(h)
                             /\ OrdersOf(of(v)) \cap Debts(paid) \subseteq late
                       /\ \A v \in VisitsLeft(h) \ scan[h].closes : visitStatus[v] = "active" =>
                             \/ ~(SeatedAt(v, sessionStatus) \subseteq SessionsOf(h))
                             \/ OrdersOf(of(v)) # {}
<1> SUFFICES ASSUME NEW h \in Guest, scan'[h].phase = "leaving" PROVE Right(h)'
  BY DEF DecisionInv
<1>1. CASE LeaveVisits(h)
  <2>1. /\ UNCHANGED <<visitVars, sessionVars, orderVars>>
        /\ scan'[h].target = scan[h].target
        /\ scan'[h].closes = Finished(VisitsLeft(h), ClosedNow(SessionsOf(h)), paid)
    BY <1>1 DEF LeaveVisits, Leave, TypeOK
  <2>2. /\ SessionsOf(h)' = SessionsOf(h) /\ VisitsLeft(h)' = VisitsLeft(h)
        /\ \A v : /\ SeatedAt(v, sessionStatus)' = SeatedAt(v, sessionStatus)
                  /\ (OrdersOf(of(v)) \cap Debts(paid))' = OrdersOf(of(v)) \cap Debts(paid)
                  /\ OrdersOf(of(v))' = OrdersOf(of(v))
    BY <2>1 DEF SessionsOf, VisitsLeft, ActiveSessions, SeatedAt, OrdersOf, Debts, sessionVars,
         orderVars
  <2>3. \A v : SeatedAt(v, ClosedNow(SessionsOf(h))) = SeatedAt(v, sessionStatus) \ SessionsOf(h)
    BY DEF SeatedAt, ActiveSessions, ClosedNow, SessionsOf
  <2>4. \A v \in scan'[h].closes : /\ v \in VisitsLeft(h) /\ visitStatus[v] = "active"
                                   /\ SeatedAt(v, sessionStatus) \subseteq SessionsOf(h)
                                   /\ OrdersOf(of(v)) \cap Debts(paid) \subseteq late
    BY <2>1, <2>3 DEF Finished, Unsettled
  <2>5. \A v \in VisitsLeft(h) \ scan'[h].closes : visitStatus[v] = "active" =>
                             \/ ~(SeatedAt(v, sessionStatus) \subseteq SessionsOf(h))
                             \/ OrdersOf(of(v)) # {}
    BY <2>1, <2>3 DEF Finished, Unsettled
  <2>6. visitStatus' = visitStatus /\ late' = late
    BY <2>1 DEF visitVars, orderVars
  <2>7. \A v \in scan'[h].closes : /\ v \in VisitsLeft(h)' /\ visitStatus'[v] = "active"
                                   /\ SeatedAt(v, sessionStatus)' \subseteq SessionsOf(h)'
                                   /\ (OrdersOf(of(v)) \cap Debts(paid))' \subseteq late'
    <3> TAKE v \in scan'[h].closes
    <3>1. /\ SeatedAt(v, sessionStatus)' = SeatedAt(v, sessionStatus)
          /\ (OrdersOf(of(v)) \cap Debts(paid))' = OrdersOf(of(v)) \cap Debts(paid)
      BY <2>2
    <3>2. /\ v \in VisitsLeft(h) /\ visitStatus[v] = "active"
          /\ SeatedAt(v, sessionStatus) \subseteq SessionsOf(h)
          /\ OrdersOf(of(v)) \cap Debts(paid) \subseteq late
      BY <2>4
    <3>3. SessionsOf(h)' = SessionsOf(h) /\ VisitsLeft(h)' = VisitsLeft(h)
      BY <2>2
    <3> QED BY <2>6, <3>1, <3>2, <3>3
  <2>8. \A v \in VisitsLeft(h)' \ scan'[h].closes : visitStatus'[v] = "active" =>
                             \/ ~(SeatedAt(v, sessionStatus)' \subseteq SessionsOf(h)')
                             \/ OrdersOf(of(v))' # {}
    <3> TAKE v \in VisitsLeft(h)' \ scan'[h].closes
    <3>1. v \in VisitsLeft(h) \ scan'[h].closes
      BY <2>2
    <3>2. visitStatus[v] = "active" =>
              \/ ~(SeatedAt(v, sessionStatus) \subseteq SessionsOf(h))
              \/ OrdersOf(of(v)) # {}
      BY <2>5, <3>1
    <3>3. /\ SessionsOf(h)' = SessionsOf(h)
          /\ SeatedAt(v, sessionStatus)' = SeatedAt(v, sessionStatus)
          /\ OrdersOf(of(v))' = OrdersOf(of(v))
      BY <2>2
    <3> QED BY <2>6, <3>2, <3>3
  <2> QED BY <2>7, <2>8
<1>2. CASE scan[h].phase = "leaving" /\ scan'[h] = scan[h] /\ ~FinishScan(h)
  <2>1. /\ SessionsOf(h)' = SessionsOf(h) /\ VisitsLeft(h)' = VisitsLeft(h)
        /\ \A v \in VisitsLeft(h) : /\ visitStatus'[v] = visitStatus[v]
                                    /\ SeatedAt(v, sessionStatus)' = SeatedAt(v, sessionStatus)
                                    /\ of(v)' = of(v)
    BY <1>2, HeldKept
  <2>2. Right(h)
    BY <1>2 DEF DecisionInv
  <2>3. ASSUME NEW v \in scan[h].closes
        PROVE  (OrdersOf(of(v)) \cap Debts(paid))' \subseteq late'
    <3>1. v \in VisitsLeft(h) /\ of(v)' = of(v)
      BY <2>1, <2>2, <2>3
    <3>2. ASSUME NEW o \in OrdersOf(of(v)) \cap Debts(paid) PROVE o \in late'
      BY <2>2, <2>3, <3>2, OrdersKept
    <3>3. ASSUME NEW o \in Order, NEW g \in Guest, FinishCheckout(g), sessionOf'[o] = checkout[g],
                 sessionOf[o] = 0, visitOf[checkout[g]] = v, checkout[g] \in Session
          PROVE  o \in late'
      <4>1. sessionStatus[checkout[g]] # "active"
        <5>1. SUFFICES ASSUME sessionStatus[checkout[g]] = "active" PROVE FALSE
          OBVIOUS
        <5>2. checkout[g] \in SessionsOf(h)
          BY <2>2, <2>3, <3>3, <5>1 DEF SeatedAt, ActiveSessions
        <5> QED BY <1>2, <3>3, <5>2 DEF FinishCheckout, SessionFree, HeldSessions
      <4>2. PICK x \in Order : /\ sessionOf' = [sessionOf EXCEPT ![x] = checkout[g]]
                               /\ late' = late \cup {x}
        BY <3>3, <4>1 DEF FinishCheckout
      <4>3. x = o
        BY <3>3, <4>2 DEF TypeOK, Session
      <4> QED BY <4>2, <4>3
    <3>4. \A o \in OrdersOf(of(v))' : o \in Order
      BY DEF OrdersOf
    <3> QED BY <3>1, <3>2, <3>3, <3>4, DebtsOfVisit
  <2>4. ASSUME NEW v \in VisitsLeft(h), OrdersOf(of(v)) # {} PROVE OrdersOf(of(v))' # {}
    BY <2>1, <2>4, DebtsOfVisit
  <2>5. \A v \in scan'[h].closes : /\ v \in VisitsLeft(h)' /\ visitStatus'[v] = "active"
                                   /\ SeatedAt(v, sessionStatus)' \subseteq SessionsOf(h)'
                                   /\ (OrdersOf(of(v)) \cap Debts(paid))' \subseteq late'
    <3> TAKE v \in scan'[h].closes
    <3>1. v \in scan[h].closes
      BY <1>2
    <3>2. /\ v \in VisitsLeft(h) /\ visitStatus[v] = "active"
          /\ SeatedAt(v, sessionStatus) \subseteq SessionsOf(h)
      BY <2>2, <3>1
    <3>3. /\ v \in VisitsLeft(h)' /\ visitStatus'[v] = "active"
          /\ SeatedAt(v, sessionStatus)' \subseteq SessionsOf(h)'
      BY <2>1, <3>2
    <3>4. (OrdersOf(of(v)) \cap Debts(paid))' \subseteq late'
      BY <2>3, <3>1
    <3> QED BY <3>3, <3>4
  <2>6. \A v \in VisitsLeft(h)' \ scan'[h].closes : visitStatus'[v] = "active" =>
                             \/ ~(SeatedAt(v, sessionStatus)' \subseteq SessionsOf(h)')
                             \/ OrdersOf(of(v))' # {}
    <3> TAKE v \in VisitsLeft(h)' \ scan'[h].closes
    <3>1. v \in VisitsLeft(h) \ scan[h].closes
      BY <1>2, <2>1
    <3>2. visitStatus[v] = "active" =>
              \/ ~(SeatedAt(v, sessionStatus) \subseteq SessionsOf(h))
              \/ OrdersOf(of(v)) # {}
      BY <2>2, <3>1
    <3>3. /\ SessionsOf(h)' = SessionsOf(h)
          /\ SeatedAt(v, sessionStatus)' = SeatedAt(v, sessionStatus)
          /\ visitStatus'[v] = visitStatus[v]
      BY <2>1, <3>1
    <3>4. OrdersOf(of(v)) # {} => OrdersOf(of(v))' # {}
      BY <2>4, <3>1
    <3> QED BY <3>2, <3>3, <3>4
  <2> QED BY <2>5, <2>6
<1> QED BY <1>1, <1>2, ScanStep

\* A session closes with a debt only when its guest moves, and none comes later but from a cart
\* tied to it too late.
LEMMA DebtLeftNext ==
    ASSUME TypeOK, NumberingInv, CheckoutInv, CartInv, ClosingInv, ClosedWithoutDebt, [Next]_vars
    PROVE  ClosedWithoutDebt'
<1> SUFFICES ASSUME NEW o \in Debts(paid)', o \notin stray',
                    sessionStatus'[sessionOf'[o]] = "closed"
             PROVE  \E s \in Session : s > sessionOf'[o] /\ guestOf'[s] = guestOf'[sessionOf'[o]]
  BY DEF ClosedWithoutDebt
<1> DEFINE c == sessionOf'[o]
<1>1. o \in Order /\ c # 0 /\ o \notin paid' \cup canceled'
  BY DEF Debts
<1>2. ASSUME NEW x \in Session, guestOf[x] # None PROVE guestOf'[x] = guestOf[x]
  BY <1>2, SessionsKept DEF TypeOK
<1>3. CASE sessionOf[o] = 0
  <2>1. PICK g \in Guest : FinishCheckout(g) /\ c = checkout[g]
    BY <1>1, <1>3, OrdersKept
  <2>2. c \in Session /\ guestOf[c] = g /\ cart[g] = c /\ UNCHANGED sessionVars
    <3>1. g \in locked /\ UNCHANGED sessionVars
      BY <2>1 DEF FinishCheckout
    <3>2. checkout[g] \in Session /\ checkout[g] # 0
      BY <3>1 DEF CheckoutInv, TypeOK
    <3>3. guestOf[checkout[g]] = g /\ cart[g] = checkout[g]
      BY <3>1, <3>2 DEF CheckoutInv
    <3> QED BY <2>1, <3>1, <3>2, <3>3
  <2>3. sessionStatus[c] = "closed" /\ guestOf' = guestOf
    BY <2>2 DEF sessionVars
  <2>5. g \notin strayCarts
    <3>1. PICK x \in Order : /\ sessionOf' = [sessionOf EXCEPT ![x] = checkout[g]]
                             /\ stray' = IF g \in strayCarts THEN stray \cup {x} ELSE stray
      BY <2>1 DEF FinishCheckout
    <3>2. x = o
      BY <1>1, <1>3, <3>1 DEF TypeOK
    <3> QED BY <3>1, <3>2
  <2>4. \E s \in Session : s > c /\ guestOf[s] = g
    BY <1>1, <2>2, <2>3, <2>5 DEF CartInv
  <2> QED BY <2>2, <2>3, <2>4
<1>4. CASE sessionOf[o] # 0
  <2>1. c = sessionOf[o] /\ c \in Session
    BY <1>1, <1>4, OrdersKept DEF TypeOK
  <2>2. sessionStatus[c] # "absent" /\ guestOf[c] \in Guest /\ guestOf'[c] = guestOf[c]
    <3>1. sessionStatus[c] # "absent"
      BY <1>1, <1>4, <2>1 DEF NumberingInv
    <3>2. guestOf[c] \in Guest
      BY <2>1, <3>1, VisitsAssumption DEF TypeOK
    <3> QED BY <1>2, <2>1, <3>1, <3>2, VisitsAssumption
  <2>3. o \in Debts(paid) \ stray
    BY <1>1, <1>4, OrdersKept DEF Debts
  <2>4. CASE sessionStatus[c] = "closed"
    <3>1. PICK s \in Session : s > c /\ guestOf[s] = guestOf[c]
      BY <2>1, <2>3, <2>4 DEF ClosedWithoutDebt
    <3>2. guestOf'[s] = guestOf[s]
      BY <1>2, <2>2, <3>1, VisitsAssumption
    <3> QED BY <2>2, <3>1, <3>2
  <2>5. CASE sessionStatus[c] # "closed"
    <3>1. ASSUME NEW ss, sessionStatus' = ClosedNow(ss), \A s \in ss : CanClose(s,
         paid) \/ CanClose(s, paid')
          PROVE  FALSE
      <4>1. c \in ss
        BY <2>1, <2>5, <3>1 DEF ClosedNow
      <4>2. o \in OrdersOf({c})
        BY <1>1, <2>1 DEF OrdersOf
      <4> QED BY <1>1, <3>1, <4>1, <4>2, OrdersKept DEF CanClose
    <3>2. ASSUME NEW h \in Guest, FinishScan(h)
          PROVE  \E s \in Session : s > c /\ guestOf'[s] = guestOf'[c]
      <4>1. PICK s \in Session, v \in Visit : Sits(h, s, v)
        BY <2>5, <3>2, FinishShape DEF sessionVars
      <4>2. s # c /\ c \in SessionsOf(h)
        BY <2>1, <2>2, <2>5, <4>1 DEF Sits, ClosedNow, SessionsOf, ActiveSessions
      <4>3. guestOf[c] = h
        BY <4>2 DEF SessionsOf
      <4>4. s > c
        <5>1. ~(s < c)
          BY <2>1, <2>2, <4>1 DEF NumberingInv, Sits
        <5> QED BY <2>1, <4>2, <5>1 DEF Session
      <4>5. guestOf'[s] = h
        BY <4>1 DEF Sits, TypeOK
      <4> QED BY <2>2, <4>3, <4>4, <4>5
    <3>3. ASSUME NEW os \in SUBSET Order, PayOrders(os) PROVE FALSE
      BY <3>1, <3>3 DEF PayOrders
    <3>4. ASSUME NEW s \in Session, CloseSession(s) PROVE FALSE
      BY <3>1, <3>4 DEF CloseSession
    <3>5. ASSUME NEW v \in Visit, CloseVisit(v) PROVE FALSE
      BY <2>5, <3>1, <3>5 DEF CloseVisit
    <3> QED BY <2>5, <3>2, <3>3, <3>4, <3>5 DEF Next, PlanScan, LeaveVisits, Leave, AbortScan,
         ReadForCart, TieCart, UntieCart,
       ReadForCheckout, LockCart, FailCheckout, FinishCheckout, ReceiveOrder, CancelOrder, ListSessions,
                vars, sessionVars
  <2> QED BY <2>1, <2>4, <2>5
<1> QED BY <1>3, <1>4

\* Whoever closes the last session of a visit closes the visit, unless it has orders.
LEMMA NoForgottenNext ==
    ASSUME TypeOK, NumberingInv, ClosingInv, LockInv, DecisionInv, NoForgottenVisit, [Next]_vars
    PROVE  NoForgottenVisit'
<1> DEFINE of(v) == {s \in Session : visitOf[s] = v}
<1> SUFFICES ASSUME NEW v \in Visit, visitStatus'[v] = "active", SeatedAt(v, sessionStatus)' = {}
             PROVE  OrdersOf(of(v))' # {}
  BY DEF NoForgottenVisit
<1>1. v # 0
  BY DEF Visit
<1>2. ASSUME OrdersOf(of(v)) # {} PROVE OrdersOf(of(v))' # {}
  <2>1. PICK o \in Order : sessionOf[o] \in Session /\ visitOf[sessionOf[o]] = v
    BY <1>2 DEF OrdersOf
  <2>2. sessionOf[o] # 0 /\ sessionStatus[sessionOf[o]] # "absent"
    BY <2>1, <1>1 DEF Session, TypeOK
  <2>3. sessionOf'[o] = sessionOf[o] /\ visitOf'[sessionOf[o]] = v
    BY <2>1, <2>2, OrdersKept, SessionsKept
  <2> QED BY <2>1, <2>3 DEF OrdersOf
<1>3. ASSUME visitStatus[v] = "active", SeatedAt(v, sessionStatus) = {} PROVE OrdersOf(of(v))' # {}
  BY <1>2, <1>3 DEF NoForgottenVisit
<1>4. ASSUME NEW ss, sessionStatus' = ClosedNow(ss), visitOf' = visitOf
      PROVE  SeatedAt(v, ClosedNow(ss)) = {}
  BY <1>4 DEF SeatedAt, ActiveSessions
<1>5. ASSUME NEW g \in Guest, FinishScan(g) PROVE OrdersOf(of(v))' # {}
  <2>1. CASE UNCHANGED <<visitVars, sessionVars>>
    <3>1. visitStatus[v] = "active" /\ SeatedAt(v, sessionStatus) = {}
      BY <2>1 DEF SeatedAt, ActiveSessions, visitVars, sessionVars
    <3> QED BY <1>3, <3>1
  <2>2. CASE ~UNCHANGED <<visitVars, sessionVars>>
    <3>1. PICK s \in Session, w \in Visit : Sits(g, s, w) /\ (Joins(g, w) \/ Makes(g, w))
      BY <1>5, <2>2, FinishShape
    <3>2. sessionStatus'[s] = "active" /\ visitOf'[s] = w /\ sessionStatus[s] = "absent"
      BY <3>1 DEF Sits, ClosedNow, TypeOK
    <3>3. v # w
      BY <3>2 DEF SeatedAt, ActiveSessions
    <3>4. v \notin scan[g].closes /\ visitStatus[v] = "active"
      BY <3>1, <3>3 DEF Joins, Makes, VisitsClosed
    <3>5. \A x \in SeatedAt(v, sessionStatus) : x \in SessionsOf(g)
      <4> TAKE x \in SeatedAt(v, sessionStatus)
      <4>1. x \in Session /\ sessionStatus[x] = "active" /\ visitOf[x] = v
        BY DEF SeatedAt, ActiveSessions
      <4>2. visitOf'[x] = v /\ sessionStatus'[x] # "active"
        BY <4>1, SessionsKept DEF SeatedAt, ActiveSessions
      <4> QED BY <3>1, <3>2, <4>1, <4>2 DEF Sits, ClosedNow, TypeOK
    <3>6. CASE SeatedAt(v, sessionStatus) = {}
      BY <1>3, <3>4, <3>6
    <3>7. CASE SeatedAt(v, sessionStatus) # {}
      <4>1. v \in VisitsLeft(g)
        <5>1. v \in {visitOf[x] : x \in SessionsOf(g)}
          BY <3>5, <3>7 DEF SeatedAt
        <5>2. v # scan[g].target
          <6>1. CASE Joins(g, w)
            BY <3>3, <6>1 DEF Joins
          <6>2. CASE Makes(g, w)
            BY <1>1, <3>4, <6>2 DEF Makes, StillOpen, VisitsClosed
          <6> QED BY <3>1, <6>1, <6>2
        <5> QED BY <5>1, <5>2 DEF VisitsLeft
      <4>2. scan[g].phase = "leaving"
        BY <1>5 DEF FinishScan
      <4>3. OrdersOf(of(v)) # {}
        BY <3>4, <3>5, <4>1, <4>2 DEF DecisionInv
      <4> QED BY <1>2, <4>3
    <3> QED BY <3>6, <3>7
  <2> QED BY <2>1, <2>2
<1>6. ASSUME NEW ss, NEW vs, NEW pd, sessionStatus' = ClosedNow(ss), visitOf' = visitOf,
             vs = {visitOf[s] : s \in ss}, visitStatus' = VisitsClosed(Finished(vs,
                  ClosedNow(ss), pd))
      PROVE  OrdersOf(of(v))' # {}
  <2>1. visitStatus[v] = "active" /\ v \notin Finished(vs, ClosedNow(ss), pd)
    BY <1>6 DEF VisitsClosed
  <2>2. CASE v \in vs
    <3>1. Unsettled(v, pd)
      BY <1>4, <1>6, <2>1, <2>2 DEF Finished
    <3> QED BY <1>2, <3>1 DEF Unsettled
  <2>3. CASE v \notin vs
    <3>1. SeatedAt(v, sessionStatus) = {}
      BY <1>4, <1>6, <2>3 DEF SeatedAt, ActiveSessions, ClosedNow
    <3> QED BY <1>3, <2>1, <3>1
  <2> QED BY <2>2, <2>3
<1>7. ASSUME NEW os \in SUBSET Order, PayOrders(os) PROVE OrdersOf(of(v))' # {}
  BY <1>6, <1>7 DEF PayOrders
<1>8. ASSUME NEW s \in Session, CloseSession(s) PROVE OrdersOf(of(v))' # {}
  <2>1. {visitOf[s]} = {visitOf[x] : x \in {s}}
    OBVIOUS
  <2> QED BY <1>6, <1>8, <2>1 DEF CloseSession
<1>9. ASSUME NEW w \in Visit, CloseVisit(w) PROVE OrdersOf(of(v))' # {}
  <2>1. visitOf' = visitOf
    BY <1>9 DEF CloseVisit
  <2>2. CASE UNCHANGED <<sessionStatus, visitStatus>>
    BY <1>3, <2>1, <2>2 DEF SeatedAt, ActiveSessions
  <2>3. CASE ~UNCHANGED <<sessionStatus, visitStatus>>
    <3>1. /\ sessionStatus' = ClosedNow(closing[w]) /\ closing[w] # NotClosing
          /\ visitStatus' = [visitStatus EXCEPT ![w] = "closed"]
      BY <1>9, <2>3 DEF CloseVisit
    <3>2. v # w /\ visitStatus[v] = "active"
      BY <3>1 DEF TypeOK
    <3>3. \A s \in closing[w] : visitOf[s] # v
      BY <3>1, <3>2 DEF ClosingInv
    <3>4. SeatedAt(v, sessionStatus) = {}
      BY <1>4, <2>1, <3>1, <3>3 DEF SeatedAt, ActiveSessions, ClosedNow
    <3> QED BY <1>3, <3>2, <3>4
  <2> QED BY <2>2, <2>3
<1>10. CASE UNCHANGED <<visitVars, sessionVars>>
  <2>1. visitStatus[v] = "active" /\ SeatedAt(v, sessionStatus) = {}
    BY <1>10 DEF SeatedAt, ActiveSessions, visitVars, sessionVars
  <2> QED BY <1>3, <2>1
<1> QED BY <1>5, <1>7, <1>8, <1>9, <1>10 DEF Next, PlanScan, LeaveVisits, Leave, AbortScan,
     ReadForCart, TieCart, UntieCart,
       ReadForCheckout, LockCart, FailCheckout, FinishCheckout, ReceiveOrder, CancelOrder, ListSessions, vars,
           visitVars, sessionVars

-----------------------------------------------------------------------------
(* The theorems *)

\* The invariant holds in every reachable state: scans hold different visits, and what they
\* have decided under their locks stays right.
THEOREM InvariantHolds == Spec => []IInv
<1>1. Init => IInv
  BY VisitsAssumption DEF Init, IInv, TypeOK, NumberingInv, CheckoutInv, CartInv, ClosingInv,
       LockInv, DecisionInv,
     ClosedWithoutDebt, NoForgottenVisit, Debts, OrdersOf, NoScan, HeldVisits, Session, Visit, Order
<1>2. IInv /\ [Next]_vars => IInv'
  <2> SUFFICES ASSUME IInv, [Next]_vars PROVE IInv'
    OBVIOUS
  <2> USE DEF IInv
  <2>1. TypeOK'
    BY TypeNext
  <2>2. NumberingInv' /\ CheckoutInv' /\ CartInv'
    BY NumberingNext, CheckoutNext, CartNext
  <2>3. ClosingInv' /\ LockInv'
    BY ClosingNext, LockNext
  <2>4. DecisionInv'
    BY DecisionNext
  <2>5. ClosedWithoutDebt' /\ NoForgottenVisit'
    BY DebtLeftNext, NoForgottenNext
  <2> QED BY <2>1, <2>2, <2>3, <2>4, <2>5
<1> QED BY <1>1, <1>2, PTL DEF Spec

\* Every reachable state is well typed.
THEOREM TypeCorrect == Spec => []TypeOK
BY InvariantHolds, PTL DEF IInv

\* The staff and payments close no session that owes something: only a guest who moves leaves a
\* debt behind, or a cart tied to a session after it had closed brings one.
THEOREM SessionsClosedWithoutDebt == Spec => []ClosedWithoutDebt
BY InvariantHolds, PTL DEF IInv

\* The last guest to leave a visit without orders closes it.
THEOREM NoVisitForgotten == Spec => []NoForgottenVisit
BY InvariantHolds, PTL DEF IInv

\* Nobody is seated in a visit that has closed before the scan commits.
THEOREM JoinsAreOpen == Spec => JoinsOpenVisit
<1> DEFINE Open == \A s \in Session : sessionStatus[s] = "absent" /\ sessionStatus'[s] = "active"
                      => visitStatus'[visitOf'[s]] = "active"
<1>1. IInv /\ [Next]_vars => [Open]_vars
  <2> SUFFICES ASSUME IInv, [Next]_vars, NEW s \in Session,
                      sessionStatus[s] = "absent", sessionStatus'[s] = "active"
               PROVE  visitStatus'[visitOf'[s]] = "active"
    OBVIOUS
  <2>1. ~\E ss : ClosesFree(ss)
    BY DEF ClosesFree, Closes, ClosedNow
  <2>2. PICK g \in Guest, x \in Session, v \in Visit : Sits(g, x, v) /\ (Joins(g, v) \/ Makes(g, v))
    BY <2>1, SessionsStep DEF IInv
  <2>3. x = s
    BY <2>2 DEF Sits, ClosedNow, IInv, TypeOK
  <2>4. visitOf'[s] = v
    BY <2>2, <2>3 DEF Sits, IInv, TypeOK
  <2>5. visitStatus'[v] = "active"
    BY <2>2 DEF Joins, Makes, VisitsClosed, IInv, TypeOK
  <2> QED BY <2>4, <2>5
<1> QED BY <1>1, InvariantHolds, PTL DEF Spec, JoinsOpenVisit

\* A visit closes with no debt but what was ordered late.
THEOREM ClosesAreSettled == Spec => ClosesSettled
<1> DEFINE of(v) == {s \in Session : visitOf[s] = v}
           Settled == \A v \in Visit : visitStatus[v] = "active" /\ visitStatus'[v] = "closed"
                         => (OrdersOf(of(v)) \cap Debts(paid))' \subseteq late'
<1>1. IInv /\ [Next]_vars => [Settled]_vars
  <2> SUFFICES ASSUME IInv, [Next]_vars, NEW v \in Visit,
                      visitStatus[v] = "active", visitStatus'[v] = "closed"
               PROVE  (OrdersOf(of(v)) \cap Debts(paid))' \subseteq late'
    OBVIOUS
  <2>1. ASSUME NEW g \in Guest, FinishScan(g) PROVE (OrdersOf(of(v)) \cap Debts(paid))' \subseteq late'
    <3>1. PICK s \in Session, w \in Visit : Sits(g, s, w) /\ (Joins(g, w) \/ Makes(g, w))
      BY <2>1, FinishShape DEF IInv, visitVars
    <3>2. v \in scan[g].closes /\ v # w
      BY <3>1 DEF Joins, Makes, VisitsClosed, IInv, TypeOK
    <3>3. OrdersOf(of(v)) \cap Debts(paid) \subseteq late
      BY <2>1, <3>2 DEF IInv, DecisionInv, FinishScan
    <3>4. of(v)' = of(v)
      BY <3>1, <3>2 DEF Sits, IInv, TypeOK, Visit
    <3>5. UNCHANGED orderVars
      BY <2>1 DEF FinishScan
    <3> QED BY <3>3, <3>4, <3>5 DEF OrdersOf, Debts, orderVars
  <2>2. ASSUME NEW pd, ~Unsettled(v, pd), pd = paid',
               UNCHANGED <<visitOf, sessionOf, canceled>>
        PROVE  (OrdersOf(of(v)) \cap Debts(paid))' \subseteq late'
    BY <2>2 DEF Unsettled, OrdersOf, Debts
  <2>3. ASSUME NEW os \in SUBSET Order, PayOrders(os) PROVE ~Unsettled(v, paid')
    BY <2>3 DEF PayOrders, VisitsClosed, Finished
  <2>4. ASSUME NEW s \in Session, CloseSession(s) PROVE ~Unsettled(v, paid)
    BY <2>4 DEF CloseSession, VisitsClosed, Finished
  <2>5. ASSUME NEW w \in Visit, CloseVisit(w) PROVE ~Unsettled(v, paid)
    BY <2>5 DEF CloseVisit, IInv, TypeOK
  <2>6. CASE \E os \in SUBSET Order : PayOrders(os)
    BY <2>2, <2>3, <2>6 DEF PayOrders
  <2>7. CASE \E s \in Session : CloseSession(s)
    BY <2>2, <2>4, <2>7 DEF CloseSession, orderVars
  <2>8. CASE \E w \in Visit : CloseVisit(w)
    BY <2>2, <2>5, <2>8 DEF CloseVisit, orderVars
  <2> QED BY <2>1, <2>6, <2>7, <2>8 DEF Next, PlanScan, LeaveVisits, Leave, AbortScan, ReadForCart, TieCart, UntieCart,
       ReadForCheckout, LockCart, FailCheckout, FinishCheckout, ReceiveOrder, CancelOrder, ListSessions, vars, visitVars
<1> QED BY <1>1, InvariantHolds, PTL DEF Spec, ClosesSettled
=============================================================================
