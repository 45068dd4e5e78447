-------------------------- MODULE TableBillsProofs --------------------------
(***************************************************************************)
(* Theorems about TableBills, for any guests, cashiers and requests they   *)
(* may make, and any number of orders, bills and requests.                 *)
(***************************************************************************)
EXTENDS TableBills, FiniteSetTheorems, WellFoundedInduction, TLAPS

USE TableBillsAssumption DEF Order, Bill, Request, Asker

AskRow == [step : {"idle", "orders", "write"}, type : Type, bill : Bill \cup {0},
           orders : SUBSET Order]

PayRow == [step : {"idle", "mark bill", "sessions", "mark session", "visit"}, bill : Bill \cup {0},
           dropped : SUBSET Order, listed : SUBSET Request, sessions : SUBSET Guest,
           session : Guest \cup {None}, marked : SUBSET Request,
           held : SUBSET (Guest \cup {None}), visit : BOOLEAN]

TypeOK ==
    /\ active \in SUBSET Guest
    /\ status \in [Order -> {"absent", "new", "served", "canceled"}]
    /\ guestOf \in [Order -> Guest \cup {None}]
    /\ billStatus \in [Bill -> {"absent", "open", "paid", "canceled"}]
    /\ reqStatus \in [Request -> {"absent", "open", "auto_prepared", "processed", "canceled"}]
    /\ reqBill \in [Request -> Bill \cup {0}]
    /\ ask \in [Asker -> AskRow]
    /\ pay \in [Cashier -> PayRow]

\* Rows are numbered from 1 on, without a gap.
Numbered(state) == \E k \in Nat : Made(state) = 1..k

\* A payment locks what it has not locked already.
RowSound(row) ==
    /\ row.step = "idle" => row = NoPay
    /\ row.listed \cap row.marked = {}
    /\ row.sessions \cap row.held = {}
    /\ row.step = "mark bill" => row.held = {}
    /\ row.step = "mark session" => row.session \notin row.sessions \cup row.held

RowsInv == \A c \in Cashier : RowSound(pay[c])

\* A payment with a bill holds an open one of its own.
HeldInv ==
    \A c \in Cashier : pay[c].bill # 0 =>
        /\ billStatus[pay[c].bill] = "open"
        /\ \A d \in Cashier \ {c} : pay[d].bill # pay[c].bill

\* What a payment has listed there is, and what it has marked nobody has canceled since.
Known(row) ==
    /\ \A r \in row.marked : reqStatus[r] \notin {"absent", "canceled"}
    /\ \A r \in row.listed : reqStatus[r] # "absent"

MarkedInv == \A c \in Cashier : Known(pay[c])

\* A payment has marked every request that waits for its bill, or is still to do so: while it
\* holds the bill, nobody adds another.
AnsweredInv ==
    \A c \in Cashier : \A r \in Pending :
        pay[c].bill # 0 /\ reqBill[r] = pay[c].bill =>
            r \in pay[c].marked \/ (pay[c].step = "mark bill" /\ r \in pay[c].listed)

IInv ==
    /\ TypeOK /\ Numbered(billStatus) /\ Numbered(reqStatus)
    /\ RowsInv /\ HeldInv /\ MarkedInv /\ AnsweredInv /\ PendingBillOpen

-----------------------------------------------------------------------------
(* Numbers                                                                 *)

LEMMA Smallest ==
    ASSUME NEW S \in SUBSET Nat, S # {}
    PROVE  Min(S) \in S /\ \A y \in S : Min(S) <= y
<1> DEFINE T == {0..x : x \in S}
<1>1. T \subseteq FiniteSubsetsOf(Nat) /\ T # {}
    <2>1. ASSUME NEW x \in S
          PROVE  0..x \in FiniteSubsetsOf(Nat)
        <3>1. x \in Nat /\ 0..x \in SUBSET Nat
            OBVIOUS
        <3>2. IsFiniteSet(0..x)
            BY <3>1, FS_Interval
        <3> QED  BY <3>1, <3>2 DEF FiniteSubsetsOf
    <2> QED  BY <2>1
<1>2. PICK t \in T : \A u \in T : <<u, t>> \notin StrictSubsetOrdering(Nat)
    BY <1>1, WFMin, FS_StrictSubsetOrderingWellFounded
<1>3. PICK x \in S : t = 0..x
    BY <1>2
<1>4. ASSUME NEW y \in S, ~(x <= y)
      PROVE  FALSE
    <2>1. y \in Nat /\ x \in Nat /\ y < x
        BY <1>4
    <2>2. 0..y \subseteq 0..x /\ x \notin 0..y /\ x \in 0..x
        BY <2>1
    <2>3. <<0..y, t>> \in StrictSubsetOrdering(Nat)
        BY <1>1, <1>3, <2>2 DEF StrictSubsetOrdering
    <2> QED  BY <1>2, <2>3
<1> QED  BY <1>4 DEF Min

LEMMA Largest ==
    ASSUME NEW n \in Nat, NEW S \in SUBSET (0..n), S # {}
    PROVE  Max(S) \in S
<1> DEFINE T == {n - x : x \in S}
<1>1. T \in SUBSET Nat /\ T # {}
    <2> SUFFICES ASSUME NEW x \in S
                 PROVE  n - x \in Nat
        OBVIOUS
    <2> QED  BY x \in 0..n
<1>2. Min(T) \in T /\ \A y \in T : Min(T) <= y
    BY <1>1, Smallest
<1>3. PICK x \in S : Min(T) = n - x
    BY <1>2
<1>4. ASSUME NEW y \in S
      PROVE  x >= y
    <2>1. n - y \in T
        OBVIOUS
    <2>2. n - x <= n - y
        BY <1>2, <1>3, <2>1
    <2> HIDE DEF T
    <2> QED  BY <2>2, x \in 0..n, y \in 0..n
<1> QED  BY <1>4 DEF Max

\* The next key is that of a row there is not.
LEMMA NextIsNew ==
    ASSUME NEW state, Numbered(state), NextKey(state) \in DOMAIN state
    PROVE  NextKey(state) \in Nat /\ state[NextKey(state)] = "absent"
<1>1. PICK k \in Nat : Made(state) = 1..k
    BY DEF Numbered
<1>2. Cardinality(Made(state)) = k
    BY <1>1, FS_Interval
<1>3. NextKey(state) = k + 1
    BY <1>2 DEF NextKey
<1>4. NextKey(state) \notin Made(state)
    BY <1>1, <1>3
<1> QED  BY <1>3, <1>4 DEF Made

\* The bills of a split, in the order of the first orders of its guests, get consecutive numbers.
LEMMA Ranks ==
    ASSUME NEW P \in SUBSET SUBSET Order, IsFiniteSet(P), {} \notin P,
           \A x, y \in P : x # y => x \cap y = {}
    PROVE  {Cardinality({y \in P : Min(y) < Min(x)}) : x \in P} = 0..(Cardinality(P) - 1)
<1> DEFINE below(x) == {y \in P : Min(y) < Min(x)}
           n == Cardinality(P)
           f == [x \in P |-> Cardinality(below(x))]
<1>1. \A x \in P : Min(x) \in x /\ Min(x) \in Nat
    <2> TAKE x \in P
    <2>1. x \in SUBSET Order /\ x # {}
        BY {} \notin P
    <2>2. x \in SUBSET Nat
        BY <2>1 DEF Order
    <2> QED  BY <2>1, <2>2, Smallest
<1>2. n \in Nat
    BY FS_CardinalityType
<1>3. \A x \in P : IsFiniteSet(below(x)) /\ Cardinality(below(x)) \in Nat
    BY FS_Subset, FS_CardinalityType
<1>4. \A x \in P : Cardinality(below(x)) <= n - 1
    <2> TAKE x \in P
    <2>1. IsFiniteSet(P \ {x}) /\ Cardinality(P \ {x}) = n - 1
        BY FS_RemoveElement
    <2>2. below(x) \subseteq P \ {x}
        BY <1>1
    <2> QED  BY <2>1, <2>2, FS_Subset
<1>5. \A x, y \in P : Min(x) < Min(y) => Cardinality(below(x)) < Cardinality(below(y))
    <2> SUFFICES ASSUME NEW x \in P, NEW y \in P, Min(x) < Min(y)
                 PROVE  Cardinality(below(x)) < Cardinality(below(y))
        OBVIOUS
    <2>1. x \notin below(x)
        BY <1>1
    <2>2. Cardinality(below(x) \cup {x}) = Cardinality(below(x)) + 1
        BY <1>3, <2>1, FS_AddElement
    <2>3. below(x) \cup {x} \subseteq below(y)
        BY <1>1
    <2>4. Cardinality(below(x) \cup {x}) <= Cardinality(below(y))
        BY <1>3, <2>3, FS_Subset
    <2> HIDE DEF below
    <2> QED  BY <1>3, <2>2, <2>4
<1>6. f \in Injection(P, 0..(n - 1))
    <2>1. f \in [P -> 0..(n - 1)]
        <3> HIDE DEF below, n
        <3> QED  BY <1>2, <1>3, <1>4
    <2>2. ASSUME NEW x \in P, NEW y \in P, x # y
          PROVE  f[x] # f[y]
        <3>1. Min(x) # Min(y)
            BY <1>1, <2>2
        <3>2. Min(x) < Min(y) \/ Min(y) < Min(x)
            BY <1>1, <3>1
        <3> HIDE DEF below
        <3> QED  BY <1>3, <1>5, <3>2
    <2> QED  BY <2>1, <2>2 DEF Injection, IsInjective
<1>7. IsFiniteSet(0..(n - 1)) /\ Cardinality(0..(n - 1)) = n
    <2> HIDE DEF n
    <2> QED  BY <1>2, FS_Interval
<1>8. f \in Surjection(P, 0..(n - 1))
    <2> HIDE DEF f, n
    <2> QED  BY <1>6, <1>7, FS_Injection DEF n
<1>9. {f[x] : x \in P} = 0..(n - 1)
    <2> HIDE DEF f, n
    <2> QED  BY <1>8 DEF Surjection
<1> QED  BY <1>9

-----------------------------------------------------------------------------
LEMMA NoPayTyped ==
    /\ NoPay \in PayRow /\ NoPay.step = "idle" /\ NoPay.bill = 0
    /\ NoPay.marked = {} /\ NoPay.listed = {}
BY DEF NoPay, PayRow

LEMMA NoPaySound == RowSound(NoPay)
BY DEF RowSound, NoPay

LEMMA Initially == Init => IInv
<1> SUFFICES ASSUME Init
             PROVE  IInv
    OBVIOUS
<1>1. NoAsk \in AskRow /\ NoPay \in PayRow
    BY NoPayTyped DEF NoAsk, AskRow, Type
<1>2. TypeOK
    BY <1>1 DEF Init, TypeOK
<1>3. Made(billStatus) = 1..0 /\ Made(reqStatus) = 1..0
    BY DEF Init, Made
<1>4. Pending = {}
    BY DEF Init, Pending
<1>5. \A c \in Cashier : /\ pay[c] = NoPay /\ pay[c].bill = 0
                        /\ pay[c].marked = {} /\ pay[c].listed = {}
    BY DEF Init, NoPay
<1>6. RowsInv
    BY <1>5, NoPaySound DEF RowsInv
<1> QED  BY <1>2, <1>3, <1>4, <1>5, <1>6
         DEF IInv, Numbered, HeldInv, MarkedInv, Known, AnsweredInv, PendingBillOpen

-----------------------------------------------------------------------------
(* Steps that leave bills, requests and payments alone                     *)

Final(r) == reqStatus[r] \in {"processed", "canceled"} => reqStatus'[r] = reqStatus[r]

LEMMA QuietKeeps ==
    ASSUME IInv, TypeOK', UNCHANGED <<billStatus, reqStatus, reqBill, pay>>
    PROVE  IInv' /\ \A r \in Request : Final(r)
BY DEF IInv, Numbered, Made, RowsInv, RowSound, NoPay, HeldInv, MarkedInv, Known, AnsweredInv, PendingBillOpen,
       Pending, Final

LEMMA OrderSteps ==
    ASSUME IInv,
           \/ \E g \in Guest : Checkout(g)
           \/ \E o \in Order : ServeOrder(o) \/ CancelOrder(o)
           \/ \E b \in Bill, os \in SUBSET Order : RemoveLines(b, os)
    PROVE  IInv' /\ \A r \in Request : Final(r)
<1>1. status' \in [Order -> {"absent", "new", "served", "canceled"}]
    <2>1. status \in [Order -> {"absent", "new", "served", "canceled"}]
        BY DEF IInv, TypeOK
    <2>2. \/ UNCHANGED status
          \/ \E x, y : y \in {"new", "served", "canceled"} /\ status' = [status EXCEPT ![x] = y]
        BY DEF Checkout, ServeOrder, CancelOrder, RemoveLines
    <2> QED  BY <2>1, <2>2
<1>2. UNCHANGED <<active, billStatus, reqStatus, reqBill, ask, pay>>
    BY DEF Checkout, ServeOrder, CancelOrder, RemoveLines, billVars, requestVars
<1>3. guestOf' \in [Order -> Guest \cup {None}]
    BY DEF IInv, TypeOK, Checkout, ServeOrder, CancelOrder, RemoveLines
<1>4. TypeOK'
    BY <1>1, <1>2, <1>3 DEF IInv, TypeOK
<1> QED  BY <1>2, <1>4, QuietKeeps

LEMMA FoundBill ==
    ASSUME NEW a, NEW type
    PROVE  Max({0} \cup Extendable(a, type)) \in Bill \cup {0}
<1>1. {0} \cup Extendable(a, type) \in SUBSET (0..MaxBills)
    BY DEF Extendable
<1>2. Max({0} \cup Extendable(a, type)) \in {0} \cup Extendable(a, type)
    BY <1>1, Largest
<1> QED  BY <1>2 DEF Extendable

\* What a command that prepares bills has found is all that changes.
LEMMA AskSteps ==
    ASSUME IInv,
           \/ \E g \in Guest, type \in Type : GuestAsks(g, type)
           \/ \E type \in Type : StaffAsks(type)
           \/ \E a \in Asker : FindOrders(a) \/ AskFails(a)
    PROVE  IInv' /\ \A r \in Request : Final(r)
<1>1. ask \in [Asker -> AskRow] /\ NoAsk \in AskRow
    BY DEF IInv, TypeOK, NoAsk, AskRow, Type
<1>2. ask' \in [Asker -> AskRow]
    <2>1. ASSUME NEW g \in Guest, NEW type \in Type, GuestAsks(g, type)
          PROVE  ask' \in [Asker -> AskRow]
        <3> DEFINE b == Max({0} \cup Extendable(g, type))
                   row == [NoAsk EXCEPT
                              !.step = IF type = "custom_split" THEN "write" ELSE "orders",
                              !.type = type, !.bill = b]
        <3>1. b \in Bill \cup {0}
            BY FoundBill
        <3>2. ask' = [ask EXCEPT ![g] = row]
            BY <2>1 DEF GuestAsks
        <3> HIDE DEF b
        <3>3. row \in AskRow
            BY <1>1, <3>1 DEF AskRow
        <3> QED  BY <1>1, <3>2, <3>3
    <2>2. ASSUME NEW type \in Type, StaffAsks(type)
          PROVE  ask' \in [Asker -> AskRow]
        <3>1. [NoAsk EXCEPT !.step = "orders", !.type = type] \in AskRow
            BY <1>1 DEF AskRow
        <3> QED  BY <1>1, <2>2, <3>1 DEF StaffAsks
    <2>3. ASSUME NEW a \in Asker, FindOrders(a)
          PROVE  ask' \in [Asker -> AskRow]
        <3>1. PICK os \in SUBSET Order : ask' = [ask EXCEPT ![a].step = "write", ![a].orders = os]
            <4> DEFINE os == {o \in Billable : ask[a].type = "personal" /\ a \in Guest
                                                   => guestOf[o] = a}
            <4>1. os \in SUBSET Order
                BY DEF Billable, Made, IInv, TypeOK
            <4>2. ask' = [ask EXCEPT ![a].step = "write", ![a].orders = os]
                BY <2>3 DEF FindOrders
            <4> QED  BY <4>1, <4>2
        <3>2. ask[a] \in AskRow
            BY <1>1
        <3>3. [[ask[a] EXCEPT !.step = "write"] EXCEPT !.orders = os] \in AskRow
            BY <3>2 DEF AskRow
        <3> QED  BY <1>1, <3>1, <3>2, <3>3 DEF AskRow
    <2>4. ASSUME NEW a \in Asker, AskFails(a)
          PROVE  ask' \in [Asker -> AskRow]
        BY <1>1, <2>4 DEF AskFails
    <2> QED  BY <2>1, <2>2, <2>3, <2>4
<1>3. UNCHANGED <<active, status, guestOf, billStatus, reqStatus, reqBill, pay>>
    BY DEF GuestAsks, StaffAsks, FindOrders, AskFails, billVars, requestVars, orderVars
<1>4. TypeOK'
    BY <1>2, <1>3 DEF IInv, TypeOK
<1> QED  BY <1>3, <1>4, QuietKeeps

-----------------------------------------------------------------------------
(* Steps of a payment but its commit                                       *)

\* What the invariant says of the bill of one payment.
Holds(c, row) ==
    row.bill # 0 =>
        /\ billStatus[row.bill] = "open"
        /\ \A d \in Cashier \ {c} : pay[d].bill # row.bill
        /\ \A r \in Pending : reqBill[r] = row.bill =>
              r \in row.marked \/ (row.step = "mark bill" /\ r \in row.listed)

\* A payment that is over, has just begun, or goes on with its bill keeps the invariant.
LEMMA PaymentKeeps ==
    ASSUME IInv, NEW c \in Cashier, NEW row \in PayRow,
           pay' = [pay EXCEPT ![c] = row],
           UNCHANGED <<active, status, guestOf, billStatus, reqStatus, reqBill, ask>>,
           RowSound(row),
           Holds(c, row),
           Known(row)
    PROVE  IInv' /\ \A r \in Request : Final(r)
<1>1. pay \in [Cashier -> PayRow]
    BY DEF IInv, TypeOK
<1>2. pay'[c] = row /\ \A d \in Cashier : d # c => pay'[d] = pay[d]
    BY <1>1
<1>3. TypeOK'
    BY <1>1 DEF IInv, TypeOK
<1>4. Pending' = Pending
    BY DEF Pending
<1>5. HeldInv'
    <2> SUFFICES ASSUME NEW d \in Cashier, pay'[d].bill # 0
                 PROVE  /\ billStatus[pay'[d].bill] = "open"
                        /\ \A e \in Cashier \ {d} : pay'[e].bill # pay'[d].bill
        BY DEF HeldInv
    <2>1. CASE d = c
        BY <2>1, <1>2 DEF Holds
    <2>2. CASE d # c
        <3>1. pay'[d] = pay[d] /\ billStatus[pay[d].bill] = "open"
            BY <2>2, <1>2 DEF IInv, HeldInv
        <3>2. \A e \in Cashier \ {d, c} : pay'[e].bill # pay[d].bill
            BY <3>1, <1>2 DEF IInv, HeldInv
        <3>3. row.bill # pay[d].bill
            BY <2>2, <3>1 DEF Holds
        <3> QED  BY <1>2, <3>1, <3>2, <3>3
    <2> QED  BY <2>1, <2>2
<1>6. MarkedInv'
    BY <1>2 DEF IInv, MarkedInv, Known
<1>7. AnsweredInv'
    BY <1>2, <1>4 DEF IInv, AnsweredInv, Holds
<1>8. Numbered(billStatus)' /\ Numbered(reqStatus)' /\ PendingBillOpen'
    BY <1>4 DEF IInv, Numbered, Made, PendingBillOpen
<1>9. RowsInv'
    BY <1>2 DEF IInv, RowsInv, RowSound, NoPay
<1> QED  BY <1>3, <1>5, <1>6, <1>7, <1>8, <1>9 DEF IInv, Final

\* What a payment knows of its bill, for as long as it goes on.
LEMMA PaymentHas ==
    ASSUME IInv, NEW c \in Cashier
    PROVE  /\ pay[c] \in PayRow /\ RowSound(pay[c])
           /\ Holds(c, pay[c]) /\ Known(pay[c])
BY DEF Holds, IInv, TypeOK, RowsInv, HeldInv, MarkedInv, AnsweredInv

LEMMA RolledBack ==
    ASSUME IInv, NEW c \in Cashier, FollowUpRaises(c) \/ CancelFails(c) \/ BreakDeadlock(c)
    PROVE  IInv' /\ \A r \in Request : Final(r)
<1>1. pay' = [pay EXCEPT ![c] = NoPay]
    BY DEF FollowUpRaises, CancelFails, BreakDeadlock
<1>2. UNCHANGED <<active, status, guestOf, billStatus, reqStatus, reqBill, ask>>
    BY DEF FollowUpRaises, CancelFails, BreakDeadlock, orderVars, billVars, requestVars
<1>3. Known(NoPay) /\ Holds(c, NoPay)
    BY NoPayTyped DEF Known, Holds
<1> QED  BY <1>1, <1>2, <1>3, NoPayTyped, NoPaySound, PaymentKeeps

LEMMA PaymentBegins ==
    ASSUME IInv, NEW c \in Cashier, NEW b \in Bill, NEW os \in SUBSET Order, FollowUp(c, b, os)
    PROVE  IInv' /\ \A r \in Request : Final(r)
<1> DEFINE listed == {r \in Pending : reqBill[r] = b}
           row == [NoPay EXCEPT !.step = "mark bill", !.bill = b, !.dropped = os, !.listed = listed]
<1>1. /\ pay' = [pay EXCEPT ![c] = row]
      /\ UNCHANGED <<active, status, guestOf, billStatus, reqStatus, reqBill, ask>>
    BY DEF FollowUp, orderVars, billVars, requestVars
<1>2. /\ listed \in SUBSET Request /\ \A r \in listed : reqStatus[r] # "absent"
      /\ \A r \in Pending : reqBill[r] = b => r \in listed
    BY DEF Pending
<1>3. billStatus[b] = "open" /\ \A d \in Cashier : pay[d].bill # b
    BY DEF FollowUp, BillLocked
<1> HIDE DEF listed
<1>4. /\ row \in PayRow /\ row.bill = b /\ row.step = "mark bill" /\ row.listed = listed
      /\ row.marked = {} /\ row.sessions = {} /\ row.held = {}
    BY <1>2 DEF NoPay, PayRow
<1> HIDE DEF row
<1>5. RowSound(row)
    BY <1>4 DEF RowSound
<1>6. Holds(c, row)
    BY <1>2, <1>3, <1>4 DEF Holds
<1>7. Known(row)
    BY <1>2, <1>4 DEF Known
<1> QED  BY <1>1, <1>4, <1>5, <1>6, <1>7, PaymentKeeps

LEMMA ClosingBegins ==
    ASSUME IInv, NEW c \in Cashier, NEW g \in Guest, BeginClosing(c, g)
    PROVE  IInv' /\ \A r \in Request : Final(r)
<1> DEFINE row == [NoPay EXCEPT !.step = "visit", !.held = {g}]
<1>1. /\ pay' = [pay EXCEPT ![c] = row]
      /\ UNCHANGED <<active, status, guestOf, billStatus, reqStatus, reqBill, ask>>
    BY DEF BeginClosing, orderVars, billVars, requestVars
<1>2. /\ row \in PayRow /\ row.bill = 0 /\ row.step = "visit" /\ row.listed = {}
      /\ row.marked = {} /\ row.sessions = {}
    BY DEF NoPay, PayRow
<1> HIDE DEF row
<1>3. RowSound(row) /\ Holds(c, row) /\ Known(row)
    BY <1>2 DEF RowSound, Holds, Known
<1> QED  BY <1>1, <1>2, <1>3, PaymentKeeps

\* A payment that goes on with the requests it has marked, and no longer with those of its bill.
LEMMA GoesOn ==
    ASSUME IInv, NEW c \in Cashier, NEW row \in PayRow,
           pay' = [pay EXCEPT ![c] = row],
           UNCHANGED <<active, status, guestOf, billStatus, reqStatus, reqBill, ask>>,
           RowSound(row),
           row.bill = pay[c].bill, row.marked = pay[c].marked,
           pay[c].step = "mark bill" => pay[c].listed = {},
           \A r \in row.listed : reqStatus[r] # "absent"
    PROVE  IInv' /\ \A r \in Request : Final(r)
<1>1. Holds(c, row)
    BY PaymentHas DEF Holds
<1>2. Known(row)
    BY PaymentHas DEF Known
<1> QED  BY <1>1, <1>2, PaymentKeeps

LEMMA RequestMarked ==
    ASSUME IInv, NEW c \in Cashier, NEW r \in Request, MarkRequest(c, r)
    PROVE  IInv' /\ \A q \in Request : Final(q)
<1> DEFINE row == [pay[c] EXCEPT !.listed = @ \ {r}, !.marked = @ \cup {r}]
<1>1. pay[c] \in PayRow /\ RowSound(pay[c]) /\ Holds(c, pay[c]) /\ Known(pay[c])
    BY PaymentHas
<1>2. /\ pay' = [pay EXCEPT ![c] = row]
      /\ UNCHANGED <<active, status, guestOf, billStatus, reqStatus, reqBill, ask>>
    BY DEF MarkRequest, IInv, TypeOK, orderVars, billVars, requestVars
<1>3. /\ row \in PayRow /\ row.bill = pay[c].bill /\ row.step = pay[c].step
      /\ row.listed = pay[c].listed \ {r} /\ row.marked = pay[c].marked \cup {r}
      /\ row.sessions = pay[c].sessions /\ row.session = pay[c].session
      /\ row.held = pay[c].held
    BY <1>1 DEF PayRow
<1>4. reqStatus[r] # "canceled" /\ r \in pay[c].listed /\ pay[c].step # "idle"
    BY DEF MarkRequest, MayMark, Marking
<1> HIDE DEF row
<1>5. RowSound(row)
    BY <1>1, <1>3, <1>4 DEF RowSound
<1>6. Holds(c, row)
    BY <1>1, <1>3 DEF Holds
<1>7. Known(row)
    BY <1>1, <1>3, <1>4 DEF Known
<1> QED  BY <1>2, <1>3, <1>5, <1>6, <1>7, PaymentKeeps

LEMMA SessionsListed ==
    ASSUME IInv, NEW c \in Cashier, ListSessions(c)
    PROVE  IInv' /\ \A r \in Request : Final(r)
<1> DEFINE ss == IF AutoClose THEN active \cap {guestOf[o] : o \in Covered(c)} ELSE {}
           row == [pay[c] EXCEPT !.step = "sessions", !.sessions = ss]
<1>1. pay[c] \in PayRow /\ RowSound(pay[c]) /\ pay[c].step = "mark bill" /\ pay[c].listed = {}
    BY PaymentHas DEF ListSessions
<1>2. /\ pay' = [pay EXCEPT ![c] = row]
      /\ UNCHANGED <<active, status, guestOf, billStatus, reqStatus, reqBill, ask>>
    BY DEF ListSessions, IInv, TypeOK, orderVars, billVars, requestVars
<1>3. ss \in SUBSET Guest
    BY DEF IInv, TypeOK
<1> HIDE DEF ss
<1>4. /\ row \in PayRow /\ row.bill = pay[c].bill /\ row.step = "sessions"
      /\ row.listed = {} /\ row.marked = pay[c].marked /\ row.held = pay[c].held
    BY <1>1, <1>3 DEF PayRow
<1> HIDE DEF row
<1>5. RowSound(row)
    BY <1>1, <1>4 DEF RowSound
<1> QED  BY <1>1, <1>2, <1>4, <1>5, GoesOn

LEMMA SessionTaken ==
    ASSUME IInv, NEW c \in Cashier, NEW g \in Guest, ListSessionRequests(c, g)
    PROVE  IInv' /\ \A r \in Request : Final(r)
<1> DEFINE listed == {r \in Pending \ pay[c].marked : reqGuest[r] = g}
           left == pay[c].sessions \ {g}
           row1 == [pay[c] EXCEPT !.step = "mark session", !.session = g, !.sessions = left,
                                  !.listed = listed]
           row2 == [pay[c] EXCEPT !.sessions = left]
<1>1. /\ pay[c] \in PayRow /\ RowSound(pay[c]) /\ Known(pay[c])
      /\ pay[c].step = "sessions" /\ g \in pay[c].sessions
    BY PaymentHas DEF ListSessionRequests
<1>2. /\ pay' = [pay EXCEPT ![c] = row1] \/ pay' = [pay EXCEPT ![c] = row2]
      /\ UNCHANGED <<active, status, guestOf, billStatus, reqStatus, reqBill, ask>>
    BY DEF ListSessionRequests, IInv, TypeOK, orderVars, billVars, requestVars
<1>3. /\ listed \in SUBSET Request /\ listed \cap pay[c].marked = {}
      /\ \A r \in listed : reqStatus[r] # "absent"
    BY DEF Pending
<1>4. left \in SUBSET Guest /\ left \cap pay[c].held = {} /\ g \notin left /\ g \notin pay[c].held
    BY <1>1 DEF PayRow, RowSound
<1> HIDE DEF listed, left
<1>5. /\ row1 \in PayRow /\ row1.bill = pay[c].bill /\ row1.marked = pay[c].marked
      /\ row1.step = "mark session" /\ row1.session = g /\ row1.sessions = left
      /\ row1.listed = listed /\ row1.held = pay[c].held
    BY <1>1, <1>3, <1>4 DEF PayRow
<1>6. /\ row2 \in PayRow /\ row2.bill = pay[c].bill /\ row2.marked = pay[c].marked
      /\ row2.step = "sessions" /\ row2.sessions = left
      /\ row2.listed = pay[c].listed /\ row2.held = pay[c].held
    BY <1>1, <1>4 DEF PayRow
<1> HIDE DEF row1, row2
<1>7. RowSound(row1) /\ RowSound(row2)
    BY <1>1, <1>3, <1>4, <1>5, <1>6 DEF RowSound
<1>8. \A r \in pay[c].listed : reqStatus[r] # "absent"
    BY <1>1 DEF Known
<1> QED  BY <1>1, <1>2, <1>3, <1>5, <1>6, <1>7, <1>8, GoesOn

LEMMA SessionLocks ==
    ASSUME IInv, NEW c \in Cashier, LockSession(c)
    PROVE  IInv' /\ \A r \in Request : Final(r)
<1> DEFINE g == pay[c].session
           more == pay[c].held \cup {g}
           row1 == [pay[c] EXCEPT !.step = "visit", !.held = more]
           row2 == [pay[c] EXCEPT !.step = "sessions", !.session = None, !.held = more]
           row3 == [pay[c] EXCEPT !.step = "sessions", !.session = None]
<1>1. /\ pay[c] \in PayRow /\ RowSound(pay[c]) /\ pay[c].step = "mark session"
      /\ pay[c].listed = {}
    BY PaymentHas DEF LockSession, MayLock
<1>2. /\ \/ pay' = [pay EXCEPT ![c] = row1]
         \/ pay' = [pay EXCEPT ![c] = row2]
         \/ pay' = [pay EXCEPT ![c] = row3]
      /\ UNCHANGED <<active, status, guestOf, billStatus, reqStatus, reqBill, ask>>
    BY DEF LockSession, IInv, TypeOK, orderVars, billVars, requestVars
<1>3. more \in SUBSET (Guest \cup {None}) /\ pay[c].sessions \cap more = {}
    <2>1. more \in SUBSET (Guest \cup {None})
        BY <1>1 DEF PayRow
    <2>2. g \notin pay[c].sessions /\ pay[c].sessions \cap pay[c].held = {}
        BY <1>1 DEF RowSound
    <2> HIDE DEF g
    <2> QED  BY <2>1, <2>2
<1> HIDE DEF more
<1>4. ASSUME NEW row \in {row1, row2, row3}
      PROVE  /\ row \in PayRow /\ row.bill = pay[c].bill /\ row.marked = pay[c].marked
             /\ row.step \in {"visit", "sessions"} /\ row.listed = {}
             /\ row.sessions = pay[c].sessions /\ row.held \in {more, pay[c].held}
    <2>1. CASE row = row1
        BY <1>1, <1>3, <2>1 DEF PayRow
    <2>2. CASE row = row2
        BY <1>1, <1>3, <2>2 DEF PayRow
    <2>3. CASE row = row3
        BY <1>1, <2>3 DEF PayRow
    <2> QED  BY <2>1, <2>2, <2>3
<1> HIDE DEF row1, row2, row3
<1>5. ASSUME NEW row \in {row1, row2, row3}
      PROVE  RowSound(row)
    BY <1>1, <1>3, <1>4 DEF RowSound
<1>6. PICK row \in {row1, row2, row3} : pay' = [pay EXCEPT ![c] = row]
    BY <1>2
<1> QED  BY <1>1, <1>2, <1>4, <1>5, <1>6, GoesOn

LEMMA VisitLocks ==
    ASSUME IInv, NEW c \in Cashier, LockVisit(c)
    PROVE  IInv' /\ \A r \in Request : Final(r)
<1> DEFINE row == [pay[c] EXCEPT !.step = "sessions", !.session = None, !.visit = TRUE]
<1>1. /\ pay[c] \in PayRow /\ RowSound(pay[c]) /\ Known(pay[c]) /\ pay[c].step = "visit"
    BY PaymentHas DEF LockVisit, MayLockVisit
<1>2. /\ pay' = [pay EXCEPT ![c] = row]
      /\ UNCHANGED <<active, status, guestOf, billStatus, reqStatus, reqBill, ask>>
    BY DEF LockVisit, IInv, TypeOK, orderVars, billVars, requestVars
<1>3. /\ row \in PayRow /\ row.bill = pay[c].bill /\ row.marked = pay[c].marked
      /\ row.step = "sessions" /\ row.listed = pay[c].listed
      /\ row.sessions = pay[c].sessions /\ row.held = pay[c].held
    BY <1>1 DEF PayRow
<1> HIDE DEF row
<1>4. RowSound(row)
    BY <1>1, <1>3 DEF RowSound
<1> QED  BY <1>1, <1>2, <1>3, <1>4, GoesOn DEF Known

-----------------------------------------------------------------------------
(* Bills are prepared                                                      *)

BillsGrow ==
    /\ billStatus' \in [Bill -> {"absent", "open", "paid", "canceled"}]
    /\ Numbered(billStatus)'
    /\ \A x \in Bill : billStatus'[x] \in {"open", billStatus[x]}

LEMMA HeldGrows ==
    ASSUME IInv, BillsGrow, UNCHANGED pay
    PROVE  HeldInv'
<1> SUFFICES ASSUME NEW c \in Cashier, pay[c].bill # 0
             PROVE  /\ billStatus'[pay[c].bill] = "open"
                    /\ \A d \in Cashier \ {c} : pay[d].bill # pay[c].bill
    BY DEF HeldInv
<1>1. pay[c].bill \in Bill
    BY DEF IInv, TypeOK, PayRow
<1> QED  BY <1>1 DEF IInv, HeldInv, BillsGrow

LEMMA AskEnds ==
    ASSUME IInv, NEW a \in Asker, ask' = [ask EXCEPT ![a] = NoAsk]
    PROVE  ask' \in [Asker -> AskRow]
<1>1. ask \in [Asker -> AskRow] /\ NoAsk \in AskRow
    BY DEF IInv, TypeOK, NoAsk, AskRow, Type
<1> QED  BY <1>1

\* A request for a bill no payment holds.
LEMMA RequestAdded ==
    ASSUME IInv, NEW a \in Asker, NEW b \in Bill \cup {0}, StoreRequest(a, b), BillsGrow,
           ask' = [ask EXCEPT ![a] = NoAsk],
           UNCHANGED <<active, status, guestOf, pay>>,
           b # 0 => billStatus'[b] = "open" /\ ~BillLocked(b)
    PROVE  IInv' /\ \A r \in Request : Final(r)
<1>1. PICK r \in Request, s \in {"open", "auto_prepared"} :
          /\ reqStatus[r] = "absent" /\ r = NextKey(reqStatus)
          /\ reqStatus' = [reqStatus EXCEPT ![r] = s]
          /\ reqBill' = [reqBill EXCEPT ![r] = b]
    <2> DEFINE r == NextKey(reqStatus)
    <2>1. r \in Request /\ DOMAIN reqStatus = Request /\ Numbered(reqStatus)
        BY DEF StoreRequest, IInv, TypeOK
    <2>2. reqStatus[r] = "absent"
        BY <2>1, NextIsNew
    <2>3. /\ reqStatus' = [reqStatus EXCEPT ![r] = IF b = 0 THEN "open" ELSE "auto_prepared"]
          /\ reqBill' = [reqBill EXCEPT ![r] = b]
        BY DEF StoreRequest
    <2> HIDE DEF r
    <2> QED  BY <2>1, <2>2, <2>3 DEF r
<1>2. /\ reqStatus \in [Request -> {"absent", "open", "auto_prepared", "processed", "canceled"}]
      /\ reqBill \in [Request -> Bill \cup {0}]
    BY DEF IInv, TypeOK
<1>3. /\ reqStatus'[r] = s /\ reqBill'[r] = b
      /\ \A q \in Request : q # r => reqStatus'[q] = reqStatus[q] /\ reqBill'[q] = reqBill[q]
    BY <1>1, <1>2
<1>4. /\ reqStatus' \in [Request -> {"absent", "open", "auto_prepared", "processed", "canceled"}]
      /\ reqBill' \in [Request -> Bill \cup {0}]
    BY <1>1, <1>2
<1>5. TypeOK'
    BY <1>4, AskEnds DEF IInv, TypeOK, BillsGrow
<1>6. Numbered(reqStatus)'
    <2>1. PICK k \in Nat : Made(reqStatus) = 1..k
        BY DEF IInv, Numbered
    <2>2. r = k + 1
        <3>1. Cardinality(1..k) = k
            BY FS_Interval
        <3> QED  BY <1>1, <2>1, <3>1 DEF NextKey
    <2>3. Made(reqStatus)' = Made(reqStatus) \cup {r}
        BY <1>1, <1>2, <1>3, <1>4 DEF Made
    <2>4. Made(reqStatus)' = 1..(k + 1)
        BY <2>1, <2>2, <2>3
    <2> QED  BY <2>4 DEF Numbered
<1>7. Pending' = Pending \cup {r}
    BY <1>1, <1>3 DEF Pending
<1>8. HeldInv'
    BY HeldGrows
<1>9. MarkedInv' /\ RowsInv'
    <2>1. \A q \in Request : reqStatus'[q] \in {"absent", "canceled"}
                                => reqStatus'[q] = reqStatus[q]
        BY <1>1, <1>3
    <2>2. \A c \in Cashier : pay[c] \in PayRow /\ Known(pay[c])
        BY DEF IInv, MarkedInv, TypeOK
    <2>3. MarkedInv'
        BY <2>1, <2>2 DEF MarkedInv, Known, PayRow
    <2> QED  BY <2>3 DEF IInv, RowsInv, RowSound, NoPay
<1>10. AnsweredInv'
    <2> SUFFICES ASSUME NEW c \in Cashier, NEW q \in Pending', pay[c].bill # 0,
                        reqBill'[q] = pay[c].bill
                 PROVE  q \in pay[c].marked \/ (pay[c].step = "mark bill" /\ q \in pay[c].listed)
        BY DEF AnsweredInv
    <2>1. q # r
        BY <1>3 DEF BillLocked
    <2> QED  BY <1>3, <1>7, <2>1 DEF IInv, AnsweredInv, Pending
<1>11. PendingBillOpen'
    <2> SUFFICES ASSUME NEW q \in Pending', reqBill'[q] # 0
                 PROVE  billStatus'[reqBill'[q]] = "open"
        BY DEF PendingBillOpen
    <2>1. CASE q = r
        BY <2>1, <1>3
    <2>2. CASE q # r
        <3>1. q \in Pending /\ reqBill'[q] = reqBill[q] /\ q \in Request
            BY <2>2, <1>3, <1>7 DEF Pending
        <3>2. billStatus[reqBill[q]] = "open" /\ reqBill[q] \in Bill
            BY <3>1, <1>2 DEF IInv, PendingBillOpen
        <3> QED  BY <3>1, <3>2 DEF BillsGrow
    <2> QED  BY <2>1, <2>2
<1>12. \A q \in Request : Final(q)
    BY <1>1, <1>3 DEF Final
<1> QED  BY <1>5, <1>6, <1>8, <1>9, <1>10, <1>11, <1>12 DEF IInv, BillsGrow

LEMMA BillsAdded ==
    ASSUME IInv, NEW a \in Asker, BillsGrow, ask' = [ask EXCEPT ![a] = NoAsk],
           UNCHANGED <<active, status, guestOf, pay, reqStatus, reqBill>>
    PROVE  IInv' /\ \A r \in Request : Final(r)
<1>1. TypeOK'
    BY AskEnds DEF IInv, TypeOK, BillsGrow
<1>2. Pending' = Pending /\ Numbered(reqStatus)'
    BY DEF Pending, IInv, Numbered, Made
<1>3. HeldInv'
    BY HeldGrows
<1>4. RowsInv' /\ MarkedInv' /\ AnsweredInv'
    BY <1>2 DEF IInv, RowsInv, RowSound, NoPay, MarkedInv, Known, AnsweredInv
<1>5. PendingBillOpen'
    <2>1. \A q \in Pending : q \in Request /\ reqBill[q] \in Bill \cup {0}
        BY DEF Pending, IInv, TypeOK
    <2> QED  BY <1>2, <2>1 DEF IInv, PendingBillOpen, BillsGrow
<1> QED  BY <1>1, <1>2, <1>3, <1>4, <1>5 DEF IInv, BillsGrow, Final

LEMMA Extended ==
    ASSUME IInv, NEW a \in Asker, AskExtends(a) \/ AskSplit(a)
    PROVE  IInv' /\ \A r \in Request : Final(r)
<1>1. UNCHANGED <<active, status, guestOf, pay, billStatus>> /\ ask' = [ask EXCEPT ![a] = NoAsk]
    BY DEF AskExtends, AskSplit, orderVars, billVars
<1>2. BillsGrow
    BY <1>1 DEF IInv, TypeOK, BillsGrow, Numbered, Made
<1>3. CASE AskExtends(a)
    <2>1. ask[a].bill \in Bill \cup {0}
        BY DEF IInv, TypeOK, AskRow
    <2>2. billStatus'[ask[a].bill] = "open" /\ ~BillLocked(ask[a].bill)
        BY <1>1, <1>3 DEF AskExtends, AttachAllowed
    <2>3. StoreRequest(a, ask[a].bill)
        BY <1>3 DEF AskExtends
    <2> QED  BY <1>1, <1>2, <2>1, <2>2, <2>3, RequestAdded
<1>4. CASE AskSplit(a)
    <2>1. StoreRequest(a, 0)
        BY <1>4 DEF AskSplit
    <2> QED  BY <1>1, <1>2, <2>1, RequestAdded
<1> QED  BY <1>3, <1>4

\* The guests of a split have orders of their own.
LEMMA SharesDisjoint ==
    ASSUME IInv, NEW a \in Asker, ask[a].orders # {}
    PROVE  /\ Shares(a) \in SUBSET SUBSET Order /\ IsFiniteSet(Shares(a))
           /\ {} \notin Shares(a)
           /\ \A x, y \in Shares(a) : x # y => x \cap y = {}
           /\ Shares(a) # {} => Cardinality(Shares(a)) \in Nat \ {0}
<1>1. ask[a].orders \in SUBSET Order
    BY DEF IInv, TypeOK, AskRow
<1>2. Shares(a) \in SUBSET SUBSET Order
    BY <1>1 DEF Shares
<1>3. IsFiniteSet(Shares(a))
    <2>1. IsFiniteSet(SUBSET Order)
        <3>1. IsFiniteSet(1..MaxOrders)
            BY FS_Interval
        <3> QED  BY <3>1, FS_SUBSET
    <2> QED  BY <1>2, <2>1, FS_Subset
<1>4. {} \notin Shares(a) /\ \A x, y \in Shares(a) : x # y => x \cap y = {}
    BY DEF Shares, OrdersOf
<1>5. Shares(a) # {} => Cardinality(Shares(a)) \in Nat \ {0}
    BY <1>3, FS_CardinalityType, FS_EmptySet
<1> QED  BY <1>2, <1>3, <1>4, <1>5

LEMMA Created ==
    ASSUME IInv, NEW a \in Asker, AskCreates(a)
    PROVE  IInv' /\ \A r \in Request : Final(r)
<1> DEFINE next == NextKey(billStatus)
           rank(os) == Cardinality({x \in Shares(a) : Min(x) < Min(os)})
           n == Cardinality(Shares(a))
<1>1. PICK k \in Nat : Made(billStatus) = 1..k
    BY DEF IInv, Numbered
<1>2. next = k + 1
    <2>1. Cardinality(1..k) = k
        BY FS_Interval
    <2> QED  BY <1>1, <2>1 DEF NextKey
<1>3. /\ {rank(os) : os \in Shares(a)} = 0..(n - 1) /\ n \in Nat
      /\ Shares(a) # {} => n > 0
    <2>1. ask[a].orders # {}
        BY DEF AskCreates, CreateAllowed
    <2>2. /\ Shares(a) \in SUBSET SUBSET Order /\ IsFiniteSet(Shares(a)) /\ {} \notin Shares(a)
          /\ \A x, y \in Shares(a) : x # y => x \cap y = {}
          /\ Shares(a) # {} => Cardinality(Shares(a)) \in Nat \ {0}
        BY <2>1, SharesDisjoint
    <2>3. {rank(os) : os \in Shares(a)} = 0..(n - 1)
        BY <2>2, Ranks
    <2>4. n \in Nat
        BY <2>2, FS_CardinalityType
    <2> HIDE DEF rank
    <2> QED  BY <2>2, <2>3, <2>4
<1>4. k + n \in 0..MaxBills
    <2>1. next + n - 1 \in Bill
        BY DEF AskCreates
    <2> HIDE DEF next, n
    <2> QED  BY <1>2, <1>3, <2>1
<1> DEFINE new == {x \in Bill : \E os \in Shares(a) : x = next + rank(os)}
<1>5. new = (k + 1)..(k + n)
    <2> HIDE DEF next, n, rank
    <2>1. ASSUME NEW x \in (k + 1)..(k + n)
          PROVE  x \in new
        <3>1. x - (k + 1) \in 0..(n - 1)
            BY <1>3
        <3>2. PICK os \in Shares(a) : x - (k + 1) = rank(os)
            BY <1>3, <3>1
        <3>3. x = next + rank(os) /\ x \in Bill
            BY <1>2, <1>3, <1>4, <3>1, <3>2
        <3> QED  BY <3>3
    <2>2. ASSUME NEW x \in new
          PROVE  x \in (k + 1)..(k + n)
        <3>1. PICK os \in Shares(a) : x = next + rank(os)
            OBVIOUS
        <3>2. rank(os) \in 0..(n - 1)
            BY <1>3
        <3> QED  BY <1>2, <1>3, <3>1, <3>2
    <2> QED  BY <2>1, <2>2
<1>6. billStatus' = [x \in Bill |-> IF x \in new THEN "open" ELSE billStatus[x]]
    <2>1. billStatus' = [x \in Bill |-> IF \E os \in Shares(a) : x = next + rank(os)
                                        THEN "open" ELSE billStatus[x]]
        BY DEF AskCreates
    <2> HIDE DEF next, rank
    <2> QED  BY <2>1
<1>7. BillsGrow
    <2> HIDE DEF new, next, n, rank
    <2>1. billStatus \in [Bill -> {"absent", "open", "paid", "canceled"}]
        BY DEF IInv, TypeOK
    <2>2. Made(billStatus)' = Made(billStatus) \cup new
        BY <1>4, <1>5, <1>6, <2>1 DEF Made
    <2>3. Made(billStatus)' = 1..(k + n)
        BY <1>1, <1>3, <1>5, <2>2
    <2>4. k + n \in Nat
        BY <1>3
    <2> QED  BY <1>6, <2>1, <2>3, <2>4 DEF BillsGrow, Numbered
<1>8. ask' = [ask EXCEPT ![a] = NoAsk] /\ UNCHANGED <<active, status, guestOf, pay>>
    BY DEF AskCreates, orderVars
<1>9. CASE a = Manager
    <2>1. UNCHANGED <<reqStatus, reqBill>>
        BY <1>9 DEF AskCreates, requestVars
    <2> QED  BY <1>7, <1>8, <2>1, BillsAdded
<1>10. CASE a # Manager
    <2>1. StoreRequest(a, next)
        BY <1>10 DEF AskCreates
    <2>2. next \in new
        <3>1. Shares(a) # {}
            BY <1>10 DEF Shares
        <3> HIDE DEF next, n, new
        <3> QED  BY <1>2, <1>3, <1>5, <3>1
    <2>3. next \in Bill /\ billStatus'[next] = "open"
        <3> HIDE DEF next, rank
        <3> QED  BY <1>6, <2>2
    <2>4. billStatus[next] = "absent"
        <3>1. next \notin Made(billStatus)
            <4> HIDE DEF next
            <4> QED  BY <1>1, <1>2
        <3> HIDE DEF next
        <3> QED  BY <2>3, <3>1 DEF Made, IInv, TypeOK
    <2>5. next # 0 /\ ~BillLocked(next)
        <3> HIDE DEF next
        <3> QED  BY <2>3, <2>4 DEF BillLocked, IInv, HeldInv
    <2> HIDE DEF next
    <2> QED  BY <1>7, <1>8, <2>1, <2>3, <2>5, RequestAdded
<1> QED  BY <1>9, <1>10

-----------------------------------------------------------------------------
(* The other steps                                                         *)

\* Bills and requests that are closed keep their numbers.
LEMMA NumbersKept ==
    ASSUME IInv, billStatus' \in [Bill -> {"absent", "open", "paid", "canceled"}],
           reqStatus' \in [Request -> {"absent", "open", "auto_prepared", "processed", "canceled"}],
           \A b \in Bill : (billStatus'[b] = "absent") <=> (billStatus[b] = "absent"),
           \A r \in Request : (reqStatus'[r] = "absent") <=> (reqStatus[r] = "absent")
    PROVE  Numbered(billStatus)' /\ Numbered(reqStatus)'
<1>1. DOMAIN billStatus = Bill /\ DOMAIN reqStatus = Request
    BY DEF IInv, TypeOK
<1>2. Made(billStatus)' = Made(billStatus) /\ Made(reqStatus)' = Made(reqStatus)
    BY <1>1 DEF Made
<1> QED  BY <1>2 DEF IInv, Numbered

\* The commit of a payment: the requests of its bill are processed, every one.
LEMMA Committed ==
    ASSUME IInv, NEW c \in Cashier, Commit(c)
    PROVE  IInv' /\ \A r \in Request : Final(r)
<1> DEFINE b == pay[c].bill
<1>1. /\ pay[c] \in PayRow /\ b \in Bill \cup {0} /\ Known(pay[c])
      /\ b # 0 => /\ billStatus[b] = "open"
                  /\ \A d \in Cashier \ {c} : pay[d].bill # b
                  /\ \A r \in Pending : reqBill[r] = b => r \in pay[c].marked
    BY PaymentHas DEF Commit, MayCommit, PayRow, Holds
<1>2. /\ billStatus' = [x \in Bill |-> IF x = b THEN "paid" ELSE billStatus[x]]
      /\ reqStatus' = [r \in Request |-> IF r \in pay[c].marked THEN "processed" ELSE reqStatus[r]]
      /\ pay' = [pay EXCEPT ![c] = NoPay]
      /\ active' = active \ pay[c].held
      /\ UNCHANGED <<guestOf, reqBill, ask>>
    BY DEF Commit
<1> HIDE DEF b
<1>3. /\ billStatus \in [Bill -> {"absent", "open", "paid", "canceled"}]
      /\ reqStatus \in [Request -> {"absent", "open", "auto_prepared", "processed", "canceled"}]
      /\ pay \in [Cashier -> PayRow] /\ reqBill \in [Request -> Bill \cup {0}]
    BY DEF IInv, TypeOK
<1>4. /\ billStatus' \in [Bill -> {"absent", "open", "paid", "canceled"}]
      /\ reqStatus' \in [Request -> {"absent", "open", "auto_prepared", "processed", "canceled"}]
      /\ pay' \in [Cashier -> PayRow]
    BY <1>2, <1>3, NoPayTyped
<1>5. TypeOK'
    <2>1. status' \in [Order -> {"absent", "new", "served", "canceled"}]
        BY DEF Commit, IInv, TypeOK
    <2> QED  BY <1>2, <1>4, <2>1 DEF IInv, TypeOK
<1>6. /\ pay'[c] = NoPay /\ \A d \in Cashier : d # c => pay'[d] = pay[d]
      /\ \A x \in Bill : billStatus'[x] = IF x = b THEN "paid" ELSE billStatus[x]
    BY <1>1, <1>2, <1>3
<1>7. \A r \in Pending' : r \in Pending /\ r \notin pay[c].marked
    BY <1>2 DEF Pending
<1>8. HeldInv'
    <2> SUFFICES ASSUME NEW d \in Cashier, pay'[d].bill # 0
                 PROVE  /\ billStatus'[pay'[d].bill] = "open"
                        /\ \A e \in Cashier \ {d} : pay'[e].bill # pay'[d].bill
        BY DEF HeldInv
    <2>1. d # c /\ pay'[d] = pay[d]
        BY <1>6, NoPayTyped
    <2>2. pay[d].bill # b /\ pay[d].bill # 0 /\ pay[d].bill \in Bill
        <3>1. pay[d].bill # 0 /\ pay[d].bill \in Bill
            BY <1>3, <2>1 DEF PayRow
        <3> QED  BY <1>1, <2>1, <3>1
    <2>3. /\ billStatus[pay[d].bill] = "open"
          /\ \A e \in Cashier \ {d} : pay[e].bill # pay[d].bill
        BY <2>2 DEF IInv, HeldInv
    <2> QED  BY <1>6, <2>1, <2>2, <2>3, NoPayTyped
<1>9. MarkedInv'
    <2> SUFFICES ASSUME NEW d \in Cashier
                 PROVE  Known(pay[d])'
        BY DEF MarkedInv
    <2>1. CASE d = c
        BY <2>1, <1>6, NoPayTyped DEF Known
    <2>2. CASE d # c
        <3>1. pay'[d] = pay[d] /\ Known(pay[d]) /\ pay[d] \in PayRow
            BY <1>3, <1>6, <2>2 DEF IInv, MarkedInv
        <3> QED  BY <1>2, <3>1 DEF Known, PayRow
    <2> QED  BY <2>1, <2>2
<1>10. AnsweredInv'
    BY <1>2, <1>6, <1>7, NoPayTyped DEF IInv, AnsweredInv
<1>11. PendingBillOpen'
    <2> SUFFICES ASSUME NEW r \in Pending', reqBill'[r] # 0
                 PROVE  billStatus'[reqBill'[r]] = "open"
        BY DEF PendingBillOpen
    <2>1. r \in Pending /\ r \in Request /\ reqBill'[r] = reqBill[r] /\ reqBill[r] # b
        BY <1>1, <1>2, <1>7 DEF Pending
    <2>2. billStatus[reqBill[r]] = "open" /\ reqBill[r] \in Bill
        BY <1>3, <2>1 DEF IInv, PendingBillOpen
    <2> QED  BY <1>6, <2>1, <2>2
<1>12. RowsInv'
    BY <1>6, NoPaySound DEF IInv, RowsInv, RowSound, NoPay
<1>13. Numbered(billStatus)' /\ Numbered(reqStatus)'
    <2>1. \A r \in pay[c].marked : r \in Request /\ reqStatus[r] # "absent"
        BY <1>1 DEF IInv, MarkedInv, Known, PayRow
    <2>2. \A r \in Request : (reqStatus'[r] = "absent") <=> (reqStatus[r] = "absent")
        BY <1>2, <2>1
    <2>3. \A x \in Bill : (billStatus'[x] = "absent") <=> (billStatus[x] = "absent")
        BY <1>1, <1>6
    <2> QED  BY <1>4, <2>2, <2>3, NumbersKept
<1>14. \A r \in Request : Final(r)
    BY <1>1, <1>2 DEF Final, Known
<1> QED  BY <1>5, <1>8, <1>9, <1>10, <1>11, <1>12, <1>13, <1>14 DEF IInv

LEMMA BillVoided ==
    ASSUME IInv, NEW b \in Bill, VoidBill(b)
    PROVE  IInv' /\ \A r \in Request : Final(r)
<1> DEFINE off(r) == r \in Pending /\ reqBill[r] = b
<1>1. /\ billStatus[b] = "open" /\ \A c \in Cashier : pay[c].bill # b
      /\ billStatus' = [billStatus EXCEPT ![b] = "canceled"]
      /\ reqStatus' = [r \in Request |-> IF off(r) THEN "open" ELSE reqStatus[r]]
      /\ reqBill' = [r \in Request |-> IF off(r) THEN 0 ELSE reqBill[r]]
      /\ UNCHANGED <<active, status, guestOf, ask, pay>>
    BY DEF VoidBill, BillLocked, orderVars
<1>2. /\ billStatus \in [Bill -> {"absent", "open", "paid", "canceled"}]
      /\ reqStatus \in [Request -> {"absent", "open", "auto_prepared", "processed", "canceled"}]
      /\ pay \in [Cashier -> PayRow] /\ reqBill \in [Request -> Bill \cup {0}]
    BY DEF IInv, TypeOK
<1>3. \A r \in Request : off(r) => reqStatus[r] \in {"open", "auto_prepared"}
    BY DEF Pending
<1>4. Pending' = Pending
    BY <1>1, <1>3 DEF Pending
<1> HIDE DEF off
<1>5. /\ billStatus' \in [Bill -> {"absent", "open", "paid", "canceled"}]
      /\ reqStatus' \in [Request -> {"absent", "open", "auto_prepared", "processed", "canceled"}]
      /\ reqBill' \in [Request -> Bill \cup {0}]
    BY <1>1, <1>2
<1>6. TypeOK'
    BY <1>1, <1>5 DEF IInv, TypeOK
<1>7. Numbered(billStatus)' /\ Numbered(reqStatus)'
    BY <1>1, <1>2, <1>3, <1>5, NumbersKept
<1>8. HeldInv'
    BY <1>1, <1>2 DEF IInv, HeldInv, PayRow
<1>9. RowsInv' /\ MarkedInv'
    BY <1>1, <1>2 DEF IInv, RowsInv, RowSound, NoPay, MarkedInv, Known, PayRow
<1>10. AnsweredInv'
    BY <1>1, <1>4 DEF IInv, AnsweredInv, Pending
<1>11. PendingBillOpen'
    <2> SUFFICES ASSUME NEW r \in Pending, reqBill'[r] # 0
                 PROVE  billStatus'[reqBill'[r]] = "open"
        BY <1>4 DEF PendingBillOpen
    <2>1. r \in Request /\ ~off(r) /\ reqBill'[r] = reqBill[r]
        BY <1>1 DEF Pending
    <2>2. reqBill[r] # b /\ reqBill[r] \in Bill /\ billStatus[reqBill[r]] = "open"
        BY <1>2, <2>1 DEF IInv, PendingBillOpen, off
    <2> QED  BY <1>1, <1>2, <2>1, <2>2
<1> QED  BY <1>1, <1>3, <1>6, <1>7, <1>8, <1>9, <1>10, <1>11 DEF IInv, Final

LEMMA RequestFinished ==
    ASSUME IInv, NEW r \in Request, NEW final \in {"processed", "canceled"}, FinishRequest(r, final)
    PROVE  IInv' /\ \A q \in Request : Final(q)
<1>1. /\ r \in Pending /\ \A c \in Cashier : r \notin pay[c].marked
      /\ reqStatus' = [reqStatus EXCEPT ![r] = final]
      /\ UNCHANGED <<active, status, guestOf, billStatus, reqBill, ask, pay>>
    BY DEF FinishRequest, RequestLocked, orderVars, billVars
<1>2. /\ reqStatus \in [Request -> {"absent", "open", "auto_prepared", "processed", "canceled"}]
      /\ pay \in [Cashier -> PayRow]
    BY DEF IInv, TypeOK
<1>3. reqStatus' \in [Request -> {"absent", "open", "auto_prepared", "processed", "canceled"}]
    BY <1>1, <1>2
<1>4. TypeOK'
    BY <1>1, <1>3 DEF IInv, TypeOK
<1>5. reqStatus[r] \in {"open", "auto_prepared"} /\ reqStatus'[r] = final
    BY <1>1, <1>2 DEF Pending
<1>6. \A q \in Request : q # r => reqStatus'[q] = reqStatus[q]
    BY <1>1, <1>2
<1>7. Pending' = Pending \ {r}
    BY <1>5, <1>6 DEF Pending
<1>8. Numbered(billStatus)' /\ Numbered(reqStatus)'
    <2>1. billStatus' \in [Bill -> {"absent", "open", "paid", "canceled"}]
        BY <1>1 DEF IInv, TypeOK
    <2> QED  BY <1>1, <1>3, <1>5, <1>6, <2>1, NumbersKept
<1>9. RowsInv' /\ HeldInv' /\ AnsweredInv' /\ PendingBillOpen'
    BY <1>1, <1>7 DEF IInv, RowsInv, RowSound, NoPay, HeldInv, AnsweredInv, PendingBillOpen
<1>10. MarkedInv'
    BY <1>1, <1>2, <1>6 DEF IInv, MarkedInv, Known, PayRow
<1> QED  BY <1>4, <1>5, <1>6, <1>8, <1>9, <1>10 DEF IInv, Final

-----------------------------------------------------------------------------
LEMMA Step ==
    ASSUME IInv, [Next]_vars
    PROVE  IInv' /\ \A r \in Request : Final(r)
<1>1. CASE UNCHANGED vars
    <2>1. UNCHANGED <<billStatus, reqStatus, reqBill, pay>> /\ TypeOK'
        BY <1>1 DEF vars, IInv, TypeOK
    <2> QED  BY <2>1, QuietKeeps
<1>2. ASSUME NEW g \in Guest, Checkout(g)
      PROVE  IInv' /\ \A r \in Request : Final(r)
    BY <1>2, OrderSteps
<1>3. ASSUME NEW o \in Order, ServeOrder(o) \/ CancelOrder(o)
      PROVE  IInv' /\ \A r \in Request : Final(r)
    BY <1>3, OrderSteps
<1>4. ASSUME NEW g \in Guest, NEW type \in Type, GuestAsks(g, type)
      PROVE  IInv' /\ \A r \in Request : Final(r)
    BY <1>4, AskSteps
<1>5. ASSUME NEW type \in Type, StaffAsks(type)
      PROVE  IInv' /\ \A r \in Request : Final(r)
    BY <1>5, AskSteps
<1>6. ASSUME NEW a \in Asker, FindOrders(a) \/ AskFails(a)
      PROVE  IInv' /\ \A r \in Request : Final(r)
    BY <1>6, AskSteps
<1>7. ASSUME NEW a \in Asker, AskExtends(a) \/ AskSplit(a)
      PROVE  IInv' /\ \A r \in Request : Final(r)
    BY <1>7, Extended
<1>8. ASSUME NEW a \in Asker, AskCreates(a)
      PROVE  IInv' /\ \A r \in Request : Final(r)
    BY <1>8, Created
<1>9. ASSUME NEW c \in Cashier, PaymentStep(c)
      PROVE  IInv' /\ \A r \in Request : Final(r)
    <2>1. CASE FollowUpRaises(c) \/ CancelFails(c) \/ BreakDeadlock(c)
        BY <2>1, RolledBack
    <2>2. CASE ListSessions(c)
        BY <2>2, SessionsListed
    <2>3. CASE LockSession(c)
        BY <2>3, SessionLocks
    <2>4. CASE LockVisit(c)
        BY <2>4, VisitLocks
    <2>5. CASE Commit(c)
        BY <2>5, Committed
    <2>6. ASSUME NEW r \in Request, MarkRequest(c, r)
          PROVE  IInv' /\ \A q \in Request : Final(q)
        BY <2>6, RequestMarked
    <2>7. ASSUME NEW g \in Guest, ListSessionRequests(c, g)
          PROVE  IInv' /\ \A r \in Request : Final(r)
        BY <2>7, SessionTaken
    <2> QED  BY <1>9, <2>1, <2>2, <2>3, <2>4, <2>5, <2>6, <2>7 DEF PaymentStep
<1>10. ASSUME NEW c \in Cashier, NEW b \in Bill, BeginPayment(c, b) \/ BeginRemoval(c, b)
       PROVE  IInv' /\ \A r \in Request : Final(r)
    <2>1. PICK os \in SUBSET Order : FollowUp(c, b, os)
        BY <1>10 DEF BeginPayment, BeginRemoval, LinesOf
    <2> QED  BY <2>1, PaymentBegins
<1>11. ASSUME NEW c \in Cashier, NEW g \in Guest, BeginClosing(c, g)
       PROVE  IInv' /\ \A r \in Request : Final(r)
    BY <1>11, ClosingBegins
<1>12. ASSUME NEW b \in Bill, VoidBill(b)
       PROVE  IInv' /\ \A r \in Request : Final(r)
    BY <1>12, BillVoided
<1>13. ASSUME NEW b \in Bill, NEW os \in SUBSET Order, RemoveLines(b, os)
       PROVE  IInv' /\ \A r \in Request : Final(r)
    BY <1>13, OrderSteps
<1>14. ASSUME NEW r \in Request, NEW final \in {"processed", "canceled"}, FinishRequest(r, final)
       PROVE  IInv' /\ \A q \in Request : Final(q)
    BY <1>14, RequestFinished
<1> QED  BY <1>1, <1>2, <1>3, <1>4, <1>5, <1>6, <1>7, <1>8, <1>9, <1>10, <1>11, <1>12, <1>13, <1>14
         DEF Next

LEMMA InvariantHolds == Spec => []IInv
<1>1. IInv /\ [Next]_vars => IInv'
    BY Step
<1> QED  BY Initially, <1>1, PTL DEF Spec

\* A request that waits for a bill waits for one that is neither paid nor voided: for any number
\* of guests who ask, cashiers who take payments and bills the staff prepares, corrects or voids
\* at the same time (apps/billing/table_bills.py).  That bill need not be payable: the staff may
\* have taken all its lines out (remove_bill_lines), which leaves its requests as they are.
THEOREM PendingRequestsBillOpen == Spec => []PendingBillOpen
<1>1. IInv => PendingBillOpen
    BY DEF IInv
<1> QED  BY InvariantHolds, <1>1, PTL

\* A payment that has listed a request does not bring it back when somebody else has finished
\* or canceled it: it reads the row again under its lock (mark_billing_request_processed).
THEOREM RequestsStayFinal == Spec => RequestsFinal
<1>1. IInv /\ [Next]_vars =>
          [\A r \in Request : reqStatus[r] \in {"processed", "canceled"}
                                 => reqStatus'[r] = reqStatus[r]]_vars
    BY Step DEF Final
<1> QED  BY InvariantHolds, <1>1, PTL DEF Spec, RequestsFinal

-----------------------------------------------------------------------------
(* Payments never all wait                                                 *)

\* Circles of waiting payments have smallest ones inside.
LEMMA SmallestCircle ==
    ASSUME NEW D \in SUBSET Cashier, Circle(D)
    PROVE  \E c \in Cashier : Deadlocked(c)
<1> DEFINE T == {E \in SUBSET D : Circle(E)}
<1>1. IsWellFoundedOn(StrictSubsetOrdering(D), FiniteSubsetsOf(D)) /\ FiniteSubsetsOf(D) = SUBSET D
    <2>1. IsFiniteSet(D)
        BY FS_Subset
    <2> QED  BY <2>1, FS_StrictSubsetOrderingWellFounded, FS_FiniteSubsetsOfFinite
<1>2. T \subseteq FiniteSubsetsOf(D) /\ D \in T
    BY <1>1
<1>3. PICK E \in T : \A F \in T : <<F, E>> \notin StrictSubsetOrdering(D)
    <2> HIDE DEF T
    <2> QED  BY <1>1, <1>2, WFMin
<1>4. \A F \in SUBSET E : Circle(F) => F = E
    BY <1>3 DEF StrictSubsetOrdering
<1>5. PICK c \in E : TRUE
    BY <1>3 DEF Circle
<1> QED  BY <1>3, <1>4, <1>5 DEF Deadlocked

\* Who cannot go on waits for what somebody else has locked.
LEMMA StuckWaits ==
    ASSUME IInv, NEW c \in Cashier, pay[c] # NoPay, ~CanGoOn(c)
    PROVE  \E d \in Cashier : pay[d] # NoPay /\ WaitsFor(c, d)
<1>1. pay[c] \in PayRow /\ RowSound(pay[c])
    BY PaymentHas
<1>2. pay[c].step \in {"mark bill", "sessions", "mark session", "visit"}
    BY <1>1 DEF RowSound, PayRow
<1>3. pay[c].step # "sessions"
    BY <1>1 DEF CanGoOn, MayCommit, PayRow
<1>4. CASE Marking(c)
    <2>1. PICK r \in pay[c].listed : r \in Request
        BY <1>1, <1>4 DEF Marking, PayRow
    <2>2. PICK d \in Cashier : r \in pay[d].marked
        BY <1>4, <2>1 DEF CanGoOn, MayMark, MeetsCanceled, RequestLocked
    <2>3. d # c /\ pay[d] # NoPay
        BY <1>1, <2>1, <2>2, NoPayTyped DEF RowSound
    <2> QED  BY <1>4, <2>1, <2>2, <2>3 DEF WaitsFor
<1>5. CASE pay[c].step = "mark session" /\ pay[c].listed = {}
    <2>1. PICK d \in Cashier : pay[c].session \in pay[d].held
        BY <1>5 DEF CanGoOn, MayLock, SessionLocked
    <2>2. pay[c].session \notin pay[c].held
        BY <1>1, <1>5 DEF RowSound
    <2>3. pay[d] # NoPay
        BY <2>1 DEF NoPay
    <2> QED  BY <1>5, <2>1, <2>2, <2>3 DEF WaitsFor
<1>6. CASE pay[c].step = "visit"
    <2>1. PICK d \in Cashier \ {c} : pay[d].visit
        BY <1>6 DEF CanGoOn, MayLockVisit
    <2>2. pay[d] # NoPay
        BY <2>1 DEF NoPay
    <2> QED  BY <1>6, <2>1, <2>2 DEF WaitsFor
<1> QED  BY <1>2, <1>3, <1>4, <1>5, <1>6 DEF CanGoOn, Marking

LEMMA OneGoesOn ==
    ASSUME IInv
    PROVE  PaymentsProceed
<1> SUFFICES ASSUME NEW c \in Cashier, pay[c] # NoPay, \A d \in Cashier : ~CanGoOn(d)
             PROVE  FALSE
    BY DEF PaymentsProceed
<1> DEFINE D == {d \in Cashier : pay[d] # NoPay}
<1>1. Circle(D)
    BY StuckWaits DEF Circle
<1>2. \E d \in Cashier : Deadlocked(d)
    BY <1>1, SmallestCircle
<1> QED  BY <1>2 DEF CanGoOn

\* Payments and closings of one visit never all wait: however many employees are at it, one of
\* them can go on.  They wait for requests, sessions and the visit which others hold to their
\* commit, also in circles of different kinds, which PostgreSQL breaks; and none waits for what
\* nobody holds or for what it holds itself (apps/billing/table_bills.py,
\* close_table_session_if_settled).
THEOREM PaymentsNeverAllWait == Spec => []PaymentsProceed
<1>1. IInv => PaymentsProceed
    BY OneGoesOn
<1> QED  BY InvariantHolds, <1>1, PTL

=============================================================================
