--------------------------- MODULE StaffDeskProofs ---------------------------
(***************************************************************************)
(* Theorems about StaffDesk, for any employees and roles, any orders with  *)
(* any lines, any number of bills and any table of allowed moves in which  *)
(* a canceled order stays canceled and no order becomes new again.         *)
(***************************************************************************)
EXTENDS StaffDesk, FiniteSetTheorems, TLAPS

-----------------------------------------------------------------------------
(* Sums over finite sets: an element x worth f[x] stands for f[x] units, and *)
(* a sum is a number of units.                                             *)

Units(f, S) == UNION {{x} \X (1..f[x]) : x \in S}

\* One element counts as many units as it is worth.
LEMMA UnitsOfOne ==
    ASSUME NEW x, NEW n \in Nat
    PROVE IsFiniteSet({x} \X (1..n)) /\ Cardinality({x} \X (1..n)) = n
<1>1. IsFiniteSet({x}) /\ Cardinality({x}) = 1
    BY FS_Singleton
<1>2. IsFiniteSet(1..n) /\ Cardinality(1..n) = n
    BY FS_Interval
<1> DEFINE I == 1..n
<1> HIDE DEF I
<1>3. IsFiniteSet({x} \X I) /\ Cardinality({x} \X I) = Cardinality({x}) * Cardinality(I)
    BY <1>1, <1>2, FS_Product DEF I
<1> QED BY <1>1, <1>2, <1>3 DEF I

\* An element adds the units it is worth.
LEMMA UnitsAdd ==
    ASSUME NEW f, NEW S, NEW x \in S, f[x] \in Nat, IsFiniteSet(Units(f, S \ {x}))
    PROVE  /\ IsFiniteSet(Units(f, S))
           /\ Cardinality(Units(f, S)) = f[x] + Cardinality(Units(f, S \ {x}))
<1> DEFINE one == {x} \X (1..f[x])
           rest == Units(f, S \ {x})
<1>1. IsFiniteSet(one) /\ Cardinality(one) = f[x]
    BY UnitsOfOne
<1>2. Units(f, S) = rest \cup one /\ rest \cap one = {}
    BY DEF Units
<1>3. IsFiniteSet(rest) /\ Cardinality(rest) \in Nat /\ Cardinality({}) = 0
    BY FS_CardinalityType, FS_EmptySet
<1> HIDE DEF one, rest
<1>4. /\ IsFiniteSet(rest \cup one)
      /\ Cardinality(rest \cup one) = Cardinality(rest) + Cardinality(one) - Cardinality(rest \cap one)
    BY <1>1, <1>3, FS_Union
<1>5. Cardinality(rest \cap one) = 0
    BY <1>2, <1>3
<1>6. Cardinality(rest \cup one) = f[x] + Cardinality(rest)
    <2> HIDE <1>2
    <2> QED  BY <1>1, <1>3, <1>4, <1>5
<1> QED
    BY <1>2, <1>4, <1>6 DEF rest

\* A set of subsets of a finite set has one that contains no other: the induction on finite sets.
LEMMA FiniteMinimal ==
    ASSUME NEW S, IsFiniteSet(S), NEW T, T \subseteq SUBSET S, T # {}
    PROVE  \E s \in T : \A r \in T : r \subseteq s => r = s
<1>1. IsWellFoundedOn(StrictSubsetOrdering(S), FiniteSubsetsOf(S)) /\ FiniteSubsetsOf(S) = SUBSET S
    BY FS_StrictSubsetOrderingWellFounded, FS_FiniteSubsetsOfFinite
<1>2. PICK s \in T : \A r \in T : <<r, s>> \notin StrictSubsetOrdering(S)
    BY <1>1, WFMin
<1> QED
    BY <1>2 DEF StrictSubsetOrdering

\* The fold of the model adds up the units: the cardinality solves its recursion.
LEMMA SumIsUnits ==
    ASSUME NEW S, IsFiniteSet(S), NEW f, \A x \in S : f[x] \in Nat
    PROVE  IsFiniteSet(Units(f, S)) /\ SumFunctionOnSet(f, S) = Cardinality(Units(f, S))
<1> DEFINE x(s) == CHOOSE y \in s : TRUE
           step(g) == [s \in SUBSET S |-> IF s = {} THEN 0 ELSE f[x(s)] + g[s \ {x(s)}]]
           iter == CHOOSE g : g = step(g)
           size == [s \in SUBSET S |-> Cardinality(Units(f, s))]
<1>1. \A s \in SUBSET S : s # {} => x(s) \in s
    OBVIOUS
<1>2. \A s \in SUBSET S : IsFiniteSet(Units(f, s))
    <2> DEFINE Bad == {s \in SUBSET S : ~IsFiniteSet(Units(f, s))}
    <2> SUFFICES ASSUME Bad # {} PROVE FALSE
        OBVIOUS
    <2>0. Bad \subseteq SUBSET S
        OBVIOUS
    <2>1. PICK s \in Bad : \A r \in Bad : r \subseteq s => r = s
        <3> HIDE DEF Bad
        <3> QED  BY <2>0, FiniteMinimal
    <2>2. CASE s = {}
        BY <2>1, <2>2, FS_EmptySet DEF Units
    <2>3. CASE s # {}
        <3>1. PICK y \in s : TRUE
            BY <2>3
        <3>2. s \ {y} \notin Bad /\ s \ {y} \in SUBSET S
            BY <2>1, <3>1
        <3> QED  BY <2>1, <3>1, <3>2, UnitsAdd
    <2> QED  BY <2>2, <2>3
<1>3. ASSUME NEW s \in SUBSET S
            PROVE  size[s] = IF s = {} THEN 0 ELSE f[x(s)] + size[s \ {x(s)}]
    <2>1. CASE s = {}
        BY <2>1, FS_EmptySet DEF Units
    <2>2. CASE s # {}
        <3> DEFINE y == x(s)
        <3>1. y \in s /\ f[y] \in Nat /\ s \ {y} \in SUBSET S
            BY <1>1, <2>2
        <3> HIDE DEF y
        <3>2. Cardinality(Units(f, s)) = f[y] + Cardinality(Units(f, s \ {y}))
            <4>1. IsFiniteSet(Units(f, s \ {y}))
                BY <1>2, <3>1
            <4> QED  BY <3>1, <4>1, UnitsAdd
        <3>3. size[s] = f[y] + size[s \ {y}]
            BY <3>1, <3>2
        <3> QED  BY <2>2, <3>3 DEF y
    <2> QED  BY <2>1, <2>2
<1>4. size = step(size)
    <2> HIDE DEF x
    <2> DEFINE rhs == step(size)
    <2>1. rhs = [s \in SUBSET S |-> IF s = {} THEN 0 ELSE f[x(s)] + size[s \ {x(s)}]]
        OBVIOUS
    <2>2. size = [s \in SUBSET S |-> size[s]]
        OBVIOUS
    <2> HIDE DEF size
    <2> QED  BY <1>3, <2>1, <2>2
<1>5. iter = step(iter)
    <2> HIDE DEF step, size
    <2> QED  BY <1>4
<1>6. SumFunctionOnSet(f, S) = iter[S]
    BY DEF SumFunctionOnSet, FoldFunctionOnSet, MapThenFoldSet
<1>7. iter[S] = size[S]
    <2> DEFINE Bad == {s \in SUBSET S : iter[s] # size[s]}
    <2> SUFFICES ASSUME Bad # {} PROVE FALSE
        OBVIOUS
    <2> HIDE DEF iter
    <2>0. Bad \subseteq SUBSET S
        OBVIOUS
    <2>1. PICK s \in Bad : \A r \in Bad : r \subseteq s => r = s
        <3> HIDE DEF Bad
        <3> QED  BY <2>0, FiniteMinimal
    <2>2. iter[s] = IF s = {} THEN 0 ELSE f[x(s)] + iter[s \ {x(s)}]
        <3> HIDE DEF x, size
        <3> QED BY <1>5
    <2>3. size[s] = IF s = {} THEN 0 ELSE f[x(s)] + size[s \ {x(s)}]
        BY <1>3
    <2>4. s # {} => s \ {x(s)} \notin Bad /\ s \ {x(s)} \in SUBSET S
        <3> HIDE DEF size
        <3> QED BY <1>1, <2>1
    <2> HIDE DEF x, size
    <2> QED  BY <2>1, <2>2, <2>3, <2>4
<1> HIDE DEF iter
<1> QED
    BY <1>2, <1>6, <1>7

\* Any element can be added last.
LEMMA SumStep ==
    ASSUME NEW S, IsFiniteSet(S), NEW f, \A x \in S : f[x] \in Nat, NEW x \in S
    PROVE  /\ SumFunctionOnSet(f, S \ {x}) \in Nat
           /\ SumFunctionOnSet(f, S) = f[x] + SumFunctionOnSet(f, S \ {x})
<1>1. IsFiniteSet(S \ {x})
    BY FS_Subset
<1>2. /\ IsFiniteSet(Units(f, S \ {x}))
      /\ SumFunctionOnSet(f, S \ {x}) = Cardinality(Units(f, S \ {x}))
    BY <1>1, SumIsUnits
<1>3. SumFunctionOnSet(f, S) = Cardinality(Units(f, S))
    BY SumIsUnits
<1>4. Cardinality(Units(f, S)) = f[x] + Cardinality(Units(f, S \ {x}))
    BY <1>2, UnitsAdd
<1>5. SumFunctionOnSet(f, S \ {x}) \in Nat
    BY <1>1, <1>2, FS_CardinalityType
<1> QED
    BY <1>2, <1>3, <1>4, <1>5

\* Two functions have the same sum when they differ only by zeros.
LEMMA SumSame ==
    ASSUME NEW S, NEW T, IsFiniteSet(S), IsFiniteSet(T), NEW f, NEW g,
           \A x \in S : f[x] \in Nat, \A x \in T : g[x] \in Nat,
           \A x \in S \cap T : f[x] = g[x], \A x \in S \ T : f[x] = 0, \A x \in T \ S : g[x] = 0
    PROVE  SumFunctionOnSet(f, S) = SumFunctionOnSet(g, T)
<1>1. Units(f, S) = Units(g, T)
    <2>1. \A x \in S \ T : 1..f[x] = {}
        OBVIOUS
    <2>2. \A x \in T \ S : 1..g[x] = {}
        OBVIOUS
    <2>3. ASSUME NEW u \in Units(f, S) PROVE u \in Units(g, T)
        <3>1. PICK x \in S : u \in {x} \X (1..f[x])
            BY DEF Units
        <3>2. x \in T
            BY <2>1, <3>1
        <3> QED  BY <3>1, <3>2 DEF Units
    <2>4. ASSUME NEW u \in Units(g, T) PROVE u \in Units(f, S)
        <3>1. PICK x \in T : u \in {x} \X (1..g[x])
            BY DEF Units
        <3>2. x \in S
            BY <2>2, <3>1
        <3> QED  BY <3>1, <3>2 DEF Units
    <2> QED  BY <2>3, <2>4
<1>2. /\ SumFunctionOnSet(f, S) = Cardinality(Units(f, S))
      /\ SumFunctionOnSet(g, T) = Cardinality(Units(g, T))
    BY SumIsUnits
<1> QED
    BY <1>1, <1>2

\* A sum does not change when its terms are moved by a bijection.
LEMMA SumMoved ==
    ASSUME NEW S, NEW T, NEW f, NEW g, NEW h \in Bijection(S, T), IsFiniteSet(S), IsFiniteSet(T),
           \A x \in S : f[x] \in Nat /\ g[h[x]] = f[x]
    PROVE  SumFunctionOnSet(f, S) = SumFunctionOnSet(g, T)
<1>0. /\ h \in [S -> T] /\ \A x, y \in S : h[x] = h[y] => x = y
      /\ \A t \in T : \E s \in S : h[s] = t
    BY DEF Bijection, Injection, Surjection, IsInjective
<1>1. \A t \in T : g[t] \in Nat
    BY <1>0
<1>2. /\ IsFiniteSet(Units(f, S)) /\ IsFiniteSet(Units(g, T))
      /\ SumFunctionOnSet(f, S) = Cardinality(Units(f, S))
      /\ SumFunctionOnSet(g, T) = Cardinality(Units(g, T))
    BY <1>1, SumIsUnits
<1> DEFINE k == [u \in Units(f, S) |-> <<h[u[1]], u[2]>>]
<1>3. k \in Bijection(Units(f, S), Units(g, T))
    <2>1. k \in [Units(f, S) -> Units(g, T)]
        BY <1>0 DEF Units
    <2>2. \A u, v \in Units(f, S) : k[u] = k[v] => u = v
        BY <1>0 DEF Units
    <2>3. ASSUME NEW w \in Units(g, T) PROVE \E u \in Units(f, S) : k[u] = w
        <3>1. PICK t \in T : w \in {t} \X (1..g[t])
            BY DEF Units
        <3>2. PICK s \in S : h[s] = t
            BY <1>0
        <3>3. <<s, w[2]>> \in Units(f, S)
            BY <3>1, <3>2 DEF Units
        <3> QED  BY <3>1, <3>2, <3>3
    <2> HIDE DEF k
    <2> QED  BY <2>1, <2>2, <2>3 DEF Bijection, Injection, Surjection, IsInjective
<1>4. Cardinality(Units(f, S)) = Cardinality(Units(g, T))
    <2> HIDE DEF k
    <2>1. ExistsBijection(Units(f, S), Units(g, T))
        BY <1>3 DEF ExistsBijection
    <2> QED  BY <1>2, <2>1, FS_Bijection
<1> QED
    BY <1>2, <1>4

-----------------------------------------------------------------------------

USE StaffDeskAssumption

BillStatus == OpenStatus \cup {"absent", "paid", "canceled"}

BillRow == [status : BillStatus, items : SUBSET Line, paid : Nat, spent : Nat]

TypeOK ==
    /\ status \in [Order -> Status]
    /\ settled \subseteq Order
    /\ balance \in Int
    /\ bill \in [Bill -> BillRow]

\* The money of one bill.
Sound(row) ==
    /\ row.status = "absent" => row.items = {} /\ row.paid = 0 /\ row.spent = 0
    /\ row.status # "canceled" => row.paid + row.spent <= Cardinality(row.items)
    /\ row.status = "paid" => row.paid + row.spent = Cardinality(row.items)
    /\ row.status = "canceled" => row.paid = 0 /\ row.items = {}

MoneyInv == \A b \in Bill : Sound(bill[b])

\* The lines of a pickup order are in the bill of its checkout and in no other.
LinesInv ==
    \A b \in Bill : \A o \in Pickup : bill[b].items \cap Lines[o] # {} => b = PickupBill[o]

\* What a command has read: an amount, and lines only together with their bill.
HandRow(row) ==
    /\ row.bill \in Bill \cup {None}
    /\ row.seen \in Int
    /\ row.bill = None => row.lines = {}

HandInv == DOMAIN hand = Employee /\ hand = [e \in Employee |-> hand[e]]
           /\ \A e \in Employee : HandRow(hand[e])

\* What was said of a transfer holds on: a confirmed order keeps lines in its paid bill, so that
\* nobody can cancel it.
Said(o) ==
    /\ <<o, "confirmed">> \in told =>
          /\ <<o, "rejected">> \notin told
          /\ o \in settled /\ status[o] \notin {"new", "canceled"}
          /\ bill[PickupBill[o]].status = "paid"
          /\ bill[PickupBill[o]].items \cap Lines[o] # {}
    /\ <<o, "rejected">> \in told =>
          status[o] = "canceled" /\ o \notin settled /\ bill[PickupBill[o]].status = "canceled"

SaidInv == \A o \in Pickup : Said(o)

IInv == TypeOK /\ MoneyInv /\ LinesInv /\ HandInv /\ SaidInv

-----------------------------------------------------------------------------
(* Rows                                                                    *)

LEMMA LineOwner ==
    ASSUME NEW o \in Order, NEW l \in Lines[o]
    PROVE  l \in Line /\ OrderOf(l) = o
BY DEF Line, OrderOf

LEMMA LineCount ==
    ASSUME NEW s \in SUBSET Line
    PROVE  IsFiniteSet(s) /\ Cardinality(s) \in Nat
BY FS_Subset, FS_CardinalityType

LEMMA InBill ==
    ASSUME TypeOK, NEW b \in Bill, NEW o \in OrdersIn(b)
    PROVE  o \in Order /\ bill[b].items \cap Lines[o] # {}
<1>1. PICK l \in bill[b].items : o = OrderOf(l)
    BY DEF OrdersIn
<1>2. bill[b] \in BillRow
    BY DEF TypeOK
<1>3. l \in Line
    BY <1>1, <1>2 DEF BillRow
<1>4. PICK p \in Order : l \in Lines[p]
    BY <1>3 DEF Line
<1>5. OrderOf(l) = p
    BY <1>4, LineOwner
<1> QED  BY <1>1, <1>4, <1>5

\* A bill that a pickup order is in is the bill of its checkout.
LEMMA PickupInBill ==
    ASSUME TypeOK, LinesInv, NEW b \in Bill, NEW o \in Pickup, o \in OrdersIn(b)
    PROVE  b = PickupBill[o] /\ bill[b].items \cap Lines[o] # {}
<1>1. bill[b].items \cap Lines[o] # {}
    BY InBill
<1> QED  BY <1>1 DEF LinesInv

LEMMA BillTyped ==
    ASSUME TypeOK, NEW b \in Bill
    PROVE  /\ bill[b] \in BillRow /\ bill[b].status \in BillStatus
           /\ bill[b].items \in SUBSET Line /\ bill[b].paid \in Nat /\ bill[b].spent \in Nat
           /\ Cardinality(bill[b].items) \in Nat
           /\ Total(b) \in Int /\ Remaining(b) \in Int
<1>1. bill[b] \in BillRow
    BY DEF TypeOK
<1>2. /\ bill[b].status \in BillStatus /\ bill[b].items \in SUBSET Line
      /\ bill[b].paid \in Nat /\ bill[b].spent \in Nat
    BY <1>1 DEF BillRow
<1>3. Cardinality(bill[b].items) \in Nat
    BY <1>2, LineCount
<1> QED  BY <1>1, <1>2, <1>3 DEF Total, Remaining

\* Exactly one bill is written, which becomes row.
Rewrites(b, row) == bill' = [bill EXCEPT ![b] = row]

LEMMA Rewritten ==
    ASSUME TypeOK, NEW b \in Bill, NEW row \in BillRow, Rewrites(b, row)
    PROVE  /\ bill' \in [Bill -> BillRow] /\ bill'[b] = row
           /\ \A c \in Bill : c # b => bill'[c] = bill[c]
BY DEF TypeOK, Rewrites

\* A payment writes what was paid and then the status.
LEMMA TwoFields ==
    ASSUME TypeOK, NEW b \in Bill, NEW n, NEW state
    PROVE  [bill EXCEPT ![b].paid = @ + n, ![b].status = state] =
               [bill EXCEPT ![b] = [bill[b] EXCEPT !.paid = @ + n, !.status = state]]
<1> DEFINE first == [bill[b] EXCEPT !.paid = @ + n]
           once == [bill EXCEPT ![b] = first]
<1>1. bill \in [Bill -> BillRow]
    BY DEF TypeOK
<1> HIDE DEF first
<1>2. once[b] = first
    BY <1>1
<1>3. [once EXCEPT ![b] = [once[b] EXCEPT !.status = state]] =
          [bill EXCEPT ![b] = [first EXCEPT !.status = state]]
    BY <1>1, <1>2
<1> QED  BY <1>3 DEF first

\* A bill that keeps its lines or loses some keeps the invariants on bills.
LEMMA BillStep ==
    ASSUME TypeOK, MoneyInv, LinesInv, NEW b \in Bill, NEW row \in BillRow, Rewrites(b, row),
           Sound(row), row.items \subseteq bill[b].items
    PROVE  MoneyInv' /\ LinesInv'
<1>1. bill'[b] = row /\ \A c \in Bill : c # b => bill'[c] = bill[c]
    BY Rewritten
<1>2. MoneyInv'
    <2> SUFFICES ASSUME NEW c \in Bill
                 PROVE  Sound(bill'[c])
        BY DEF MoneyInv, Sound
    <2>1. Sound(bill[c])
        BY DEF MoneyInv
    <2> QED  BY <1>1, <2>1
<1>3. LinesInv'
    <2> SUFFICES ASSUME NEW c \in Bill, NEW o \in Pickup, bill'[c].items \cap Lines[o] # {}
                 PROVE  c = PickupBill[o]
        BY DEF LinesInv
    <2>1. bill'[c].items \subseteq bill[c].items
        BY <1>1
    <2> QED  BY <2>1 DEF LinesInv
<1> QED  BY <1>2, <1>3

\* A bill nothing was paid for is voided soundly.
LEMMA VoidedRow ==
    ASSUME TypeOK, NEW b \in Bill, bill[b].paid = 0
    PROVE  /\ Voided(b) \in BillRow /\ Sound(Voided(b)) /\ Voided(b).items \subseteq bill[b].items
           /\ Voided(b).status = "canceled"
<1>1. bill[b] \in BillRow
    BY BillTyped
<1>2. /\ Voided(b).status = "canceled" /\ Voided(b).items = {} /\ Voided(b).paid = 0
      /\ Voided(b) \in BillRow
    BY <1>1 DEF Voided, BillRow, BillStatus
<1> QED  BY <1>2 DEF Sound

\* What was said stands when nobody is told anything, no bill that is paid or canceled is
\* written, and the orders that move are neither canceled before nor after.
LEMMA SaidStays ==
    ASSUME TypeOK, LinesInv, SaidInv, told' = told, settled \subseteq settled',
           \A c \in Bill : bill[c].status \in {"paid", "canceled"} => bill'[c] = bill[c],
           \A o \in Pickup : status[o] = "canceled" /\ o \notin settled
                /\ bill[PickupBill[o]].status = "canceled" =>
                        status'[o] = "canceled" /\ o \notin settled',
           \A o \in Pickup : status[o] \notin {"new", "canceled"} /\ o \in settled
                /\ bill[PickupBill[o]].status = "paid"
                /\ bill[PickupBill[o]].items \cap Lines[o] # {} =>
                        status'[o] \notin {"new", "canceled"}
    PROVE  SaidInv'
<1> SUFFICES ASSUME NEW o \in Pickup
             PROVE  Said(o)'
    BY DEF SaidInv
<1>1. Said(o) /\ PickupBill[o] \in Bill
    BY DEF SaidInv
<1>2. <<o, "confirmed">> \in told =>
        status'[o] \notin {"new", "canceled"} /\ bill'[PickupBill[o]] = bill[PickupBill[o]]
    BY <1>1 DEF Said
<1>3. <<o, "rejected">> \in told =>
        /\ status'[o] = "canceled" /\ o \notin settled'
        /\ bill'[PickupBill[o]] = bill[PickupBill[o]]
    BY <1>1 DEF Said
<1> QED  BY <1>1, <1>2, <1>3 DEF Said

\* A hand put down, or the hand that one command takes up.
LEMMA HandStep ==
    ASSUME HandInv, NEW e \in Employee, NEW row, HandRow(row), hand' = [hand EXCEPT ![e] = row]
    PROVE  HandInv'
<1>1. \A f \in Employee : hand'[f] = IF f = e THEN row ELSE hand[f]
    BY DEF HandInv
<1>2. DOMAIN hand' = Employee /\ hand' = [f \in Employee |-> hand'[f]]
    BY DEF HandInv
<1>3. \A f \in Employee : HandRow(hand'[f])
    BY <1>1 DEF HandInv
<1> QED  BY <1>2, <1>3 DEF HandInv, HandRow

LEMMA IdleHand == HandRow(Idle)
BY DEF HandRow, Idle

-----------------------------------------------------------------------------
(* The steps                                                               *)

\* The bill of the checkout of a pickup order, partly paid with bonuses.
CheckoutRow(o, bonuses) == [status |-> "issued", items |-> Lines[o], paid |-> 0, spent |-> bonuses]

LEMMA InitIInv == Init => IInv
<1> SUFFICES ASSUME Init
             PROVE  IInv
    OBVIOUS
<1>1. PICK spent \in [Pickup -> 0..Bonuses] :
        /\ \A o \in Pickup : spent[o] < Cardinality(Lines[o])
        /\ balance \in Nat
        /\ bill = [b \in Bill |-> IF \E o \in Pickup : PickupBill[o] = b
              THEN LET o == CHOOSE p \in Pickup : PickupBill[p] = b IN
                   [NoBill EXCEPT !.status = "issued", !.items = Lines[o], !.spent = spent[o]]
              ELSE NoBill]
    BY DEF Init
<1>2. \A b \in Bill : \/ bill[b] = NoBill
                      \/ \E o \in Pickup : /\ PickupBill[o] = b
                                           /\ bill[b] = CheckoutRow(o, spent[o])
    <2> TAKE b \in Bill
    <2>1. CASE ~ \E o \in Pickup : PickupBill[o] = b
        BY <1>1, <2>1
    <2>2. CASE \E o \in Pickup : PickupBill[o] = b
        <3> DEFINE o == CHOOSE p \in Pickup : PickupBill[p] = b
        <3>1. o \in Pickup /\ PickupBill[o] = b
            BY <2>2
        <3>2. bill[b] = [NoBill EXCEPT !.status = "issued", !.items = Lines[o], !.spent = spent[o]]
            BY <1>1, <2>2
        <3> HIDE DEF o
        <3>3. bill[b] = CheckoutRow(o, spent[o])
            BY <3>2 DEF NoBill, CheckoutRow
        <3> QED  BY <3>1, <3>3
    <2> QED  BY <2>1, <2>2
<1>3. \A o \in Pickup : Lines[o] \in SUBSET Line /\ spent[o] \in Nat
    BY DEF Line, Order
<1>4. \A b \in Bill : bill[b] \in BillRow
    <2> SUFFICES ASSUME NEW b \in Bill
                 PROVE  bill[b] \in BillRow
        OBVIOUS
    <2>1. NoBill \in BillRow
        BY DEF BillRow, NoBill, BillStatus
    <2>2. ASSUME NEW o \in Pickup
          PROVE  CheckoutRow(o, spent[o]) \in BillRow
        BY <1>3 DEF CheckoutRow, BillRow, BillStatus, OpenStatus
    <2> QED  BY <1>2, <2>1, <2>2
<1>5. TypeOK
    <2>1. bill = [b \in Bill |-> bill[b]]
        <3> DEFINE start(b) ==
                IF \E o \in Pickup : PickupBill[o] = b
                THEN LET o == CHOOSE p \in Pickup : PickupBill[p] = b IN
                     [NoBill EXCEPT !.status = "issued", !.items = Lines[o], !.spent = spent[o]]
                ELSE NoBill
        <3>1. bill = [b \in Bill |-> start(b)]
            BY <1>1, Zenon
        <3> HIDE DEF start
        <3> QED  BY <3>1
    <2>2. status \in [Order -> Status] /\ settled = {}
        <3>1. status = [o \in Order |-> "new"] /\ settled = {}
            BY Zenon DEF Init
        <3> QED  BY <3>1
    <2>3. balance \in Int
        <3>1. balance \in Nat
            BY <1>1, Zenon
        <3> QED  BY <3>1
    <2>4. bill \in [Bill -> BillRow]
        BY <1>4, <2>1
    <2> QED  BY <2>2, <2>3, <2>4 DEF TypeOK
<1>6. MoneyInv
    <2> SUFFICES ASSUME NEW b \in Bill
                 PROVE  Sound(bill[b])
        BY DEF MoneyInv
    <2>1. CASE bill[b] = NoBill
        BY <2>1, FS_EmptySet DEF Sound, NoBill
    <2>2. ASSUME NEW o \in Pickup, PickupBill[o] = b,
                 bill[b] = CheckoutRow(o, spent[o])
          PROVE  Sound(bill[b])
        <3>1. spent[o] < Cardinality(Lines[o]) /\ Cardinality(Lines[o]) \in Nat /\ spent[o] \in Nat
            BY <1>1, <1>3, LineCount
        <3> QED  BY <2>2, <3>1 DEF Sound, CheckoutRow
    <2> QED  BY <1>2, <2>1, <2>2
<1>7. LinesInv
    <2> SUFFICES ASSUME NEW b \in Bill, NEW o \in Pickup, bill[b].items \cap Lines[o] # {}
                 PROVE  b = PickupBill[o]
        BY DEF LinesInv
    <2>1. bill[b] # NoBill
        BY DEF NoBill
    <2>2. PICK p \in Pickup :
            /\ PickupBill[p] = b
            /\ bill[b] = CheckoutRow(p, spent[p])
        BY <1>2, <2>1
    <2>3. bill[b].items = Lines[p]
        BY <2>2 DEF CheckoutRow
    <2>4. p = o
        BY <2>3 DEF Order
    <2> QED  BY <2>2, <2>4
<1>8. HandInv
    <2>1. hand = [e \in Employee |-> Idle]
        BY DEF Init
    <2> QED  BY <2>1, IdleHand DEF HandInv
<1>9. SaidInv
    BY DEF Init, SaidInv, Said
<1> QED  BY <1>5, <1>6, <1>7, <1>8, <1>9 DEF IInv

\* The steps that write nothing but what is shown and held in the hand.
LEMMA DatabaseKept ==
    ASSUME IInv, UNCHANGED <<db, told>>, HandInv'
    PROVE  IInv'
<1>1. TypeOK' /\ LinesInv' /\ SaidInv'
    BY DEF IInv, db, TypeOK, LinesInv, SaidInv, Said
<1>2. MoneyInv'
    BY DEF IInv, db, MoneyInv, Sound
<1> QED  BY <1>1, <1>2 DEF IInv

LEMMA HandKept ==
    ASSUME IInv, hand' = hand
    PROVE  HandInv'
BY DEF IInv, HandInv, HandRow

LEMMA LooksIInv ==
    ASSUME IInv, NEW e \in Employee, Looks(e)
    PROVE  IInv'
<1>1. UNCHANGED <<db, hand, told>>
    BY DEF Looks, ListOrders, ListBills, ListTables, OpenTable, OpenOrder, AskReject, AskCancel,
           OpenBill, OpenEdit, AskVoid, AskRemove
<1> QED  BY <1>1, HandKept, DatabaseKept

LEMMA OrdersIInv ==
    ASSUME IInv, NEW e \in Employee, NEW o \in Order,
           (\E to \in Status : Move(e, o, to) \/ TapCancel(e, o, to)) \/ TapCancel(e, o, "cancel")
    PROVE  IInv'
<1>1. ASSUME NEW to \in Status, Move(e, o, to)
      PROVE  IInv'
    <2>1. /\ \/ status' = status
             \/ /\ status' = [status EXCEPT ![o] = to] /\ to \in Allowed[status[o]]
                /\ to # "canceled"
          /\ UNCHANGED <<settled, bill, balance, hand, told>>
        BY <1>1 DEF Move, CanMove
    <2>2. TypeOK' /\ LinesInv'
        BY <2>1 DEF IInv, TypeOK, LinesInv
    <2>3. MoneyInv'
        BY <2>1 DEF IInv, MoneyInv, Sound
    <2>4. HandInv'
        BY <2>1, HandKept
    <2>5. \A p \in Order : status'[p] = status[p] \/ (p = o /\ status'[p] = to)
        BY <2>1 DEF IInv, TypeOK
    <2>6. \A p \in Order : status[p] \in Status
        BY DEF IInv, TypeOK
    <2>7. status' # status => to \notin {"new", "canceled"} /\ status[o] # "canceled"
        BY <2>1, <2>6
    <2>8. \A p \in Order : /\ status[p] = "canceled" => status'[p] = "canceled"
                           /\ status[p] \notin {"new", "canceled"} =>
                                status'[p] \notin {"new", "canceled"}
        BY <2>5, <2>7
    <2>9. SaidInv'
        BY <2>1, <2>8, SaidStays DEF IInv, Order
    <2> QED  BY <2>2, <2>3, <2>4, <2>9 DEF IInv
<1>2. ASSUME NEW act, TapCancel(e, o, act)
      PROVE  IInv'
    <2> DEFINE b == IF ActiveLines(o) = {} THEN None
                    ELSE CHOOSE c \in Bill : bill[c].items \cap Lines[o] # {}
               row == [Idle EXCEPT !.act = act, !.on = o, !.lines = ActiveLines(o), !.bill = b]
    <2>1. UNCHANGED <<db, told>> /\ hand' = [hand EXCEPT ![e] = row]
        BY <1>2 DEF TapCancel
    <2>2. ActiveLines(o) # {} => b \in Bill
        BY DEF ActiveLines, BillOfLine
    <2>3. b \in Bill \cup {None} /\ (b = None => ActiveLines(o) = {})
        BY <2>2 DEF Order
    <2> HIDE DEF b
    <2>4. HandRow(row)
        BY <2>3 DEF HandRow, Idle
    <2> HIDE DEF row
    <2>5. HandInv'
        BY <2>1, <2>4, HandStep DEF IInv
    <2> QED  BY <2>1, <2>5, DatabaseKept
<1> QED  BY <1>1, <1>2

LEMMA CancelIInv ==
    ASSUME IInv, NEW e \in Employee, NEW o \in Order, Cancel(e, o)
    PROVE  IInv'
<1> DEFINE b == hand[e].bill
           ls == hand[e].lines
           ok == CanCancel(e, o, b, ls)
<1>1. /\ hand' = [hand EXCEPT ![e] = Idle]
      /\ status' = IF ok THEN [status EXCEPT ![o] = "canceled"] ELSE status
      /\ bill' = IF ok /\ b # None THEN [bill EXCEPT ![b].items = @ \ ls] ELSE bill
      /\ UNCHANGED <<settled, balance, told>>
    BY DEF Cancel
<1>2. HandInv'
    BY <1>1, HandStep, IdleHand DEF IInv
<1>3. CASE ~ok
    <2>1. UNCHANGED <<db, told>>
        BY <1>1, <1>3 DEF db
    <2> QED  BY <1>2, <2>1, DatabaseKept
<1>4. CASE ok
    <2>1. HandRow(hand[e])
        BY DEF IInv, HandInv
    <2>2. b \in Bill \cup {None} /\ (b = None => ls = {})
        BY <2>1 DEF HandRow
    <2>3. ActiveLines(o) \subseteq ls /\ (b # None => MayRemove(e, b, ls))
        BY <1>4 DEF CanCancel
    <2> HIDE DEF b, ls, ok
    <2>4. /\ status' \in [Order -> Status] /\ status'[o] = "canceled"
          /\ \A p \in Order : p # o => status'[p] = status[p]
        BY <1>1, <1>4 DEF IInv, TypeOK
    <2>5. \A c \in Bill : bill[c].status \in {"paid", "canceled"} => bill'[c] = bill[c]
        <3>1. b # None => bill[b].status \in OpenStatus
            BY <2>3 DEF MayRemove, MayEdit, IsOpen
        <3> QED  BY <1>1, <3>1 DEF OpenStatus, IInv, TypeOK
    <2>6. bill' \in [Bill -> BillRow] /\ MoneyInv' /\ LinesInv'
        <3>1. CASE b = None
            <4>1. bill' = bill
                BY <1>1, <3>1
            <4> QED  BY <4>1 DEF IInv, TypeOK, MoneyInv, Sound, LinesInv
        <3>2. CASE b # None
            <4> DEFINE row == [bill[b] EXCEPT !.items = @ \ ls]
            <4>1. b \in Bill /\ MayRemove(e, b, ls)
                BY <2>2, <2>3, <3>2
            <4>2. /\ bill[b].items \in SUBSET Line /\ bill[b].paid \in Nat /\ bill[b].spent = 0
                  /\ bill[b].status \in OpenStatus /\ bill[b] \in BillRow
                BY <4>1, BillTyped DEF IInv, MayRemove, MayEdit, IsOpen
            <4>3. bill[b].paid <= Cardinality(bill[b].items \ ls)
                BY <4>1, <4>2, LineCount DEF MayRemove
            <4>4. row \in BillRow /\ row.items \subseteq bill[b].items
                BY <4>2 DEF BillRow
            <4>5. Sound(row)
                <5>1. /\ row.status = bill[b].status /\ row.items = bill[b].items \ ls
                      /\ row.paid = bill[b].paid /\ row.spent = 0
                    BY <4>2 DEF BillRow
                <5> HIDE DEF row
                <5> QED  BY <4>2, <4>3, <5>1, LineCount DEF Sound, OpenStatus
            <4>6. Rewrites(b, row)
                BY <1>1, <1>4, <3>2 DEF Rewrites
            <4> HIDE DEF row
            <4> QED  BY <4>1, <4>4, <4>5, <4>6, BillStep, Rewritten DEF IInv
        <3> QED  BY <3>1, <3>2
    <2>7. ASSUME o \in Pickup, bill[PickupBill[o]].status = "paid",
                 bill[PickupBill[o]].items \cap Lines[o] # {}
          PROVE  FALSE
        <3>1. PICK l \in Lines[o] : l \in bill[PickupBill[o]].items
            BY <2>7
        <3>2. l \in ls
            BY <2>3, <2>7, <3>1 DEF ActiveLines, BillOfLine
        <3>3. b \in Bill /\ MayRemove(e, b, ls)
            BY <2>2, <2>3, <3>2
        <3>4. l \in bill[b].items /\ IsOpen(b)
            BY <3>2, <3>3 DEF MayRemove, MayEdit
        <3>5. b = PickupBill[o]
            BY <2>7, <3>3, <3>4 DEF IInv, LinesInv
        <3> QED  BY <2>7, <3>4, <3>5 DEF IsOpen, OpenStatus
    <2>8. SaidInv'
        <3>1. Pickup \subseteq Order
            BY DEF Order
        <3> QED  BY <1>1, <2>4, <2>5, <2>7, <3>1, SaidStays DEF IInv
    <2> QED  BY <1>1, <1>2, <2>4, <2>6, <2>8 DEF IInv, TypeOK
<1> QED  BY <1>3, <1>4

\* Orders settled with their bill: none of them is canceled by it, and none of a canceled bill.
LEMMA Settled ==
    ASSUME IInv, NEW b \in Bill, Settle(b)
    PROVE  /\ status' \in [Order -> Status]
           /\ settled \subseteq settled' /\ settled' \subseteq Order
           /\ \A o \in Order : \/ status'[o] = status[o]
                               \/ /\ status[o] \in {"ready", "delivering"}
                                  /\ status'[o] = "completed"
           /\ \A o \in Pickup : o \notin settled /\ bill[PickupBill[o]].status = "canceled" =>
                                    o \notin settled'
<1>1. settled \subseteq settled' /\ settled' \subseteq Order
    BY InBill DEF Settle, IInv, TypeOK
<1>2. status' \in [Order -> Status]
    BY DEF Settle, IInv, TypeOK
<1>3. \A o \in Order : \/ status'[o] = status[o]
                       \/ status[o] \in {"ready", "delivering"} /\ status'[o] = "completed"
    BY DEF Settle
<1>4. ASSUME NEW o \in Pickup, o \notin settled, bill[PickupBill[o]].status = "canceled",
             o \in OrdersIn(b)
      PROVE  FALSE
    <2>1. b = PickupBill[o] /\ bill[b].items \cap Lines[o] # {}
        BY <1>4, PickupInBill DEF IInv
    <2>2. bill[b].items = {}
        BY <1>4, <2>1 DEF IInv, MoneyInv, Sound
    <2> QED  BY <2>1, <2>2
<1> QED  BY <1>1, <1>2, <1>3, <1>4 DEF Settle

\* A bill in force is written, and the orders in it may be settled with it.
LEMMA BillWritten ==
    ASSUME IInv, NEW b \in Bill, NEW row \in BillRow, Rewrites(b, row), Sound(row),
           row.items \subseteq bill[b].items, bill[b].status \notin {"paid", "canceled"},
           Settle(b) \/ UNCHANGED orderVars, told' = told, HandInv', balance' \in Int
    PROVE  IInv'
<1>1. bill' \in [Bill -> BillRow] /\ \A c \in Bill : c # b => bill'[c] = bill[c]
    BY Rewritten DEF IInv
<1>2. MoneyInv' /\ LinesInv'
    BY BillStep DEF IInv
<1>3. /\ status' \in [Order -> Status]
      /\ settled \subseteq settled' /\ settled' \subseteq Order
      /\ \A o \in Order : \/ status'[o] = status[o]
                          \/ status[o] \in {"ready", "delivering"} /\ status'[o] = "completed"
      /\ \A o \in Pickup : o \notin settled /\ bill[PickupBill[o]].status = "canceled" =>
                               o \notin settled'
    <2>1. CASE Settle(b)
        BY <2>1, Settled
    <2>2. CASE UNCHANGED orderVars
        <3>1. status' = status /\ settled' = settled
            BY <2>2 DEF orderVars
        <3>2. status \in [Order -> Status] /\ settled \subseteq Order
            BY DEF IInv, TypeOK
        <3> QED  BY <3>1, <3>2
    <2> QED  BY <2>1, <2>2
<1>4. TypeOK'
    BY <1>1, <1>3 DEF TypeOK
<1>5. SaidInv'
    <2>1. \A c \in Bill : bill[c].status \in {"paid", "canceled"} => bill'[c] = bill[c]
        BY <1>1
    <2>2. \A o \in Pickup : o \in Order
        BY DEF Order
    <2> QED  BY <1>3, <2>1, <2>2, SaidStays DEF IInv
<1> QED  BY <1>2, <1>4, <1>5 DEF IInv

LEMMA IssueIInv ==
    ASSUME IInv, NEW e \in Employee, NEW b \in Bill, Issue(e, b)
    PROVE  IInv'
<1> DEFINE row == [bill[b] EXCEPT !.status = "issued"]
<1>1. Rewrites(b, row) /\ bill[b].status = "draft" /\ UNCHANGED <<orderVars, balance, hand, told>>
    BY DEF Issue, Rewrites
<1>2. row \in BillRow /\ row.items = bill[b].items
    BY BillTyped DEF IInv, BillRow, BillStatus, OpenStatus
<1>3. Sound(row)
    <2>1. /\ row.status = "issued" /\ row.items = bill[b].items
          /\ row.paid = bill[b].paid /\ row.spent = bill[b].spent
        BY BillTyped DEF IInv, BillRow
    <2>2. bill[b].paid + bill[b].spent <= Cardinality(bill[b].items)
        BY <1>1 DEF IInv, MoneyInv, Sound
    <2> HIDE DEF row
    <2> QED  BY <2>1, <2>2 DEF Sound
<1> HIDE DEF row
<1>4. HandInv' /\ balance' \in Int
    BY <1>1, HandKept DEF IInv, TypeOK
<1> QED  BY <1>1, <1>2, <1>3, <1>4, BillWritten

\* The bill is paid to amount more than it was.
LEMMA PayIInv ==
    ASSUME IInv, NEW e \in Employee, NEW b \in Bill, TapPay(e, b) \/ Pay(e, b)
    PROVE  IInv'
<1>1. CASE TapPay(e, b)
    <2> DEFINE row == [Idle EXCEPT !.act = "pay", !.on = b, !.seen = Remaining(b)]
    <2>1. UNCHANGED <<db, told>> /\ hand' = [hand EXCEPT ![e] = row]
        BY <1>1 DEF TapPay
    <2>2. Remaining(b) \in Int
        BY BillTyped DEF IInv
    <2>3. HandRow(row)
        BY <2>2 DEF HandRow, Idle
    <2> HIDE DEF row
    <2>4. HandInv'
        BY <2>1, <2>3, HandStep DEF IInv
    <2> QED  BY <2>1, <2>4, DatabaseKept
<1>2. CASE Pay(e, b)
    <2> DEFINE amount == hand[e].seen
               final == IF amount = Remaining(b) THEN "paid" ELSE "partially_paid"
               row == [bill[b] EXCEPT !.paid = @ + amount, !.status = final]
    <2>1. hand' = [hand EXCEPT ![e] = Idle] /\ UNCHANGED <<balance, told>>
        BY <1>2 DEF Pay
    <2>2. HandInv' /\ balance' \in Int
        BY <2>1, HandStep, IdleHand DEF IInv, TypeOK
    <2>3. CASE ~MayRecord(b, amount)
        <3>1. UNCHANGED <<db, told>>
            BY <1>2, <2>1, <2>3 DEF Pay, db, orderVars
        <3> QED  BY <2>2, <3>1, DatabaseKept
    <2>4. CASE MayRecord(b, amount)
        <3>1. Rewrites(b, row) /\ (Settle(b) \/ UNCHANGED orderVars)
            <4>1. bill' = [bill EXCEPT ![b].paid = @ + amount, ![b].status = final]
                BY <1>2, <2>4 DEF Pay
            <4>2. Settle(b) \/ UNCHANGED orderVars
                BY <1>2, <2>4, Zenon DEF Pay
            <4> HIDE DEF final, amount
            <4>3. [bill EXCEPT ![b].paid = @ + amount, ![b].status = final] = [bill EXCEPT ![b] = row]
                BY TwoFields, Zenon DEF IInv
            <4> HIDE DEF row
            <4> QED  BY <4>1, <4>2, <4>3, Zenon DEF Rewrites
        <3>2. /\ bill[b].status \in OpenStatus /\ 0 < amount /\ amount <= Remaining(b)
            BY <2>4 DEF MayRecord, IsOpen
        <3>3. amount \in Int
            BY DEF IInv, HandInv, HandRow
        <3> HIDE DEF amount
        <3>4. /\ bill[b].items \in SUBSET Line /\ bill[b].paid \in Nat /\ bill[b].spent \in Nat
              /\ Cardinality(bill[b].items) \in Nat
            BY BillTyped DEF IInv
        <3>5. final \in {"paid", "partially_paid"}
            OBVIOUS
        <3>6. final = "paid" => amount = Remaining(b)
            OBVIOUS
        <3> HIDE DEF final
        <3>7. /\ row.status = final /\ row.items = bill[b].items
              /\ row.paid = bill[b].paid + amount /\ row.spent = bill[b].spent
            BY BillTyped DEF IInv, BillRow
        <3>8. row \in BillRow
            <4>1. bill[b] \in BillRow
                BY BillTyped DEF IInv
            <4>2. bill[b].paid + amount \in Nat /\ final \in BillStatus
                BY <3>2, <3>3, <3>4, <3>5 DEF BillStatus, OpenStatus
            <4> QED  BY <4>1, <4>2 DEF BillRow
        <3> HIDE DEF row
        <3>9. Sound(row)
            BY <3>2, <3>3, <3>4, <3>5, <3>6, <3>7 DEF Sound, Remaining, Total
        <3>10. bill[b].status \notin {"paid", "canceled"}
            BY <3>2 DEF OpenStatus
        <3> QED  BY <2>1, <2>2, <3>1, <3>7, <3>8, <3>9, <3>10, BillWritten
    <2> QED  BY <2>3, <2>4
<1> QED  BY <1>1, <1>2

LEMMA BonusesIInv ==
    ASSUME IInv, NEW e \in Employee, NEW b \in Bill, PayWithBonuses(e, b)
    PROVE  IInv'
<1> DEFINE amount == Redeemable(b)
           final == IF amount = Total(b) THEN "paid" ELSE "issued"
           row == [bill[b] EXCEPT !.spent = amount, !.status = final]
<1>1. /\ Rewrites(b, row) /\ MaySpendBonuses(b)
      /\ balance' = balance - amount /\ UNCHANGED <<hand, told>>
      /\ Settle(b) \/ UNCHANGED orderVars
    <2> HIDE DEF row, amount
    <2>1. bill' = [bill EXCEPT ![b].spent = Redeemable(b),
              ![b].status = IF Redeemable(b) = Total(b) THEN "paid" ELSE "issued"]
          /\ MaySpendBonuses(b) /\ balance' = balance - Redeemable(b) /\ UNCHANGED <<hand, told>>
          /\ (Settle(b) \/ UNCHANGED orderVars)
        BY DEF PayWithBonuses
    <2>2. Rewrites(b, row)
        BY <2>1 DEF Rewrites, row, amount
    <2> QED  BY <2>1, <2>2 DEF amount
<1>2. /\ bill[b].status \in OpenStatus /\ bill[b].spent = 0 /\ bill[b].paid = 0
      /\ bill[b].items \in SUBSET Line /\ Cardinality(bill[b].items) \in Nat
      /\ Total(b) = Cardinality(bill[b].items)
    BY <1>1, BillTyped DEF MaySpendBonuses, IsOpen, IInv, Total
<1>3. amount \in Nat /\ amount <= Total(b) /\ balance \in Int
    <2>1. amount > 0
        BY <1>1 DEF MaySpendBonuses
    <2>2. balance \in Int
        BY DEF IInv, TypeOK
    <2> QED  BY <1>2, <2>1, <2>2 DEF Redeemable
<1> HIDE DEF amount
<1>4. final \in {"paid", "issued"} /\ (final = "paid" => amount = Total(b))
    OBVIOUS
<1> HIDE DEF final
<1>5. /\ row.status = final /\ row.items = bill[b].items
      /\ row.paid = 0 /\ row.spent = amount
    BY <1>2, BillTyped DEF IInv, BillRow
<1>6. row \in BillRow /\ row.items \subseteq bill[b].items
    <2>1. bill[b] \in BillRow
        BY BillTyped DEF IInv
    <2>2. final \in BillStatus
        BY <1>4 DEF BillStatus, OpenStatus
    <2> QED  BY <1>3, <1>5, <2>1, <2>2 DEF BillRow
<1> HIDE DEF row
<1>7. Sound(row)
    BY <1>2, <1>3, <1>4, <1>5 DEF Sound
<1>8. HandInv' /\ balance' \in Int /\ bill[b].status \notin {"paid", "canceled"}
    BY <1>1, <1>2, <1>3, HandKept DEF OpenStatus
<1> QED  BY <1>1, <1>6, <1>7, <1>8, BillWritten

LEMMA RemoveIInv ==
    ASSUME IInv, NEW e \in Employee, (\E l \in Line : TapRemove(e, l)) \/ Remove(e)
    PROVE  IInv'
<1>1. ASSUME NEW l \in Line, TapRemove(e, l)
      PROVE  IInv'
    <2>1. PICK b \in Bill :
            hand' = [hand EXCEPT ![e] = [Idle EXCEPT !.act = "remove", !.bill = b, !.lines = {l}]]
        BY <1>1 DEF TapRemove, BillOfLine
    <2>2. HandRow([Idle EXCEPT !.act = "remove", !.bill = b, !.lines = {l}])
        BY DEF HandRow, Idle, Order
    <2>3. HandInv'
        BY <2>1, <2>2, HandStep DEF IInv
    <2> QED  BY <1>1, <2>3, DatabaseKept DEF TapRemove
<1>2. ASSUME Remove(e)
      PROVE  IInv'
    <2> DEFINE b == hand[e].bill
               ls == hand[e].lines
               row == [bill[b] EXCEPT !.items = @ \ ls]
    <2>1. /\ hand' = [hand EXCEPT ![e] = Idle] /\ UNCHANGED <<orderVars, balance, told>>
          /\ bill' = IF MayRemove(e, b, ls) THEN [bill EXCEPT ![b].items = @ \ ls] ELSE bill
        BY <1>2 DEF Remove
    <2>2. HandInv' /\ balance' \in Int
        BY <2>1, HandStep, IdleHand DEF IInv, TypeOK
    <2>3. b \in Bill \cup {None}
        BY DEF IInv, HandInv, HandRow
    <2> HIDE DEF b, ls
    <2>4. CASE b \notin Bill \/ ~MayRemove(e, b, ls)
        <3>1. bill' = bill
            BY <2>1, <2>4 DEF IInv, TypeOK
        <3> QED  BY <2>1, <2>2, <3>1, DatabaseKept DEF db, orderVars
    <2>5. CASE b \in Bill /\ MayRemove(e, b, ls)
        <3>1. /\ bill[b].items \in SUBSET Line /\ bill[b].paid \in Nat /\ bill[b].spent = 0
              /\ bill[b].status \in OpenStatus /\ bill[b] \in BillRow
            BY <2>5, BillTyped DEF IInv, MayRemove, MayEdit, IsOpen
        <3>2. bill[b].paid <= Cardinality(bill[b].items \ ls)
            BY <2>5, <3>1, LineCount DEF MayRemove
        <3>3. row \in BillRow /\ row.items \subseteq bill[b].items
            BY <3>1 DEF BillRow
        <3>4. Sound(row)
            <4>1. /\ row.status = bill[b].status /\ row.items = bill[b].items \ ls
                  /\ row.paid = bill[b].paid /\ row.spent = 0
                BY <3>1 DEF BillRow
            <4> HIDE DEF row
            <4> QED  BY <3>1, <3>2, <4>1, LineCount DEF Sound, OpenStatus
        <3>5. Rewrites(b, row) /\ bill[b].status \notin {"paid", "canceled"}
            BY <2>1, <2>5, <3>1 DEF Rewrites, OpenStatus
        <3> HIDE DEF row
        <3> QED  BY <2>1, <2>2, <2>5, <3>3, <3>4, <3>5, BillWritten
    <2> QED  BY <2>4, <2>5
<1> QED  BY <1>1, <1>2

LEMMA VoidIInv ==
    ASSUME IInv, NEW e \in Employee, NEW b \in Bill, Void(e, b)
    PROVE  IInv'
<1>1. /\ Rewrites(b, Voided(b)) /\ UNCHANGED <<orderVars, hand, told>>
      /\ balance' = balance + bill[b].spent
      /\ bill[b].status \in OpenStatus /\ bill[b].paid = 0
    BY DEF Void, Rewrites, MayVoid, IsOpen
<1>2. Voided(b) \in BillRow /\ Sound(Voided(b)) /\ Voided(b).items \subseteq bill[b].items
    BY <1>1, VoidedRow DEF IInv
<1>3. bill[b].spent \in Nat /\ balance \in Int
    BY BillTyped DEF IInv, TypeOK
<1>4. HandInv' /\ balance' \in Int /\ bill[b].status \notin {"paid", "canceled"}
    BY <1>1, <1>3, HandKept DEF OpenStatus
<1> QED  BY <1>1, <1>2, <1>4, BillWritten

\* The bill made at the table is of table orders only.
LEMMA MakeBillIInv ==
    ASSUME IInv, NEW e \in Employee, MakeBill(e)
    PROVE  IInv'
<1> DEFINE lines == UNION {Lines[o] : o \in Unbilled \cap AtTable}
<1>1. PICK b \in Bill :
        /\ bill[b].status = "absent"
        /\ bill' = [bill EXCEPT ![b].status = "draft", ![b].items = lines]
    BY DEF MakeBill
<1>2. UNCHANGED <<orderVars, balance, hand, told>>
    BY DEF MakeBill
<1> DEFINE row == [bill[b] EXCEPT !.status = "draft", !.items = lines]
<1>3. lines \in SUBSET Line /\ \A o \in Pickup : lines \cap Lines[o] = {}
    BY DEF Line, Order
<1> HIDE DEF lines
<1>4. Rewrites(b, row)
    BY <1>1 DEF Rewrites
<1>5. bill[b].paid = 0 /\ bill[b].spent = 0 /\ bill[b] \in BillRow
    BY <1>1, BillTyped DEF IInv, MoneyInv, Sound
<1>6. /\ row \in BillRow /\ row.status = "draft" /\ row.items = lines
      /\ row.paid = 0 /\ row.spent = 0
    BY <1>3, <1>5 DEF BillRow, BillStatus, OpenStatus
<1> HIDE DEF row
<1>7. bill' \in [Bill -> BillRow] /\ bill'[b] = row /\ \A c \in Bill : c # b => bill'[c] = bill[c]
    BY <1>4, <1>6, Rewritten DEF IInv
<1>8. TypeOK'
    BY <1>2, <1>7 DEF IInv, TypeOK, orderVars
<1>9. MoneyInv'
    <2> SUFFICES ASSUME NEW c \in Bill
                 PROVE  Sound(bill'[c])
        BY DEF MoneyInv, Sound
    <2>1. Sound(row)
        BY <1>3, <1>6, LineCount DEF Sound
    <2>2. Sound(bill[c])
        BY DEF IInv, MoneyInv
    <2> QED  BY <1>7, <2>1, <2>2
<1>10. LinesInv'
    <2> SUFFICES ASSUME NEW c \in Bill, NEW o \in Pickup, bill'[c].items \cap Lines[o] # {}
                 PROVE  c = PickupBill[o]
        BY DEF LinesInv
    <2>1. c # b
        BY <1>3, <1>6, <1>7
    <2> QED  BY <1>7, <2>1 DEF IInv, LinesInv
<1>11. HandInv'
    BY <1>2, HandKept
<1>12. SaidInv'
    <2>1. /\ \A c \in Bill : bill[c].status \in {"paid", "canceled"} => bill'[c] = bill[c]
          /\ status' = status /\ settled' = settled /\ told' = told
        BY <1>1, <1>2, <1>7 DEF orderVars
    <2> QED  BY <2>1, SaidStays DEF IInv
<1> QED  BY <1>8, <1>9, <1>10, <1>11, <1>12 DEF IInv

\* What somebody is told now of one transfer leaves what was said of the others.
LEMMA SaidOfOthers ==
    ASSUME IInv, NEW o \in Pickup, NEW what, told' = told \cup {<<o, what>>},
           NEW row \in BillRow, Rewrites(PickupBill[o], row),
           NEW to, status' = [status EXCEPT ![o] = to],
           settled' \in {settled, settled \cup {o}}, Said(o)'
    PROVE  SaidInv'
<1> SUFFICES ASSUME NEW p \in Pickup
             PROVE  Said(p)'
    BY DEF SaidInv
<1>1. CASE p = o
    BY <1>1
<1>2. CASE p # o
    <2>1. PickupBill[p] # PickupBill[o] /\ PickupBill[p] \in Bill /\ PickupBill[o] \in Bill
        BY <1>2
    <2>2. bill'[PickupBill[p]] = bill[PickupBill[p]]
        BY <2>1, Rewritten DEF IInv
    <2>3. status'[p] = status[p] /\ (p \in settled' <=> p \in settled)
        BY <1>2 DEF IInv, TypeOK, Order
    <2>4. \A w : <<p, w>> \in told' <=> <<p, w>> \in told
        BY <1>2
    <2>5. Said(p)
        BY DEF IInv, SaidInv
    <2> QED  BY <2>2, <2>3, <2>4, <2>5 DEF Said
<1> QED  BY <1>1, <1>2

LEMMA ConfirmIInv ==
    ASSUME IInv, NEW e \in Employee, NEW o \in Order, Confirm(e, o)
    PROVE  IInv'
<1>1. PICK b \in TransferBill(o) :
        /\ AwaitsCheck(o) /\ IsOpen(b) /\ Remaining(b) > 0
        /\ bill' = [bill EXCEPT ![b].paid = @ + Remaining(b), ![b].status = "paid"]
    BY DEF Confirm
<1>2. /\ settled' = settled \cup {o} /\ status' = [status EXCEPT ![o] = "accepted"]
      /\ UNCHANGED <<balance, hand>> /\ told' = told \cup {<<o, "confirmed">>}
    BY DEF Confirm, Answer
<1>3. /\ o \in Pickup /\ o \notin settled /\ status[o] = "new"
      /\ b \in Bill /\ bill[b].status \in OpenStatus /\ o \in OrdersIn(b)
    BY <1>1 DEF AwaitsCheck, TransferBill, IsOpen
<1>4. b = PickupBill[o] /\ bill[b].items \cap Lines[o] # {}
    BY <1>3, PickupInBill DEF IInv
<1> DEFINE row == [bill[b] EXCEPT !.paid = @ + Remaining(b), !.status = "paid"]
<1>5. /\ bill[b] \in BillRow /\ bill[b].items \in SUBSET Line /\ bill[b].paid \in Nat
      /\ bill[b].spent \in Nat /\ Cardinality(bill[b].items) \in Nat
      /\ Remaining(b) = Cardinality(bill[b].items) - bill[b].spent - bill[b].paid
    BY <1>3, BillTyped DEF IInv, Remaining, Total
<1>6. bill[b].paid + Remaining(b) \in Nat
      /\ bill[b].paid + Remaining(b) + bill[b].spent = Cardinality(bill[b].items)
    BY <1>1, <1>5
<1>7. Rewrites(b, row)
    BY <1>1 DEF Rewrites
<1>8. /\ row \in BillRow /\ row.status = "paid" /\ row.items = bill[b].items
      /\ row.paid = bill[b].paid + Remaining(b) /\ row.spent = bill[b].spent
    <2>1. "paid" \in BillStatus
        BY DEF BillStatus
    <2> QED  BY <1>5, <1>6, <2>1 DEF BillRow
<1> HIDE DEF row
<1>9. Sound(row)
    <2>1. row.paid + row.spent = Cardinality(row.items) /\ row.paid \in Nat
        BY <1>6, <1>8
    <2> QED  BY <1>5, <1>8, <2>1 DEF Sound
<1>10. MoneyInv' /\ LinesInv'
    BY <1>3, <1>7, <1>8, <1>9, BillStep DEF IInv
<1>11. bill' \in [Bill -> BillRow] /\ bill'[b] = row
    BY <1>3, <1>7, <1>8, Rewritten DEF IInv
<1>12. TypeOK'
    BY <1>2, <1>11 DEF IInv, TypeOK
<1>13. HandInv'
    BY <1>2, HandKept
<1>14. Said(o)'
    <2>1. status'[o] = "accepted" /\ o \in settled'
        BY <1>2 DEF IInv, TypeOK
    <2>2. <<o, "rejected">> \notin told'
        <3>1. <<o, "rejected">> \notin told
            BY <1>3 DEF IInv, SaidInv, Said
        <3> QED  BY <1>2, <3>1
    <2> QED  BY <1>4, <1>8, <1>11, <2>1, <2>2 DEF Said
<1>15. SaidInv'
    BY <1>2, <1>3, <1>4, <1>7, <1>8, <1>14, SaidOfOthers
<1> QED  BY <1>10, <1>12, <1>13, <1>15 DEF IInv

LEMMA RejectIInv ==
    ASSUME IInv, NEW e \in Employee, NEW o \in Order, Reject(e, o)
    PROVE  IInv'
<1>1. PICK b \in TransferBill(o) :
        /\ MayReject(o, b) /\ bill' = [bill EXCEPT ![b] = Voided(b)]
        /\ balance' = balance + bill[b].spent
    BY DEF Reject
<1>2. /\ status' = [status EXCEPT ![o] = "canceled"] /\ UNCHANGED <<settled, hand>>
      /\ told' = told \cup {<<o, "rejected">>}
    BY DEF Reject, Answer
<1>3. /\ o \in Pickup /\ o \notin settled /\ b \in Bill /\ bill[b].paid = 0
      /\ o \in OrdersIn(b)
    BY <1>1 DEF MayReject, AwaitsCheck, TransferBill
<1>4. b = PickupBill[o]
    BY <1>3, PickupInBill DEF IInv
<1>5. /\ Voided(b) \in BillRow /\ Sound(Voided(b)) /\ Voided(b).items \subseteq bill[b].items
      /\ Voided(b).status = "canceled"
    BY <1>3, VoidedRow DEF IInv
<1>6. Rewrites(b, Voided(b))
    BY <1>1 DEF Rewrites
<1>7. MoneyInv' /\ LinesInv'
    BY <1>3, <1>5, <1>6, BillStep DEF IInv
<1>8. bill' \in [Bill -> BillRow] /\ bill'[b] = Voided(b)
    BY <1>3, <1>5, <1>6, Rewritten DEF IInv
<1>9. TypeOK'
    <2>1. balance' \in Int
        BY <1>1, <1>3, BillTyped DEF IInv, TypeOK
    <2> QED  BY <1>2, <1>8, <2>1 DEF IInv, TypeOK
<1>10. HandInv'
    BY <1>2, HandKept
<1>11. Said(o)'
    <2>1. status'[o] = "canceled" /\ o \notin settled'
        BY <1>2, <1>3 DEF IInv, TypeOK
    <2>2. <<o, "confirmed">> \notin told'
        <3>1. <<o, "confirmed">> \notin told
            BY <1>3 DEF IInv, SaidInv, Said
        <3> QED  BY <1>2, <3>1
    <2> QED  BY <1>4, <1>5, <1>8, <2>1, <2>2 DEF Said
<1>12. SaidInv'
    BY <1>2, <1>3, <1>4, <1>5, <1>6, <1>11, SaidOfOthers
<1> QED  BY <1>7, <1>9, <1>10, <1>12 DEF IInv

LEMMA NextIInv == IInv /\ [Next]_vars => IInv'
<1> SUFFICES ASSUME IInv, [Next]_vars
             PROVE  IInv'
    OBVIOUS
<1>1. ASSUME NEW e \in Employee, Looks(e)
      PROVE  IInv'
    BY <1>1, LooksIInv
<1>2. ASSUME NEW e \in Employee, Works(e)
      PROVE  IInv'
    <2>1. ASSUME NEW o \in Order, Confirm(e, o) \/ Reject(e, o)
          PROVE  IInv'
        BY <2>1, ConfirmIInv, RejectIInv
    <2>2. ASSUME NEW o \in Order, \/ \E to \in Status : Move(e, o, to) \/ TapCancel(e, o, to)
                                 \/ TapCancel(e, o, "cancel")
          PROVE  IInv'
        BY <2>2, OrdersIInv
    <2>3. ASSUME NEW o \in Order, Cancel(e, o)
          PROVE  IInv'
        BY <2>3, CancelIInv
    <2>4. ASSUME NEW b \in Bill, TapPay(e, b) \/ Pay(e, b)
          PROVE  IInv'
        BY <2>4, PayIInv
    <2>5. ASSUME NEW b \in Bill, Issue(e, b) \/ PayWithBonuses(e, b) \/ Void(e, b)
          PROVE  IInv'
        BY <2>5, IssueIInv, BonusesIInv, VoidIInv
    <2>6. ASSUME NEW l \in Line, TapRemove(e, l)
          PROVE  IInv'
        BY <2>6, RemoveIInv
    <2>7. CASE MakeBill(e)
        BY <2>7, MakeBillIInv
    <2>8. CASE Remove(e)
        BY <2>8, RemoveIInv
    <2> QED  BY <1>2, <2>1, <2>2, <2>3, <2>4, <2>5, <2>6, <2>7, <2>8, Zenon DEF Works
<1>3. CASE UNCHANGED vars
    <2>1. UNCHANGED <<db, told, hand>>
        BY <1>3 DEF vars
    <2> QED  BY <2>1, HandKept, DatabaseKept
<1> QED  BY <1>1, <1>2, <1>3 DEF Next

LEMMA Invariant == Spec => []IInv
<1>1. Init => IInv
    BY InitIInv
<1>2. IInv /\ [Next]_vars => IInv'
    BY NextIInv
<1> QED  BY <1>1, <1>2, PTL DEF Spec

-----------------------------------------------------------------------------
(* Bonuses                                                                 *)

\* The bonuses that lie on a bill, and those on the bills in force.
Held(row) == IF row.status = "canceled" THEN 0 ELSE row.spent

InForce(rows) == SumFunctionOnSet([b \in Bill |-> rows[b].spent],
                                  {b \in Bill : rows[b].status # "canceled"})

\* Each bill adds what lies on it.
LEMMA BillHolds ==
    ASSUME NEW rows \in [Bill -> BillRow], NEW b \in Bill
    PROVE  LET rest == SumFunctionOnSet([c \in Bill |-> rows[c].spent],
                                        {c \in Bill : rows[c].status # "canceled"} \ {b})
           IN  rest \in Nat /\ InForce(rows) = Held(rows[b]) + rest
<1> DEFINE spent == [c \in Bill |-> rows[c].spent]
           live == {c \in Bill : rows[c].status # "canceled"}
<1>1. IsFiniteSet(live) /\ IsFiniteSet(live \ {b})
    BY FS_Subset
<1>2. \A c \in live : spent[c] \in Nat
    BY DEF BillRow
<1>3. b \in live => spent[b] = Held(rows[b])
    BY DEF Held
<1>4. b \notin live => live \ {b} = live /\ Held(rows[b]) = 0
    BY DEF Held
<1>5. InForce(rows) = SumFunctionOnSet(spent, live)
    BY DEF InForce
<1> HIDE DEF spent, live
<1>6. CASE b \in live
    BY <1>1, <1>2, <1>3, <1>5, <1>6, SumStep DEF spent, live
<1>7. CASE b \notin live
    <2>1. SumFunctionOnSet(spent, live) \in Nat
        BY <1>1, <1>2, SumIsUnits, FS_CardinalityType
    <2>2. SumFunctionOnSet(spent, live \ {b}) = SumFunctionOnSet(spent, live)
        BY <1>4, <1>7, Zenon
    <2>3. Held(rows[b]) = 0
        BY <1>4, <1>7
    <2>4. /\ SumFunctionOnSet(spent, live \ {b}) \in Nat
          /\ InForce(rows) = Held(rows[b]) + SumFunctionOnSet(spent, live \ {b})
        BY <1>5, <2>1, <2>2, <2>3
    <2> QED  BY <2>4 DEF spent, live
<1> QED  BY <1>6, <1>7

\* A bill that is written changes the sum by what it gains or loses.
LEMMA BillRewritten ==
    ASSUME NEW rows \in [Bill -> BillRow], NEW next \in [Bill -> BillRow], NEW b \in Bill,
           \A c \in Bill : c # b => next[c] = rows[c]
    PROVE  InForce(rows) \in Int /\ InForce(next) = InForce(rows) - Held(rows[b]) + Held(next[b])
<1> DEFINE spent == [c \in Bill |-> rows[c].spent]
           live == {c \in Bill : rows[c].status # "canceled"} \ {b}
           spentN == [c \in Bill |-> next[c].spent]
           liveN == {c \in Bill : next[c].status # "canceled"} \ {b}
<1>1. SumFunctionOnSet(spent, live) \in Nat /\ InForce(rows) = Held(rows[b]) + SumFunctionOnSet(spent, live)
    BY BillHolds
<1>2. InForce(next) = Held(next[b]) + SumFunctionOnSet(spentN, liveN)
    BY BillHolds
<1>3. Held(rows[b]) \in Nat /\ Held(next[b]) \in Nat
    BY DEF Held, BillRow
<1>4. SumFunctionOnSet(spent, live) = SumFunctionOnSet(spentN, liveN)
    <2>1. live = liveN /\ IsFiniteSet(live)
        BY FS_Subset
    <2>2. \A c \in live : spent[c] \in Nat /\ spentN[c] = spent[c]
        BY DEF BillRow
    <2> HIDE DEF spent, live, spentN, liveN
    <2> QED  BY <2>1, <2>2, SumSame
<1> HIDE DEF spent, live, spentN, liveN
<1> QED  BY <1>1, <1>2, <1>3, <1>4

\* What one bill gains the balance loses, and the other way round.
LEMMA BonusesMove ==
    ASSUME TypeOK, BonusesWhole, NEW b \in Bill, NEW row \in BillRow, Rewrites(b, row),
           balance' \in Int, balance' + Held(row) = balance + Held(bill[b])
    PROVE  BonusesWhole'
<1>1. bill' \in [Bill -> BillRow] /\ bill'[b] = row /\ \A c \in Bill : c # b => bill'[c] = bill[c]
    BY Rewritten
<1>2. InForce(bill) \in Int /\ InForce(bill') = InForce(bill) - Held(bill[b]) + Held(row)
    BY <1>1, BillRewritten DEF TypeOK
<1>3. balance + InForce(bill) = Bonuses
    BY DEF BonusesWhole, InForce
<1>4. Held(row) \in Int /\ Held(bill[b]) \in Int /\ balance \in Int
    BY BillTyped DEF Held, BillRow, TypeOK
<1>5. balance' + InForce(bill') = Bonuses
    BY <1>2, <1>3, <1>4
<1> QED  BY <1>5 DEF BonusesWhole, InForce

LEMMA BonusesKept ==
    ASSUME BonusesWhole, UNCHANGED <<bill, balance>>
    PROVE  BonusesWhole'
BY DEF BonusesWhole

\* The checkouts have spent what the balance is short of.
LEMMA InitWhole == Init => BonusesWhole
<1> SUFFICES ASSUME Init
             PROVE  BonusesWhole
    OBVIOUS
<1>1. PICK spent \in [Pickup -> 0..Bonuses] :
        /\ balance = Bonuses - SumFunctionOnSet(spent, Pickup)
        /\ bill = [b \in Bill |-> IF \E o \in Pickup : PickupBill[o] = b
              THEN LET o == CHOOSE p \in Pickup : PickupBill[p] = b IN
                   [NoBill EXCEPT !.status = "issued", !.items = Lines[o], !.spent = spent[o]]
              ELSE NoBill]
    BY DEF Init
<1> DEFINE made == {PickupBill[o] : o \in Pickup}
           onBill == [b \in Bill |-> bill[b].spent]
           move == [o \in Pickup |-> PickupBill[o]]
<1>2. ASSUME NEW o \in Pickup
      PROVE  onBill[PickupBill[o]] = spent[o] /\ bill[PickupBill[o]].status = "issued"
    <2>1. (CHOOSE p \in Pickup : PickupBill[p] = PickupBill[o]) = o
        OBVIOUS
    <2>2. bill[PickupBill[o]] =
              [NoBill EXCEPT !.status = "issued", !.items = Lines[o], !.spent = spent[o]]
        BY <1>1, <2>1
    <2> QED  BY <2>2 DEF NoBill
<1>3. \A b \in Bill \ made : bill[b] = NoBill
    BY <1>1
<1>4. IsFiniteSet(made) /\ move \in Bijection(Pickup, made) /\ IsFiniteSet(Pickup)
    <2>1. move \in Bijection(Pickup, made) /\ move \in Injection(Pickup, Bill)
        BY DEF Bijection, Injection, Surjection, IsInjective
    <2>2. IsFiniteSet(made) /\ IsFiniteSet(Pickup)
        BY <2>1, FS_Subset, FS_Injection
    <2> QED  BY <2>1, <2>2
<1>5. \A b \in Bill : onBill[b] = bill[b].spent
    OBVIOUS
<1> HIDE DEF onBill
<1>6. \A o \in Pickup : spent[o] \in Nat
    OBVIOUS
<1>7. \A b \in Bill : /\ bill[b].status # "canceled" /\ onBill[b] \in Nat
                      /\ b \notin made => onBill[b] = 0
    <2> TAKE b \in Bill
    <2>1. CASE b \in made
        <3>1. PICK o \in Pickup : b = PickupBill[o]
            BY <2>1
        <3> QED  BY <1>2, <1>6, <2>1, <3>1
    <2>2. CASE b \notin made
        <3>1. bill[b].status = "absent" /\ bill[b].spent = 0
            BY <1>3, <2>2 DEF NoBill
        <3> QED  BY <1>5, <2>2, <3>1
    <2> QED  BY <2>1, <2>2
<1>8. SumFunctionOnSet(spent, Pickup) = SumFunctionOnSet(onBill, made)
    <2>1. \A o \in Pickup : onBill[move[o]] = spent[o]
        BY <1>2
    <2> HIDE DEF made, move
    <2> QED  BY <1>4, <1>6, <2>1, SumMoved
<1>9. SumFunctionOnSet(onBill, made) = SumFunctionOnSet(onBill, Bill)
    <2>1. made \subseteq Bill
        OBVIOUS
    <2> HIDE DEF made
    <2>2. /\ \A b \in made : onBill[b] \in Nat
          /\ \A b \in Bill \ made : onBill[b] = 0
          /\ \A b \in made \ Bill : onBill[b] = 0
        BY <1>7, <2>1
    <2>3. IsFiniteSet(made) /\ IsFiniteSet(Bill) /\ \A b \in Bill : onBill[b] \in Nat
        BY <1>4, <1>7, StaffDeskAssumption
    <2> QED  BY <2>2, <2>3, SumSame
<1>10. {b \in Bill : bill[b].status # "canceled"} = Bill
    BY <1>7
<1>11. SumFunctionOnSet(onBill, Bill) \in Nat
    BY <1>7, SumIsUnits, FS_CardinalityType
<1>12. balance + SumFunctionOnSet(onBill, Bill) = Bonuses
    <2>1. balance = Bonuses - SumFunctionOnSet(onBill, Bill)
        BY <1>1, <1>8, <1>9
    <2> HIDE DEF made
    <2> QED  BY <1>11, <2>1
<1> HIDE DEF made, move
<1> QED  BY <1>10, <1>12 DEF BonusesWhole, onBill

\* A step that leaves the bonuses of every bill where they were leaves the balance alone.
LEMMA SpentKept ==
    ASSUME IInv, BonusesWhole, NEW b \in Bill, NEW row \in BillRow, Rewrites(b, row),
           balance' = balance, row.spent = bill[b].spent,
           row.status # "canceled", bill[b].status # "canceled"
    PROVE  BonusesWhole'
<1>1. Held(row) = Held(bill[b]) /\ balance' \in Int
    BY DEF Held, IInv, TypeOK
<1> QED  BY <1>1, BonusesMove DEF IInv

LEMMA NextWhole == IInv /\ BonusesWhole /\ [Next]_vars => BonusesWhole'
<1> SUFFICES ASSUME IInv, BonusesWhole, [Next]_vars
             PROVE  BonusesWhole'
    OBVIOUS
<1>1. ASSUME NEW e \in Employee, Looks(e)
      PROVE  BonusesWhole'
    <2>1. UNCHANGED <<bill, balance>>
        BY <1>1 DEF Looks, ListOrders, ListBills, ListTables, OpenTable, OpenOrder, AskReject,
                    AskCancel, OpenBill, OpenEdit, AskVoid, AskRemove, db
    <2> QED  BY <2>1, BonusesKept
<1>2. ASSUME NEW e \in Employee, NEW o \in Order,
             (\E to \in Status : Move(e, o, to) \/ TapCancel(e, o, to)) \/ TapCancel(e, o, "cancel")
      PROVE  BonusesWhole'
    <2>1. UNCHANGED <<bill, balance>>
        BY <1>2 DEF Move, TapCancel, db
    <2> QED  BY <2>1, BonusesKept
<1>3. ASSUME NEW e \in Employee, NEW o \in Order, Cancel(e, o)
      PROVE  BonusesWhole'
    <2> DEFINE b == hand[e].bill
               ls == hand[e].lines
               ok == CanCancel(e, o, b, ls)
               row == [bill[b] EXCEPT !.items = @ \ ls]
    <2>1. /\ bill' = IF ok /\ b # None THEN [bill EXCEPT ![b].items = @ \ ls] ELSE bill
          /\ balance' = balance
        BY <1>3 DEF Cancel
    <2>2. b \in Bill \cup {None}
        BY DEF IInv, HandInv, HandRow
    <2>3. CASE ok /\ b # None
        <3>1. b \in Bill /\ bill[b].status \in OpenStatus
            BY <2>2, <2>3 DEF CanCancel, MayRemove, MayEdit, IsOpen
        <3> HIDE DEF b, ls, ok
        <3>2. Rewrites(b, row)
            BY <2>1, <2>3 DEF Rewrites
        <3>3. row \in BillRow /\ row.spent = bill[b].spent /\ row.status = bill[b].status
            BY <3>1, BillTyped DEF IInv, BillRow
        <3> HIDE DEF row
        <3> QED  BY <2>1, <3>1, <3>2, <3>3, SpentKept DEF OpenStatus
    <2>4. CASE ~(ok /\ b # None)
        BY <2>1, <2>4, BonusesKept
    <2> QED  BY <2>3, <2>4
<1>4. ASSUME NEW e \in Employee, NEW o \in Order, Confirm(e, o)
      PROVE  BonusesWhole'
    <2>1. PICK b \in TransferBill(o) :
            /\ IsOpen(b) /\ Remaining(b) > 0
            /\ bill' = [bill EXCEPT ![b].paid = @ + Remaining(b), ![b].status = "paid"]
        BY <1>4 DEF Confirm
    <2>2. b \in Bill /\ bill[b].status \in OpenStatus
        BY <2>1 DEF TransferBill, IsOpen
    <2> DEFINE row == [bill[b] EXCEPT !.paid = @ + Remaining(b), !.status = "paid"]
    <2>3. Rewrites(b, row) /\ balance' = balance
        BY <1>4, <2>1 DEF Rewrites, Confirm
    <2>4. bill[b] \in BillRow /\ bill[b].paid + Remaining(b) \in Nat
        BY <2>1, <2>2, BillTyped DEF IInv
    <2>5. row \in BillRow /\ row.spent = bill[b].spent /\ row.status = "paid"
        BY <2>4 DEF BillRow, BillStatus
    <2> HIDE DEF row
    <2> QED  BY <2>2, <2>3, <2>5, SpentKept DEF OpenStatus
<1>5. ASSUME NEW e \in Employee, NEW o \in Order, Reject(e, o)
      PROVE  BonusesWhole'
    <2>1. PICK b \in TransferBill(o) :
            /\ MayReject(o, b) /\ bill' = [bill EXCEPT ![b] = Voided(b)]
            /\ balance' = balance + bill[b].spent
        BY <1>5 DEF Reject
    <2>2. b \in Bill /\ bill[b].paid = 0 /\ bill[b].status # "canceled"
        BY <2>1 DEF MayReject, TransferBill
    <2>3. Voided(b) \in BillRow /\ Voided(b).status = "canceled" /\ bill[b].spent \in Nat
        BY <2>2, VoidedRow, BillTyped DEF IInv
    <2>4. Rewrites(b, Voided(b)) /\ balance' \in Int /\ balance' + 0 = balance + bill[b].spent
        BY <2>1, <2>3 DEF Rewrites, IInv, TypeOK
    <2>5. Held(Voided(b)) = 0 /\ Held(bill[b]) = bill[b].spent
        BY <2>2, <2>3 DEF Held
    <2> QED  BY <2>2, <2>3, <2>4, <2>5, BonusesMove DEF IInv
<1>6. ASSUME NEW e \in Employee, NEW b \in Bill, Void(e, b)
      PROVE  BonusesWhole'
    <2>1. /\ Rewrites(b, Voided(b)) /\ balance' = balance + bill[b].spent
          /\ bill[b].status \in OpenStatus /\ bill[b].paid = 0
        BY <1>6 DEF Void, Rewrites, MayVoid, IsOpen
    <2>2. Voided(b) \in BillRow /\ Voided(b).status = "canceled" /\ bill[b].spent \in Nat
        BY <2>1, VoidedRow, BillTyped DEF IInv
    <2>3. balance' \in Int /\ balance' + 0 = balance + bill[b].spent
        BY <2>1, <2>2 DEF IInv, TypeOK
    <2>4. Held(Voided(b)) = 0 /\ Held(bill[b]) = bill[b].spent
        BY <2>1, <2>2 DEF Held, OpenStatus
    <2> QED  BY <2>1, <2>2, <2>3, <2>4, BonusesMove DEF IInv
<1>7. ASSUME NEW e \in Employee, NEW b \in Bill, PayWithBonuses(e, b)
      PROVE  BonusesWhole'
    <2> DEFINE amount == Redeemable(b)
               final == IF amount = Total(b) THEN "paid" ELSE "issued"
               row == [bill[b] EXCEPT !.spent = amount, !.status = final]
    <2>1. /\ bill' = [bill EXCEPT ![b].spent = amount, ![b].status = final]
          /\ MaySpendBonuses(b) /\ balance' = balance - amount
        BY <1>7 DEF PayWithBonuses
    <2>2. /\ bill[b].status \in OpenStatus /\ bill[b].spent = 0 /\ amount > 0
          /\ bill[b] \in BillRow /\ Total(b) \in Int /\ balance \in Int
        BY <2>1, BillTyped DEF MaySpendBonuses, IsOpen, IInv, TypeOK
    <2>3. amount \in Nat
        BY <2>2 DEF Redeemable
    <2>4. final \in {"paid", "issued"}
        OBVIOUS
    <2> HIDE DEF amount, final
    <2>5. Rewrites(b, row)
        BY <2>1 DEF Rewrites
    <2>6. row \in BillRow /\ row.spent = amount /\ row.status # "canceled"
        BY <2>2, <2>3, <2>4 DEF BillRow, BillStatus, OpenStatus
    <2> HIDE DEF row
    <2>7. Held(row) = amount /\ Held(bill[b]) = 0
        BY <2>2, <2>6 DEF Held
    <2>8. balance' \in Int /\ balance' + Held(row) = balance + Held(bill[b])
        BY <2>1, <2>2, <2>3, <2>7
    <2> QED  BY <2>5, <2>6, <2>8, BonusesMove DEF IInv
<1>8. ASSUME NEW e \in Employee, NEW b \in Bill, Issue(e, b) \/ TapPay(e, b) \/ Pay(e, b)
      PROVE  BonusesWhole'
    <2>1. CASE Issue(e, b)
        <3> DEFINE row == [bill[b] EXCEPT !.status = "issued"]
        <3>1. Rewrites(b, row) /\ bill[b].status = "draft" /\ balance' = balance
            BY <2>1 DEF Issue, Rewrites
        <3>2. row \in BillRow /\ row.spent = bill[b].spent /\ row.status = "issued"
            BY BillTyped DEF IInv, BillRow, BillStatus, OpenStatus
        <3> HIDE DEF row
        <3> QED  BY <3>1, <3>2, SpentKept
    <2>2. CASE TapPay(e, b)
        <3>1. UNCHANGED <<bill, balance>>
            BY <2>2 DEF TapPay, db
        <3> QED  BY <3>1, BonusesKept
    <2>3. CASE Pay(e, b)
        <3> DEFINE amount == hand[e].seen
                   final == IF amount = Remaining(b) THEN "paid" ELSE "partially_paid"
                   row == [bill[b] EXCEPT !.paid = @ + amount, !.status = final]
        <3>1. CASE ~MayRecord(b, amount)
            <4>1. UNCHANGED <<bill, balance>>
                BY <2>3, <3>1 DEF Pay
            <4> QED  BY <4>1, BonusesKept
        <3>2. CASE MayRecord(b, amount)
            <4>1. /\ bill' = [bill EXCEPT ![b].paid = @ + amount, ![b].status = final]
                  /\ balance' = balance
                BY <2>3, <3>2 DEF Pay
            <4>2. bill[b].status \in OpenStatus /\ amount \in Int /\ amount > 0
                BY <3>2 DEF MayRecord, IsOpen, IInv, HandInv, HandRow
            <4>3. bill[b] \in BillRow /\ bill[b].paid + amount \in Nat
                BY <4>2, BillTyped DEF IInv
            <4>4. final \in {"paid", "partially_paid"}
                OBVIOUS
            <4> HIDE DEF final, amount
            <4>5. Rewrites(b, row)
                BY <4>1, TwoFields, Zenon DEF Rewrites, IInv
            <4>6. row \in BillRow /\ row.spent = bill[b].spent /\ row.status # "canceled"
                BY <4>3, <4>4 DEF BillRow, BillStatus, OpenStatus
            <4> HIDE DEF row
            <4> QED  BY <4>1, <4>2, <4>5, <4>6, SpentKept DEF OpenStatus
        <3> QED  BY <3>1, <3>2
    <2> QED  BY <1>8, <2>1, <2>2, <2>3
<1>9. ASSUME NEW e \in Employee, MakeBill(e)
      PROVE  BonusesWhole'
    <2> DEFINE lines == UNION {Lines[o] : o \in Unbilled \cap AtTable}
    <2>1. PICK b \in Bill :
            /\ bill[b].status = "absent"
            /\ bill' = [bill EXCEPT ![b].status = "draft", ![b].items = lines]
        BY <1>9 DEF MakeBill
    <2>2. balance' = balance /\ lines \in SUBSET Line
        <3>1. Unbilled \cap AtTable \subseteq Order
            BY DEF Order
        <3>2. lines \in SUBSET Line
            BY <3>1 DEF Line
        <3> QED  BY <1>9, <3>2 DEF MakeBill
    <2> HIDE DEF lines
    <2> DEFINE row == [bill[b] EXCEPT !.status = "draft", !.items = lines]
    <2>3. Rewrites(b, row)
        BY <2>1 DEF Rewrites
    <2>4. row \in BillRow /\ row.spent = bill[b].spent /\ row.status = "draft"
        BY <2>2, BillTyped DEF IInv, BillRow, BillStatus, OpenStatus
    <2> HIDE DEF row
    <2> QED  BY <2>1, <2>2, <2>3, <2>4, SpentKept
<1>10. ASSUME NEW e \in Employee, (\E l \in Line : TapRemove(e, l)) \/ Remove(e)
      PROVE  BonusesWhole'
    <2>1. CASE \E l \in Line : TapRemove(e, l)
        <3>1. UNCHANGED <<bill, balance>>
            BY <2>1 DEF TapRemove, db
        <3> QED  BY <3>1, BonusesKept
    <2>2. CASE Remove(e)
        <3> DEFINE b == hand[e].bill
                   ls == hand[e].lines
                   row == [bill[b] EXCEPT !.items = @ \ ls]
        <3>1. /\ bill' = IF MayRemove(e, b, ls) THEN [bill EXCEPT ![b].items = @ \ ls] ELSE bill
              /\ balance' = balance
            BY <2>2 DEF Remove
        <3> HIDE DEF b, ls
        <3>2. CASE b \in Bill /\ MayRemove(e, b, ls)
            <4>1. bill[b].status \in OpenStatus
                BY <3>2 DEF MayRemove, MayEdit, IsOpen
            <4>2. Rewrites(b, row)
                BY <3>1, <3>2 DEF Rewrites
            <4>3. row \in BillRow /\ row.spent = bill[b].spent /\ row.status = bill[b].status
                BY <3>2, BillTyped DEF IInv, BillRow
            <4> HIDE DEF row
            <4> QED  BY <3>1, <3>2, <4>1, <4>2, <4>3, SpentKept DEF OpenStatus
        <3>3. CASE ~(b \in Bill /\ MayRemove(e, b, ls))
            <4>1. bill' = bill
                BY <3>1, <3>3 DEF IInv, TypeOK
            <4> QED  BY <3>1, <4>1, BonusesKept
        <3> QED  BY <3>2, <3>3
    <2> QED  BY <1>10, <2>1, <2>2
<1>11. CASE UNCHANGED vars
    BY <1>11, BonusesKept DEF vars, db
<1>12. ASSUME NEW e \in Employee, Works(e)
      PROVE  BonusesWhole'
    BY <1>2, <1>3, <1>4, <1>5, <1>6, <1>7, <1>8, <1>9, <1>10, <1>12, Zenon DEF Works
<1> QED  BY <1>1, <1>11, <1>12 DEF Next

-----------------------------------------------------------------------------
(* The theorems                                                            *)

\* For any number of employees with any cards on their screens, no bill takes more money than it
\* asks for, a paid one is paid to the end, and a voided one has taken none.
THEOREM CardsTakeMoneyOnce == Spec => []PaidOnce
<1>1. IInv => PaidOnce
    <2> SUFFICES ASSUME IInv, NEW b \in Bill
                 PROVE  /\ bill[b].status # "canceled" => Remaining(b) >= 0
                        /\ bill[b].status = "paid" => Remaining(b) = 0
                        /\ bill[b].status = "canceled" => bill[b].paid = 0
        BY DEF PaidOnce
    <2>1. Sound(bill[b])
        BY DEF IInv, MoneyInv
    <2>2. /\ bill[b].paid \in Nat /\ bill[b].spent \in Nat /\ Cardinality(bill[b].items) \in Nat
          /\ Remaining(b) = Cardinality(bill[b].items) - bill[b].spent - bill[b].paid
        BY BillTyped DEF IInv, Remaining, Total
    <2> QED  BY <2>1, <2>2 DEF Sound
<1> QED  BY <1>1, Invariant, PTL

\* For any number of employees, nobody is told that a transfer has come while a colleague is told
\* that it has not, and what both see in the database afterwards is what they were told.
THEOREM TransferAnsweredOnce == Spec => []TransferSettledOnce
<1>1. IInv => TransferSettledOnce
    <2> SUFFICES ASSUME IInv, NEW o \in Pickup
                 PROVE  LET b == bill[PickupBill[o]] IN
                        /\ <<o, "confirmed">> \in told =>
                              /\ <<o, "rejected">> \notin told
                              /\ o \in settled /\ status[o] \notin {"new", "canceled"}
                              /\ b.status = "paid" /\ Remaining(PickupBill[o]) = 0
                        /\ <<o, "rejected">> \in told =>
                              /\ status[o] = "canceled" /\ o \notin settled
                              /\ b.status = "canceled" /\ b.paid = 0
        BY DEF TransferSettledOnce
    <2> DEFINE c == PickupBill[o]
    <2>1. Said(o) /\ c \in Bill /\ Sound(bill[c])
        BY DEF IInv, SaidInv, MoneyInv
    <2>2. /\ bill[c].paid \in Nat /\ bill[c].spent \in Nat /\ Cardinality(bill[c].items) \in Nat
          /\ Remaining(c) = Cardinality(bill[c].items) - bill[c].spent - bill[c].paid
        BY <2>1, BillTyped DEF IInv, Remaining, Total
    <2>3. bill[c].status = "paid" => Remaining(c) = 0
        BY <2>1, <2>2 DEF Sound
    <2>4. bill[c].status = "canceled" => bill[c].paid = 0
        BY <2>1 DEF Sound
    <2> QED  BY <2>1, <2>3, <2>4 DEF Said
<1> QED  BY <1>1, Invariant, PTL

\* For any number of employees, any bills and any checkouts that spent bonuses, the bonuses of the
\* guest are on the account or on one bill in force: no card spends or returns them twice.
THEOREM CardsKeepBonuses == Spec => []BonusesWhole
<1>1. Init => BonusesWhole
    BY InitWhole
<1>2. IInv /\ BonusesWhole /\ [Next]_vars => BonusesWhole'
    BY NextWhole
<1> QED  BY <1>1, <1>2, Invariant, PTL DEF Spec
=============================================================================
