-------------------------- MODULE GuestOrdersProofs --------------------------
(***************************************************************************)
(* Theorems about GuestOrders, for any items and prices, any number of     *)
(* carts, orders, table sessions and commands at once, any bonuses.        *)
(***************************************************************************)
EXTENDS GuestOrders, FiniteSetTheorems, TLAPS

-----------------------------------------------------------------------------
(* Sums over finite sets: an element x worth f[x] stands for f[x] units, and *)
(* a sum is a number of units.                                             *)

Units(f, S) == UNION {{x} \X (1..f[x]) : x \in S}

\* One element counts as many units as it is worth.
LEMMA UnitsOfOne ==
    ASSUME NEW x, NEW n \in Nat
    PROVE IsFiniteSet({x} \X (1..n)) /\ Cardinality({x} \X (1..n)) = n
<1>1. IsFiniteSet({x}) /\ Cardinality({x}) = 1
    BY FS_Singleton
<1>2. IsFiniteSet(1..n) /\ Cardinality(1..n) = n
    BY FS_Interval
<1> DEFINE I == 1..n
<1> HIDE DEF I
<1>3. IsFiniteSet({x} \X I) /\ Cardinality({x} \X I) = Cardinality({x}) * Cardinality(I)
    BY <1>1, <1>2, FS_Product DEF I
<1> QED BY <1>1, <1>2, <1>3 DEF I

\* An element adds the units it is worth.
LEMMA UnitsAdd ==
    ASSUME NEW f, NEW S, NEW x \in S, f[x] \in Nat, IsFiniteSet(Units(f, S \ {x}))
    PROVE  /\ IsFiniteSet(Units(f, S))
           /\ Cardinality(Units(f, S)) = f[x] + Cardinality(Units(f, S \ {x}))
<1> DEFINE one == {x} \X (1..f[x])
           rest == Units(f, S \ {x})
<1>1. IsFiniteSet(one) /\ Cardinality(one) = f[x]
    BY UnitsOfOne
<1>2. Units(f, S) = rest \cup one /\ rest \cap one = {}
    BY DEF Units
<1>3. IsFiniteSet(rest) /\ Cardinality(rest) \in Nat /\ Cardinality({}) = 0
    BY FS_CardinalityType, FS_EmptySet
<1> HIDE DEF one, rest
<1>4. /\ IsFiniteSet(rest \cup one)
      /\ Cardinality(rest \cup one) = Cardinality(rest) + Cardinality(one) - Cardinality(rest \cap one)
    BY <1>1, <1>3, FS_Union
<1>5. Cardinality(rest \cap one) = 0
    BY <1>2, <1>3
<1>6. Cardinality(rest \cup one) = f[x] + Cardinality(rest)
    <2> HIDE <1>2
    <2> QED  BY <1>1, <1>3, <1>4, <1>5
<1> QED
    BY <1>2, <1>4, <1>6 DEF rest

\* A set of subsets of a finite set has one that contains no other: the induction on finite sets.
LEMMA FiniteMinimal ==
    ASSUME NEW S, IsFiniteSet(S), NEW T, T \subseteq SUBSET S, T # {}
    PROVE  \E s \in T : \A r \in T : r \subseteq s => r = s
<1>1. IsWellFoundedOn(StrictSubsetOrdering(S), FiniteSubsetsOf(S)) /\ FiniteSubsetsOf(S) = SUBSET S
    BY FS_StrictSubsetOrderingWellFounded, FS_FiniteSubsetsOfFinite
<1>2. PICK s \in T : \A r \in T : <<r, s>> \notin StrictSubsetOrdering(S)
    BY <1>1, WFMin
<1> QED
    BY <1>2 DEF StrictSubsetOrdering

\* The fold of the model adds up the units: the cardinality solves its recursion.
LEMMA SumIsUnits ==
    ASSUME NEW S, IsFiniteSet(S), NEW f, \A x \in S : f[x] \in Nat
    PROVE  IsFiniteSet(Units(f, S)) /\ SumFunctionOnSet(f, S) = Cardinality(Units(f, S))
<1> DEFINE x(s) == CHOOSE y \in s : TRUE
           step(g) == [s \in SUBSET S |-> IF s = {} THEN 0 ELSE f[x(s)] + g[s \ {x(s)}]]
           iter == CHOOSE g : g = step(g)
           size == [s \in SUBSET S |-> Cardinality(Units(f, s))]
<1>1. \A s \in SUBSET S : s # {} => x(s) \in s
    OBVIOUS
<1>2. \A s \in SUBSET S : IsFiniteSet(Units(f, s))
    <2> DEFINE Bad == {s \in SUBSET S : ~IsFiniteSet(Units(f, s))}
    <2> SUFFICES ASSUME Bad # {} PROVE FALSE
        OBVIOUS
    <2>0. Bad \subseteq SUBSET S
        OBVIOUS
    <2>1. PICK s \in Bad : \A r \in Bad : r \subseteq s => r = s
        <3> HIDE DEF Bad
        <3> QED  BY <2>0, FiniteMinimal
    <2>2. CASE s = {}
        BY <2>1, <2>2, FS_EmptySet DEF Units
    <2>3. CASE s # {}
        <3>1. PICK y \in s : TRUE
            BY <2>3
        <3>2. s \ {y} \notin Bad /\ s \ {y} \in SUBSET S
            BY <2>1, <3>1
        <3> QED  BY <2>1, <3>1, <3>2, UnitsAdd
    <2> QED  BY <2>2, <2>3
<1>3. ASSUME NEW s \in SUBSET S
            PROVE  size[s] = IF s = {} THEN 0 ELSE f[x(s)] + size[s \ {x(s)}]
    <2>1. CASE s = {}
        BY <2>1, FS_EmptySet DEF Units
    <2>2. CASE s # {}
        <3> DEFINE y == x(s)
        <3>1. y \in s /\ f[y] \in Nat /\ s \ {y} \in SUBSET S
            BY <1>1, <2>2
        <3> HIDE DEF y
        <3>2. Cardinality(Units(f, s)) = f[y] + Cardinality(Units(f, s \ {y}))
            <4>1. IsFiniteSet(Units(f, s \ {y}))
                BY <1>2, <3>1
            <4> QED  BY <3>1, <4>1, UnitsAdd
        <3>3. size[s] = f[y] + size[s \ {y}]
            BY <3>1, <3>2
        <3> QED  BY <2>2, <3>3 DEF y
    <2> QED  BY <2>1, <2>2
<1>4. size = step(size)
    <2> HIDE DEF x
    <2> DEFINE rhs == step(size)
    <2>1. rhs = [s \in SUBSET S |-> IF s = {} THEN 0 ELSE f[x(s)] + size[s \ {x(s)}]]
        OBVIOUS
    <2>2. size = [s \in SUBSET S |-> size[s]]
        OBVIOUS
    <2> HIDE DEF size
    <2> QED  BY <1>3, <2>1, <2>2
<1>5. iter = step(iter)
    <2> HIDE DEF step, size
    <2> QED  BY <1>4
<1>6. SumFunctionOnSet(f, S) = iter[S]
    BY DEF SumFunctionOnSet, FoldFunctionOnSet, MapThenFoldSet
<1>7. iter[S] = size[S]
    <2> DEFINE Bad == {s \in SUBSET S : iter[s] # size[s]}
    <2> SUFFICES ASSUME Bad # {} PROVE FALSE
        OBVIOUS
    <2> HIDE DEF iter
    <2>0. Bad \subseteq SUBSET S
        OBVIOUS
    <2>1. PICK s \in Bad : \A r \in Bad : r \subseteq s => r = s
        <3> HIDE DEF Bad
        <3> QED  BY <2>0, FiniteMinimal
    <2>2. iter[s] = IF s = {} THEN 0 ELSE f[x(s)] + iter[s \ {x(s)}]
        <3> HIDE DEF x, size
        <3> QED BY <1>5
    <2>3. size[s] = IF s = {} THEN 0 ELSE f[x(s)] + size[s \ {x(s)}]
        BY <1>3
    <2>4. s # {} => s \ {x(s)} \notin Bad /\ s \ {x(s)} \in SUBSET S
        <3> HIDE DEF size
        <3> QED BY <1>1, <2>1
    <2> HIDE DEF x, size
    <2> QED  BY <2>1, <2>2, <2>3, <2>4
<1> HIDE DEF iter
<1> QED
    BY <1>2, <1>6, <1>7

\* Any element can be added last.
LEMMA SumStep ==
    ASSUME NEW S, IsFiniteSet(S), NEW f, \A x \in S : f[x] \in Nat, NEW x \in S
    PROVE  /\ SumFunctionOnSet(f, S \ {x}) \in Nat
           /\ SumFunctionOnSet(f, S) = f[x] + SumFunctionOnSet(f, S \ {x})
<1>1. IsFiniteSet(S \ {x})
    BY FS_Subset
<1>2. /\ IsFiniteSet(Units(f, S \ {x}))
      /\ SumFunctionOnSet(f, S \ {x}) = Cardinality(Units(f, S \ {x}))
    BY <1>1, SumIsUnits
<1>3. SumFunctionOnSet(f, S) = Cardinality(Units(f, S))
    BY SumIsUnits
<1>4. Cardinality(Units(f, S)) = f[x] + Cardinality(Units(f, S \ {x}))
    BY <1>2, UnitsAdd
<1>5. SumFunctionOnSet(f, S \ {x}) \in Nat
    BY <1>1, <1>2, FS_CardinalityType
<1> QED
    BY <1>2, <1>3, <1>4, <1>5

\* Two functions have the same sum when they differ only by zeros.
LEMMA SumSame ==
    ASSUME NEW S, NEW T, IsFiniteSet(S), IsFiniteSet(T), NEW f, NEW g,
           \A x \in S : f[x] \in Nat, \A x \in T : g[x] \in Nat,
           \A x \in S \cap T : f[x] = g[x], \A x \in S \ T : f[x] = 0, \A x \in T \ S : g[x] = 0
    PROVE  SumFunctionOnSet(f, S) = SumFunctionOnSet(g, T)
<1>1. Units(f, S) = Units(g, T)
    <2>1. \A x \in S \ T : 1..f[x] = {}
        OBVIOUS
    <2>2. \A x \in T \ S : 1..g[x] = {}
        OBVIOUS
    <2>3. ASSUME NEW u \in Units(f, S) PROVE u \in Units(g, T)
        <3>1. PICK x \in S : u \in {x} \X (1..f[x])
            BY DEF Units
        <3>2. x \in T
            BY <2>1, <3>1
        <3> QED  BY <3>1, <3>2 DEF Units
    <2>4. ASSUME NEW u \in Units(g, T) PROVE u \in Units(f, S)
        <3>1. PICK x \in T : u \in {x} \X (1..g[x])
            BY DEF Units
        <3>2. x \in S
            BY <2>2, <3>1
        <3> QED  BY <3>1, <3>2 DEF Units
    <2> QED  BY <2>3, <2>4
<1>2. /\ SumFunctionOnSet(f, S) = Cardinality(Units(f, S))
      /\ SumFunctionOnSet(g, T) = Cardinality(Units(g, T))
    BY SumIsUnits
<1> QED
    BY <1>1, <1>2

-----------------------------------------------------------------------------

USE GuestOrdersAssumption DEF Cart, Order

HeadRow == [status : Status, channel : Channel, session : Nat]

CartRow == [status : Status, channel : Channel, session : Nat, items : SUBSET Item, total : Nat]

Summary == [bonus : BOOLEAN, total : Nat, toPay : Int]

TapRow == [kind : {"idle", "add", "remove", "switch", "checkout", "view", "clear", "cleared",
                   "place"},
           session : Nat, item : SUBSET Item, channel : Channel, cart : Cart \cup {0},
           read : HeadRow, write : HeadRow, summary : Summary]

OrderRow == [channel : Channel, cart : Cart \cup {0}, items : SUBSET Item, shown : Int,
             bonus : Int]

TypeOK ==
    /\ session \in Nat /\ sessions \in Nat
    /\ cart \in [Cart -> CartRow]
    /\ order \in [Order -> OrderRow]
    /\ balance \in Int
    /\ summary \in Summary
    /\ tap \in [Tap -> TapRow]

\* A cart that is still to be used, or has never been.
Open(c) == cart[c].status \in {"absent", "active"}

\* The cart of an order is done with.
OrderedInv == \A o \in Placed : ~Open(order[o].cart)

\* A command that saves a cart it has only read read it active, and at most gives it up.
LookInv ==
    \A t \in Tap : tap[t].kind \in {"view", "clear", "cleared"} =>
        /\ tap[t].cart \in Cart
        /\ tap[t].read.status = "active"
        /\ tap[t].write.status \in {"active", "abandoned"}

IInv == TypeOK /\ OrderedInv /\ LookInv /\ OneOrderPerCart /\ ChargedAsShown

-----------------------------------------------------------------------------
LEMMA Initially == Init => IInv
<1> SUFFICES ASSUME Init
             PROVE  IInv
    OBVIOUS
<1>1. TypeOK
    <2>1. NoCart \in CartRow
        BY DEF NoCart, CartRow, Status, Channel
    <2>2. NoSummary \in Summary
        BY DEF NoSummary, Summary
    <2>3. Idle \in TapRow
        BY <2>2 DEF Idle, TapRow, Same, HeadRow, Status, Channel
    <2>4. NoOrder \in OrderRow
        BY DEF NoOrder, OrderRow, Channel
    <2> QED  BY <2>1, <2>2, <2>3, <2>4 DEF Init, TypeOK
<1>2. Placed = {}
    BY DEF Init, Placed, NoOrder
<1>3. LookInv
    BY DEF Init, LookInv, Idle
<1> QED  BY <1>1, <1>2, <1>3 DEF IInv, OrderedInv, OneOrderPerCart, ChargedAsShown

-----------------------------------------------------------------------------
(* Finding the cart to use                                                 *)

LEMMA AlignTyped ==
    ASSUME NEW c \in CartRow, NEW s \in Nat, c.status = "active"
    PROVE  Align(c, s) \in CartRow /\ Align(c, s).status \in {"active", "abandoned"}
BY DEF Align, CartRow, Status, Channel

\* The cart to use is open, and every cart that is done with stays what it was.
LEMMA FoundCart ==
    ASSUME TypeOK, NEW s \in Nat
    PROVE  /\ Found(s).carts \in [Cart -> CartRow]
           /\ Found(s).use \in Cart => Open(Found(s).use)
           /\ \A c \in Cart : ~Open(c) => Found(s).carts[c] = cart[c]
<1> DEFINE old == {c \in Active : Align(cart[c], s).status = "active"}
<1>1. cart \in [Cart -> CartRow]
    BY DEF TypeOK
<1>2. \A c \in Active : c \in Cart /\ cart[c].status = "active"
    BY DEF Active
<1>3. \A c \in Active : Align(cart[c], s) \in CartRow
    BY <1>1, <1>2, AlignTyped
<1>4. CASE old # {}
    <2> DEFINE c == CHOOSE x \in old : TRUE
    <2>1. c \in Active
        BY <1>4
    <2>2. Found(s) = [use |-> c, carts |-> [cart EXCEPT ![c] = Align(cart[c], s)]]
        BY <1>4 DEF Found
    <2> HIDE DEF c
    <2> QED  BY <1>1, <1>2, <1>3, <2>1, <2>2 DEF Open
<1>5. CASE old = {}
    <2>1. NextCart # 0 => NextCart \in Cart /\ cart[NextCart].status = "absent"
        BY DEF NextCart, Unused
    <2>2. NewCart(s) \in CartRow
        BY DEF NewCart, NoCart, CartRow, Status, Channel
    <2>3. Found(s) = [use |-> NextCart,
                      carts |-> [c \in Cart |-> IF c = NextCart THEN NewCart(s)
                                                ELSE IF c \in Active THEN Align(cart[c], s)
                                                ELSE cart[c]]]
        BY <1>5 DEF Found
    <2>4. Found(s).carts \in [Cart -> CartRow]
        BY <1>1, <1>3, <2>2, <2>3
    <2>5. \A c \in Cart : ~Open(c) => c # NextCart /\ c \notin Active
        BY <1>2, <2>1 DEF Open
    <2> QED  BY <2>1, <2>3, <2>4, <2>5 DEF Open
<1> QED  BY <1>4, <1>5

-----------------------------------------------------------------------------
(* What leaves the orders alone                                            *)

\* A step that places no order keeps the invariant when no cart that is done with opens again.
LEMMA NoOrderKeeps ==
    ASSUME IInv, UNCHANGED order, TypeOK', LookInv',
           \A c \in Cart : ~Open(c) => ~Open(c)'
    PROVE  IInv'
<1>1. Placed' = Placed
    BY DEF Placed
<1>2. \A o \in Placed : order[o].cart \in Cart
    BY DEF IInv, TypeOK, OrderRow, Placed
<1>3. OrderedInv'
    BY <1>1, <1>2 DEF IInv, OrderedInv
<1> QED  BY <1>1, <1>3 DEF IInv, OneOrderPerCart, ChargedAsShown

\* A command begins, or ends: what it has seen is all that changes.
LEMMA TapTyped ==
    ASSUME TypeOK, LookInv, NEW t \in Tap, NEW run \in TapRow,
           tap' = [tap EXCEPT ![t] = run],
           run.kind \notin {"view", "clear", "cleared"}
    PROVE  tap' \in [Tap -> TapRow] /\ LookInv'
<1>1. tap' \in [Tap -> TapRow]
    BY DEF TypeOK
<1>2. tap'[t] = run /\ \A u \in Tap : u # t => tap'[u] = tap[u]
    BY DEF TypeOK
<1>3. LookInv'
    BY <1>2 DEF LookInv
<1> QED  BY <1>1, <1>3

LEMMA IdleTyped == Idle \in TapRow /\ Idle.kind = "idle"
BY DEF Idle, TapRow, Same, NoSummary, Summary, HeadRow, Status, Channel

\* The carts found, with one of them changed.
LEMMA FoundChanged ==
    ASSUME IInv, NEW t \in Tap, NEW row \in CartRow,
           Found(tap[t].session).use \in Cart,
           cart' = [Found(tap[t].session).carts EXCEPT ![Found(tap[t].session).use] = row]
    PROVE  /\ cart' \in [Cart -> CartRow]
           /\ \A c \in Cart : ~Open(c) => ~Open(c)'
<1> DEFINE f == Found(tap[t].session)
<1>1. tap[t].session \in Nat
    BY DEF IInv, TypeOK, TapRow
<1>2. /\ f.carts \in [Cart -> CartRow]
      /\ Open(f.use)
      /\ \A c \in Cart : ~Open(c) => f.carts[c] = cart[c]
    BY <1>1, FoundCart DEF IInv
<1>3. cart' \in [Cart -> CartRow]
    BY <1>2
<1>4. \A c \in Cart : ~Open(c) => cart'[c] = cart[c]
    BY <1>2
<1> QED  BY <1>3, <1>4 DEF Open

LEMMA WithItemsTyped ==
    ASSUME NEW c \in CartRow, NEW items \in SUBSET Item
    PROVE  WithItems(c, items) \in CartRow
<1>1. Worth[items] \in Nat
    OBVIOUS
<1> QED  BY <1>1 DEF WithItems, CartRow

-----------------------------------------------------------------------------
(* The taps                                                                *)

\* A step that only begins or ends a command.
LEMMA TapKeeps ==
    ASSUME IInv, NEW t \in Tap, NEW run \in TapRow, tap' = [tap EXCEPT ![t] = run],
           run.kind \notin {"view", "clear", "cleared"},
           session' \in Nat, sessions' \in Nat,
           UNCHANGED <<cart, order, balance, summary>>
    PROVE  IInv'
<1>1. tap' \in [Tap -> TapRow] /\ LookInv'
    BY TapTyped DEF IInv
<1>2. TypeOK'
    BY <1>1 DEF IInv, TypeOK
<1>3. \A c \in Cart : ~Open(c) => ~Open(c)'
    BY DEF Open
<1> QED  BY <1>1, <1>2, <1>3, NoOrderKeeps

LEMMA BeginKeeps ==
    ASSUME IInv, NEW t \in Tap, NEW kind \in {"add", "remove", "switch", "checkout"},
           NEW item \in SUBSET Item, NEW channel \in Channel,
           Begin(t, kind, item, channel), UNCHANGED <<cart, order, guestVars>>
    PROVE  IInv'
<1> DEFINE run == [Idle EXCEPT !.kind = kind, !.session = session, !.item = item,
                               !.channel = channel]
<1>1. session \in Nat /\ sessions \in Nat
    BY DEF IInv, TypeOK
<1>2. run \in TapRow /\ run.kind = kind
    BY <1>1, IdleTyped DEF TapRow
<1>3. tap' = [tap EXCEPT ![t] = run]
    BY DEF Begin
<1> HIDE DEF run
<1> QED  BY <1>1, <1>2, <1>3, TapKeeps DEF guestVars

LEMMA ScanKeeps == ASSUME IInv, NEW t \in Tap, Scan(t) PROVE IInv'
<1> DEFINE run == [Idle EXCEPT !.kind = "switch", !.session = session']
<1>1. session' \in Nat /\ sessions' \in Nat
    BY DEF IInv, TypeOK, Scan
<1>2. run \in TapRow /\ run.kind = "switch"
    BY <1>1, IdleTyped DEF TapRow
<1>3. tap' = [tap EXCEPT ![t] = run]
    BY DEF Scan
<1> HIDE DEF run
<1> QED  BY <1>1, <1>2, <1>3, TapKeeps DEF Scan

LEMMA TapPaidKeeps == ASSUME IInv, NEW t \in Tap, TapPaid(t) PROVE IInv'
<1> DEFINE run == [Idle EXCEPT !.kind = "place", !.summary = summary]
<1>1. session \in Nat /\ sessions \in Nat /\ summary \in Summary
    BY DEF IInv, TypeOK
<1>2. run \in TapRow /\ run.kind = "place"
    BY <1>1, IdleTyped DEF TapRow
<1>3. tap' = [tap EXCEPT ![t] = run]
    BY DEF TapPaid
<1> HIDE DEF run
<1> QED  BY <1>1, <1>2, <1>3, TapKeeps DEF TapPaid, guestVars

LEMMA FailsKeeps == ASSUME IInv, NEW t \in Tap, Fails(t) PROVE IInv'
<1>1. session \in Nat /\ sessions \in Nat
    BY DEF IInv, TypeOK
<1> QED  BY <1>1, IdleTyped, TapKeeps DEF Fails, guestVars

\* A command that changes the cart it has found.
LEMMA ChangeKeeps ==
    ASSUME IInv, NEW t \in Tap, NEW row \in CartRow,
           Found(tap[t].session).use \in Cart,
           cart' = [Found(tap[t].session).carts EXCEPT ![Found(tap[t].session).use] = row],
           tap' = [tap EXCEPT ![t] = Idle],
           UNCHANGED <<order, guestVars>>
    PROVE  IInv'
<1>1. cart' \in [Cart -> CartRow] /\ \A c \in Cart : ~Open(c) => ~Open(c)'
    BY FoundChanged
<1>2. tap' \in [Tap -> TapRow] /\ LookInv'
    BY IdleTyped, TapTyped DEF IInv
<1>3. TypeOK'
    BY <1>1, <1>2 DEF IInv, TypeOK, guestVars
<1> QED  BY <1>1, <1>2, <1>3, NoOrderKeeps

\* The cart found, as a command that changes it sees it.
LEMMA FoundRow ==
    ASSUME IInv, NEW t \in Tap, Found(tap[t].session).use \in Cart
    PROVE  /\ Found(tap[t].session).carts[Found(tap[t].session).use] \in CartRow
           /\ tap[t] \in TapRow
<1>1. tap[t] \in TapRow /\ tap[t].session \in Nat
    BY DEF IInv, TypeOK, TapRow
<1> QED  BY <1>1, FoundCart DEF IInv

LEMMA AddKeeps == ASSUME IInv, NEW t \in Tap, Add(t) PROVE IInv'
<1> DEFINE f == Found(tap[t].session)
           row == WithItems(f.carts[f.use], f.carts[f.use].items \cup tap[t].item)
<1>1. f.use \in Cart
    BY DEF Add, CanAdd
<1>2. row \in CartRow
    <2>1. f.carts[f.use] \in CartRow /\ f.carts[f.use].items \cup tap[t].item \in SUBSET Item
        BY <1>1, FoundRow DEF CartRow, TapRow
    <2> QED  BY <2>1, WithItemsTyped
<1>3. cart' = [f.carts EXCEPT ![f.use] = row]
    BY DEF Add
<1> HIDE DEF row
<1> QED  BY <1>1, <1>2, <1>3, ChangeKeeps DEF Add

LEMMA RemoveKeeps == ASSUME IInv, NEW t \in Tap, Remove(t) PROVE IInv'
<1> DEFINE f == Found(tap[t].session)
           row == WithItems(f.carts[f.use], f.carts[f.use].items \ tap[t].item)
<1>1. f.use \in Cart
    BY DEF Remove, CanRemove
<1>2. row \in CartRow
    <2>1. f.carts[f.use] \in CartRow /\ f.carts[f.use].items \ tap[t].item \in SUBSET Item
        BY <1>1, FoundRow DEF CartRow
    <2> QED  BY <2>1, WithItemsTyped
<1>3. cart' = [f.carts EXCEPT ![f.use] = row]
    BY DEF Remove
<1> HIDE DEF row
<1> QED  BY <1>1, <1>2, <1>3, ChangeKeeps DEF Remove

LEMMA SwitchKeeps == ASSUME IInv, NEW t \in Tap, Switch(t) PROVE IInv'
<1> DEFINE f == Found(tap[t].session)
           c == [f.carts[f.use] EXCEPT !.channel = tap[t].channel,
                                       !.session = IF tap[t].channel = "table"
                                                   THEN tap[t].session ELSE 0]
           kept == c.items \cap SoldIn[c.channel]
           row == IF kept = c.items THEN c ELSE WithItems(c, kept)
<1>1. f.use \in Cart
    BY DEF Switch, CanSwitch
<1>2. row \in CartRow
    <2>1. f.carts[f.use] \in CartRow /\ tap[t] \in TapRow
        BY <1>1, FoundRow
    <2>2. c \in CartRow
        BY <2>1 DEF CartRow, TapRow
    <2> HIDE DEF c
    <2>3. kept \in SUBSET Item
        BY <2>2 DEF CartRow
    <2> QED  BY <2>2, <2>3, WithItemsTyped
<1>3. cart' = [f.carts EXCEPT ![f.use] = row]
    BY DEF Switch
<1> HIDE DEF row
<1> QED  BY <1>1, <1>2, <1>3, ChangeKeeps DEF Switch

\* To look at a cart: what is read is active, what is to be saved is aligned.
LEMMA LookKeeps ==
    ASSUME IInv, NEW t \in Tap, NEW kind \in {"view", "clear"}, NEW c \in Cart, Look(t, kind, c)
    PROVE  IInv'
<1> DEFINE aligned == Align(cart[c], session)
           run == [Idle EXCEPT !.kind = kind, !.cart = c, !.read = Head(cart[c]),
                               !.write = Head(aligned)]
<1>1. cart[c] \in CartRow /\ cart[c].status = "active" /\ session \in Nat
    BY DEF IInv, TypeOK, Look, Active
<1>2. aligned \in CartRow /\ aligned.status \in {"active", "abandoned"}
    BY <1>1, AlignTyped
<1> HIDE DEF aligned
<1>3. /\ Head(cart[c]) \in HeadRow /\ Head(cart[c]).status = "active"
      /\ Head(aligned) \in HeadRow /\ Head(aligned).status \in {"active", "abandoned"}
    BY <1>1, <1>2 DEF Head, HeadRow, CartRow
<1>4. /\ run \in TapRow /\ run.cart = c
      /\ run.read.status = "active" /\ run.write.status \in {"active", "abandoned"}
    BY <1>3, IdleTyped DEF TapRow
<1>5. tap' = [tap EXCEPT ![t] = run]
    BY DEF Look, aligned
<1> HIDE DEF run
<1>6. tap' \in [Tap -> TapRow]
    BY <1>4, <1>5 DEF IInv, TypeOK
<1>7. LookInv'
    BY <1>4, <1>5 DEF IInv, TypeOK, LookInv
<1>8. TypeOK'
    BY <1>6 DEF IInv, TypeOK, Look, guestVars
<1>9. \A d \in Cart : ~Open(d) => ~Open(d)'
    BY DEF Open, Look
<1>10. UNCHANGED order
    BY DEF Look
<1> QED  BY <1>7, <1>8, <1>9, <1>10, NoOrderKeeps

\* What a look saves never opens a cart again: it was open when it was read, and is given up.
LEMMA SavedTyped ==
    ASSUME IInv, NEW t \in Tap, tap[t].kind \in {"view", "clear", "cleared"}
    PROVE  /\ tap[t].cart \in Cart
           /\ Saved(t) \in CartRow
           /\ ~Open(tap[t].cart) => Saved(t).status \notin {"absent", "active"}
<1>1. /\ tap[t] \in TapRow
      /\ tap[t].cart \in Cart
      /\ tap[t].read.status = "active"
      /\ tap[t].write.status \in {"active", "abandoned"}
    BY DEF IInv, TypeOK, LookInv
<1>2. cart[tap[t].cart] \in CartRow
    BY <1>1 DEF IInv, TypeOK
<1>3. tap[t].write \in HeadRow
    BY <1>1 DEF TapRow
<1>4. Saved(t) \in CartRow
    BY <1>2, <1>3 DEF Saved, CartRow, HeadRow
<1>5. ~Open(tap[t].cart) => Saved(t).status \notin {"absent", "active"}
    BY <1>1, <1>2 DEF Saved, CartRow, Open
<1> QED  BY <1>1, <1>4, <1>5

LEMMA SaveKeeps ==
    ASSUME IInv, NEW t \in Tap, tap[t].kind \in {"view", "clear", "cleared"},
           NEW row \in CartRow, row.status = Saved(t).status,
           cart' = [cart EXCEPT ![tap[t].cart] = row],
           tap' = [tap EXCEPT ![t] = Idle],
           UNCHANGED <<order, guestVars>>
    PROVE  IInv'
<1>1. tap' \in [Tap -> TapRow] /\ LookInv'
    BY IdleTyped, TapTyped DEF IInv
<1>2. TypeOK'
    BY <1>1 DEF IInv, TypeOK, guestVars
<1>3. \A c \in Cart : ~Open(c) => ~Open(c)'
    <2>1. \A c \in Cart : cart'[c] = IF c = tap[t].cart THEN row ELSE cart[c]
        BY DEF IInv, TypeOK
    <2> QED  BY <2>1, SavedTyped DEF Open
<1> QED  BY <1>1, <1>2, <1>3, NoOrderKeeps

LEMMA ViewKeeps == ASSUME IInv, NEW t \in Tap, View(t) PROVE IInv'
BY SavedTyped, SaveKeeps DEF View

LEMMA ClearCommitKeeps == ASSUME IInv, NEW t \in Tap, ClearCommit(t) PROVE IInv'
<1> DEFINE row == [Saved(t) EXCEPT !.items = @ \ tap[t].item, !.total = 0]
<1>1. row \in CartRow /\ row.status = Saved(t).status
    <2>1. Saved(t) \in CartRow
        BY SavedTyped DEF ClearCommit
    <2> QED  BY <2>1 DEF CartRow
<1>2. cart' = [cart EXCEPT ![tap[t].cart] = row]
    BY DEF ClearCommit
<1> HIDE DEF row
<1> QED  BY <1>1, <1>2, SaveKeeps DEF ClearCommit

LEMMA ClearDeleteKeeps == ASSUME IInv, NEW t \in Tap, ClearDelete(t) PROVE IInv'
<1> DEFINE items == cart[tap[t].cart].items
           run == [tap[t] EXCEPT !.kind = "cleared", !.item = items]
<1>1. tap[t] \in TapRow /\ tap[t].kind = "clear"
    BY DEF IInv, TypeOK, ClearDelete
<1>2. items \in SUBSET Item
    BY <1>1, SavedTyped DEF IInv, TypeOK, CartRow
<1>3. /\ run \in TapRow /\ run.cart = tap[t].cart
      /\ run.read = tap[t].read /\ run.write = tap[t].write
    BY <1>1, <1>2 DEF TapRow
<1>4. tap' = [tap EXCEPT ![t] = run]
    BY <1>1 DEF ClearDelete, IInv, TypeOK
<1> HIDE DEF run
<1>5. tap' \in [Tap -> TapRow]
    BY <1>3, <1>4 DEF IInv, TypeOK
<1>6. LookInv'
    BY <1>1, <1>3, <1>4 DEF IInv, TypeOK, LookInv
<1>7. TypeOK'
    BY <1>5 DEF IInv, TypeOK, ClearDelete, guestVars
<1>8. \A d \in Cart : ~Open(d) => ~Open(d)'
    BY DEF Open, ClearDelete
<1>9. UNCHANGED order
    BY DEF ClearDelete
<1> QED  BY <1>6, <1>7, <1>8, <1>9, NoOrderKeeps

-----------------------------------------------------------------------------
(* The orders                                                              *)

\* A cart that is open becomes an order, at the amount its items cost less the bonuses.
LEMMA OrderKeeps ==
    ASSUME IInv, Placed # Order, NEW c \in Cart, Open(c), NEW row \in OrderRow, row.cart = c,
           row.shown = Worth[row.items] - row.bonus,
           order' = [order EXCEPT ![NextOrder] = row],
           \A d \in Cart : ~Open(d) => ~Open(d)',
           ~Open(c)', TypeOK', LookInv'
    PROVE  IInv'
<1> DEFINE n == NextOrder
<1>1. n \in Order /\ n \notin Placed
    BY DEF NextOrder, Placed
<1> HIDE DEF n
<1>2. order' = [order EXCEPT ![n] = row] /\ order \in [Order -> OrderRow]
    BY DEF n, IInv, TypeOK
<1>3. order'[n] = row /\ \A o \in Order : o # n => order'[o] = order[o]
    BY <1>1, <1>2
<1>4. Placed' = Placed \cup {n}
    BY <1>1, <1>3 DEF Placed
<1>5. \A o \in Placed : /\ o \in Order /\ o # n /\ order'[o] = order[o]
                        /\ order[o].cart \in Cart /\ order[o].cart # c
    BY <1>1, <1>2, <1>3 DEF Placed, OrderRow, IInv, OrderedInv
<1>6. OrderedInv'
    BY <1>3, <1>4, <1>5 DEF IInv, OrderedInv
<1>7. OneOrderPerCart'
    BY <1>3, <1>4, <1>5 DEF IInv, OneOrderPerCart
<1>8. ChargedAsShown'
    BY <1>3, <1>4, <1>5 DEF IInv, ChargedAsShown
<1> QED  BY <1>6, <1>7, <1>8 DEF IInv

\* An order at a table, before anything is paid.
LEMMA TableOrderTyped ==
    ASSUME NEW c \in Cart, NEW items \in SUBSET Item, NEW n \in Int
    PROVE  [NoOrder EXCEPT !.cart = c, !.items = items, !.shown = n] \in OrderRow
<1>1. NoOrder \in OrderRow
    BY DEF NoOrder, OrderRow, Channel
<1> QED  BY <1>1 DEF OrderRow

LEMMA CheckoutKeeps == ASSUME IInv, NEW t \in Tap, Checkout(t) PROVE IInv'
<1> DEFINE f == Found(tap[t].session)
<1>1. f.use \in Cart /\ Placed # Order
    BY DEF Checkout, CanCheckout
<1>2. PICK c \in Cart : c = f.use
    BY <1>1
<1> DEFINE items == f.carts[c].items
           done == [f.carts[c] EXCEPT !.status = "checked_out"]
           row == [NoOrder EXCEPT !.cart = c, !.items = items, !.shown = Worth[items]]
<1>3. tap[t].session \in Nat /\ f.carts \in [Cart -> CartRow] /\ Open(c)
    <2>1. tap[t].session \in Nat
        BY DEF IInv, TypeOK, TapRow
    <2> QED  BY <1>1, <1>2, <2>1, FoundCart DEF IInv
<1>4. /\ order' = [order EXCEPT ![NextOrder] = row]
      /\ cart' = [f.carts EXCEPT ![c] = done]
      /\ tap' = [tap EXCEPT ![t] = Idle]
      /\ UNCHANGED guestVars
    <2>1. [f.carts EXCEPT ![c].status = "checked_out"] = [f.carts EXCEPT ![c] = done]
        BY <1>3
    <2> QED  BY <1>2, <2>1 DEF Checkout
<1>5. items \in SUBSET Item /\ Worth[items] \in Nat
    BY <1>3 DEF CartRow
<1>6. done \in CartRow /\ done.status = "checked_out"
    BY <1>3 DEF CartRow, Status
<1>7. cart' \in [Cart -> CartRow] /\ \A d \in Cart : ~Open(d) => ~Open(d)'
    <2> HIDE DEF done
    <2> QED  BY <1>1, <1>2, <1>4, <1>6, FoundChanged
<1>8. ~Open(c)'
    <2> HIDE DEF f, done
    <2> QED  BY <1>3, <1>4, <1>6 DEF Open
<1> HIDE DEF f, items, done
<1>9. NoOrder \in OrderRow /\ NoOrder.bonus = 0
    BY DEF NoOrder, OrderRow, Channel
<1>10. row \in OrderRow /\ row.cart = c /\ row.shown = Worth[row.items] - row.bonus
    <2>1. row \in OrderRow
        <3> DEFINE n == Worth[items]
        <3>1. n \in Int
            BY <1>5
        <3>2. row = [NoOrder EXCEPT !.cart = c, !.items = items, !.shown = n]
            OBVIOUS
        <3> HIDE DEF n
        <3>3. [NoOrder EXCEPT !.cart = c, !.items = items, !.shown = n] \in OrderRow
            BY <1>5, <3>1, TableOrderTyped
        <3> HIDE DEF row
        <3> QED  BY <3>2, <3>3
    <2>2. row.cart = c /\ row.items = items /\ row.shown = Worth[items] /\ row.bonus = 0
        BY <1>9 DEF OrderRow
    <2> QED  BY <1>5, <2>1, <2>2
<1> HIDE DEF row
<1>11. tap' \in [Tap -> TapRow] /\ LookInv'
    BY <1>4, IdleTyped, TapTyped DEF IInv
<1>12. TypeOK'
    <2>1. NextOrder \in Order
        BY <1>1 DEF NextOrder, Placed
    <2>2. order' \in [Order -> OrderRow]
        BY <1>4, <1>10, <2>1 DEF IInv, TypeOK
    <2> QED  BY <1>4, <1>7, <1>11, <2>2 DEF IInv, TypeOK, guestVars
<1> QED  BY <1>1, <1>3, <1>4, <1>7, <1>8, <1>10, <1>11, <1>12, OrderKeeps

LEMMA RedeemableTyped ==
    ASSUME balance \in Int, NEW total \in Nat
    PROVE  Redeemable(total) \in Int /\ Redeemable(total) <= balance
<1> DEFINE share == (total * RedeemShare) \div 100
           S == {balance, share}
<1>1. total * RedeemShare \in Int
    OBVIOUS
<1>2. share \in Int
    BY <1>1
<1> HIDE DEF share
<1>3. \E x \in S : \A y \in S : x <= y
    <2>1. CASE balance <= share
        BY <1>2, <2>1
    <2>2. CASE share <= balance
        BY <1>2, <2>2
    <2> QED  BY <1>2, <2>1, <2>2
<1>4. Min(S) \in S /\ \A y \in S : Min(S) <= y
    <2> HIDE DEF S
    <2> QED  BY <1>3 DEF Min
<1>5. Redeemable(total) = Min(S)
    BY DEF Redeemable, share
<1> QED  BY <1>2, <1>4, <1>5

LEMMA PlaceKeeps == ASSUME IInv, NEW t \in Tap, NEW c \in Cart, Place(t, c) PROVE IInv'
<1> DEFINE s == tap[t].summary
           items == cart[c].items
           bonus == IF s.bonus THEN Redeemable(Worth[items]) ELSE 0
           done == [cart[c] EXCEPT !.status = "checked_out"]
           row == [channel |-> "pickup", cart |-> c, items |-> items, shown |-> s.toPay,
                   bonus |-> bonus]
<1>1. /\ s \in Summary /\ cart[c] \in CartRow /\ cart[c].status = "active"
      /\ balance \in Int /\ order \in [Order -> OrderRow] /\ Placed # Order
    BY DEF IInv, TypeOK, TapRow, Place, CanPlace, TakeAway, Active
<1>2. items \in SUBSET Item /\ Worth[items] \in Nat
    BY <1>1 DEF CartRow
<1>3. bonus \in Int
    BY <1>1, <1>2, RedeemableTyped DEF Summary
<1>4. s.toPay \in Int /\ s.toPay = Worth[items] - bonus
    BY <1>1 DEF Place, CanPlace, Summary
<1>5. /\ order' = [order EXCEPT ![NextOrder] = row]
      /\ cart' = [cart EXCEPT ![c] = done]
      /\ balance' = balance - bonus /\ summary' = NoSummary
      /\ tap' = [tap EXCEPT ![t] = Idle]
      /\ UNCHANGED <<session, sessions, elsewhere>>
    BY DEF Place
<1>6. done \in CartRow /\ done.status = "checked_out"
    BY <1>1 DEF CartRow, Status
<1> HIDE DEF s, items, bonus, done
<1>7. /\ row \in OrderRow /\ row.cart = c
      /\ row.shown = Worth[row.items] - row.bonus
    BY <1>2, <1>3, <1>4 DEF OrderRow, Channel
<1> HIDE DEF row
<1>8. \A d \in Cart : cart'[d] = IF d = c THEN done ELSE cart[d]
    BY <1>5 DEF IInv, TypeOK
<1>9. ~Open(c)' /\ \A d \in Cart : ~Open(d) => ~Open(d)'
    BY <1>6, <1>8 DEF Open
<1>10. tap' \in [Tap -> TapRow] /\ LookInv'
    BY <1>5, IdleTyped, TapTyped DEF IInv
<1>11. TypeOK'
    <2>1. NextOrder \in Order
        BY <1>1 DEF NextOrder, Placed
    <2>2. order' \in [Order -> OrderRow]
        BY <1>1, <1>5, <1>7, <2>1
    <2>3. cart' \in [Cart -> CartRow]
        BY <1>5, <1>6 DEF IInv, TypeOK
    <2>4. balance' \in Int /\ summary' \in Summary
        BY <1>1, <1>3, <1>5 DEF NoSummary, Summary
    <2> QED  BY <1>5, <1>10, <2>2, <2>3, <2>4 DEF IInv, TypeOK
<1>12. Open(c)
    BY <1>1 DEF Open
<1> QED  BY <1>1, <1>5, <1>7, <1>9, <1>10, <1>11, <1>12, OrderKeeps

\* What leaves the carts, the orders and the commands alone.
LEMMA QuietKeeps ==
    ASSUME IInv, UNCHANGED <<sessions, cart, order, tap>>, session' \in Nat, balance' \in Int,
           summary' \in Summary
    PROVE  IInv'
<1>1. TypeOK'
    BY DEF IInv, TypeOK
<1>2. LookInv'
    BY DEF IInv, LookInv
<1>3. \A d \in Cart : ~Open(d) => ~Open(d)'
    BY DEF Open
<1> QED  BY <1>1, <1>2, <1>3, NoOrderKeeps

LEMMA QuoteKeeps ==
    ASSUME IInv, NEW c \in Cart, NEW bonus \in BOOLEAN, Quote(c, bonus)
    PROVE  IInv'
<1>1. /\ cart[c] \in CartRow /\ cart[c].total \in Nat /\ balance \in Int /\ session \in Nat
    BY DEF IInv, TypeOK, CartRow
<1> DEFINE spent == IF bonus THEN Redeemable(cart[c].total) ELSE 0
<1>2. spent \in Int
    BY <1>1, RedeemableTyped
<1>3. /\ summary' = [bonus |-> bonus, total |-> cart[c].total, toPay |-> cart[c].total - spent]
      /\ UNCHANGED <<session, sessions, cart, order, balance, tap>>
    BY DEF Quote
<1> HIDE DEF spent
<1>4. summary' \in Summary
    BY <1>1, <1>2, <1>3 DEF Summary
<1> QED  BY <1>1, <1>3, <1>4, QuietKeeps

-----------------------------------------------------------------------------
(* Every step                                                              *)

LEMMA Inductive == IInv /\ [Next]_vars => IInv'
<1> SUFFICES ASSUME IInv, [Next]_vars
             PROVE  IInv'
    OBVIOUS
<1>1. session \in Nat /\ sessions \in Nat /\ balance \in Int /\ summary \in Summary
    BY DEF IInv, TypeOK
<1>2. ASSUME NEW t \in Tap, GuestNext(t)
      PROVE  IInv'
    <2>1. ASSUME NEW i \in Item, TapAdd(t, i) \/ TapRemove(t, i)
          PROVE  IInv'
        <3>1. {i} \in SUBSET Item /\ "table" \in Channel
            BY DEF Channel
        <3> QED  BY <2>1, <3>1, BeginKeeps DEF TapAdd, TapRemove
    <2>2. CASE TapSwitch(t) \/ TapCheckout(t)
        <3>1. {} \in SUBSET Item /\ "table" \in Channel /\ "pickup" \in Channel
            BY DEF Channel
        <3> QED  BY <2>2, <3>1, BeginKeeps DEF TapSwitch, TapCheckout
    <2>3. CASE TapPaid(t)
        BY <2>3, TapPaidKeeps
    <2>4. CASE Scan(t)
        BY <2>4, ScanKeeps
    <2>5. CASE Add(t)
        BY <2>5, AddKeeps
    <2>6. CASE Remove(t)
        BY <2>6, RemoveKeeps
    <2>7. CASE Switch(t)
        BY <2>7, SwitchKeeps
    <2>8. CASE Checkout(t)
        BY <2>8, CheckoutKeeps
    <2>9. CASE Fails(t)
        BY <2>9, FailsKeeps
    <2>10. CASE View(t)
        BY <2>10, ViewKeeps
    <2>11. CASE ClearDelete(t)
        BY <2>11, ClearDeleteKeeps
    <2>12. CASE ClearCommit(t)
        BY <2>12, ClearCommitKeeps
    <2>13. ASSUME NEW c \in Cart, Place(t, c)
           PROVE  IInv'
        BY <2>13, PlaceKeeps
    <2>14. ASSUME NEW c \in Cart, NEW kind \in {"view", "clear"}, Look(t, kind, c)
           PROVE  IInv'
        BY <2>14, LookKeeps
    <2> QED  BY <1>2, <2>1, <2>2, <2>3, <2>4, <2>5, <2>6, <2>7, <2>8, <2>9, <2>10, <2>11,
                <2>12, <2>13, <2>14 DEF GuestNext
<1>3. CASE Leave
    BY <1>1, <1>3, QuietKeeps DEF Leave
<1>4. ASSUME NEW n \in {-1, 1}, BonusesElsewhere(n)
      PROVE  IInv'
    BY <1>1, <1>4, QuietKeeps DEF BonusesElsewhere
<1>5. ASSUME NEW c \in Cart, NEW bonus \in BOOLEAN, Quote(c, bonus)
      PROVE  IInv'
    BY <1>5, QuoteKeeps
<1>6. CASE UNCHANGED vars
    BY <1>1, <1>6, QuietKeeps DEF vars
<1> QED  BY <1>2, <1>3, <1>4, <1>5, <1>6 DEF Next

LEMMA Invariance == Spec => []IInv
BY Initially, Inductive, PTL DEF Spec

-----------------------------------------------------------------------------
(* The bonuses                                                             *)

\* The bonuses of all orders together.
OnOrders(rows) == SumFunctionOnSet([o \in Order |-> rows[o].bonus], Order)

BonusInv ==
    /\ elsewhere \in Int
    /\ \A o \in Order : order[o].bonus \in Nat
    /\ \A o \in Order \ Placed : order[o].bonus = 0
    /\ BonusesKept

LEMMA OrderFinite == IsFiniteSet(Order)
BY FS_Interval

\* An order that is written adds its bonuses and takes away those that were there.
LEMMA OneOrderMore ==
    ASSUME NEW rows \in [Order -> OrderRow], NEW next \in [Order -> OrderRow], NEW n \in Order,
           \A o \in Order : rows[o].bonus \in Nat,
           next[n].bonus \in Nat, \A o \in Order : o # n => next[o] = rows[o]
    PROVE  /\ OnOrders(rows) \in Nat
           /\ OnOrders(next) = OnOrders(rows) - rows[n].bonus + next[n].bonus
<1> DEFINE old == [o \in Order |-> rows[o].bonus]
           new == [o \in Order |-> next[o].bonus]
           rest == Order \ {n}
<1>1. /\ \A o \in Order : old[o] \in Nat /\ new[o] \in Nat
      /\ \A o \in rest : new[o] = old[o]
      /\ old[n] = rows[n].bonus /\ new[n] = next[n].bonus
    OBVIOUS
<1>2. OnOrders(rows) = SumFunctionOnSet(old, Order) /\ OnOrders(next) = SumFunctionOnSet(new, Order)
    BY DEF OnOrders
<1>3. IsFiniteSet(Order) /\ IsFiniteSet(rest)
    BY OrderFinite, FS_Subset
<1> HIDE DEF old, new
<1>4. SumFunctionOnSet(old, rest) \in Nat /\ SumFunctionOnSet(old, Order) = old[n] + SumFunctionOnSet(old, rest)
    BY <1>1, <1>3, SumStep
<1>5. SumFunctionOnSet(new, Order) = new[n] + SumFunctionOnSet(new, rest)
    BY <1>1, <1>3, SumStep
<1>6. SumFunctionOnSet(new, rest) = SumFunctionOnSet(old, rest)
    <2>1. \A o \in rest : old[o] \in Nat /\ new[o] \in Nat /\ new[o] = old[o]
        BY <1>1
    <2> HIDE DEF rest
    <2> QED  BY <1>3, <2>1, SumSame
<1> HIDE DEF rest
<1> QED  BY <1>1, <1>2, <1>4, <1>5, <1>6

\* At the start no order has spent anything.
LEMMA BonusesInitially == Init => BonusInv
<1> SUFFICES ASSUME Init
             PROVE  BonusInv
    OBVIOUS
<1>1. order = [o \in Order |-> NoOrder] /\ balance = StartBalance /\ elsewhere = 0
    BY DEF Init
<1>2. \A o \in Order : order[o].bonus = 0
    BY <1>1 DEF NoOrder
<1>3. OnOrders(order) = 0
    <2> DEFINE f == [o \in Order |-> order[o].bonus]
    <2>1. \A o \in Order : f[o] = 0
        BY <1>2
    <2>2. OnOrders(order) = SumFunctionOnSet(f, Order)
        BY DEF OnOrders
    <2> HIDE DEF f
    <2>3. SumFunctionOnSet(f, Order) = SumFunctionOnSet(f, {})
        BY <2>1, OrderFinite, FS_EmptySet, SumSame
    <2>4. SumFunctionOnSet(f, {}) = Cardinality(Units(f, {}))
        BY FS_EmptySet, SumIsUnits
    <2>5. Units(f, {}) = {}
        BY DEF Units
    <2> QED  BY <2>2, <2>3, <2>4, <2>5, FS_EmptySet
<1>4. BonusesKept
    BY <1>1, <1>3 DEF BonusesKept, OnOrders
<1> QED  BY <1>1, <1>2, <1>4 DEF BonusInv

\* What spends no bonuses keeps them.
LEMMA BonusesStay ==
    ASSUME BonusInv, UNCHANGED <<order, balance, elsewhere>>
    PROVE  BonusInv'
BY DEF BonusInv, BonusesKept, Placed

\* An order is placed in a row that is free, and the balance goes down by what it spends.
LEMMA BonusesSpent ==
    ASSUME IInv, TypeOK', BonusInv, Placed # Order, NEW row, row.bonus \in Nat, row.bonus <= balance,
           row.cart # 0, order' = [order EXCEPT ![NextOrder] = row],
           balance' = balance - row.bonus, UNCHANGED elsewhere
    PROVE  BonusInv'
<1> DEFINE n == NextOrder
<1>1. n \in Order /\ n \notin Placed
    BY DEF NextOrder, Placed
<1> HIDE DEF n
<1>2. order'[n] = row /\ \A o \in Order : o # n => order'[o] = order[o]
    BY <1>1 DEF n, IInv, TypeOK
<1>3. order[n].bonus = 0 /\ \A o \in Order : order[o].bonus \in Nat
    BY <1>1 DEF BonusInv
<1>4. OnOrders(order) \in Nat /\ OnOrders(order') = OnOrders(order) - 0 + row.bonus
    <2>1. order'[n].bonus \in Nat
        BY <1>2
    <2>2. /\ OnOrders(order) \in Nat
          /\ OnOrders(order') = OnOrders(order) - order[n].bonus + order'[n].bonus
        <3>1. order \in [Order -> OrderRow] /\ order' \in [Order -> OrderRow]
            BY DEF IInv, TypeOK
        <3>2. n \in Order /\ \A o \in Order : order[o].bonus \in Nat
            BY <1>1, <1>3
        <3>3. \A o \in Order : o # n => order'[o] = order[o]
            BY <1>2
        <3> HIDE <1>1, <1>2, <1>3
        <3> QED  BY <2>1, <3>1, <3>2, <3>3, OneOrderMore
    <2>3. order[n].bonus = 0 /\ order'[n].bonus = row.bonus
        BY <1>2, <1>3
    <2> QED  BY <2>2, <2>3
<1>5. \A o \in Order : order'[o].bonus \in Nat
    BY <1>2, <1>3
<1>6. \A o \in Order \ Placed' : order'[o].bonus = 0
    <2> TAKE o \in Order \ Placed'
    <2>1. o # n /\ o \notin Placed
        BY <1>2 DEF Placed
    <2> QED  BY <1>2, <2>1 DEF BonusInv
<1>7. BonusesKept'
    <2>1. balance \in Int /\ balance >= 0 /\ elsewhere \in Int
          /\ balance + elsewhere + OnOrders(order) = StartBalance
        BY DEF BonusInv, BonusesKept, OnOrders, IInv, TypeOK
    <2>2. balance' >= 0 /\ balance' + elsewhere' + OnOrders(order') = StartBalance
        BY <1>4, <2>1
    <2> QED  BY <2>2 DEF BonusesKept, OnOrders
<1> QED  BY <1>5, <1>6, <1>7 DEF BonusInv

LEMMA BonusesPlaced ==
    ASSUME IInv, TypeOK', BonusInv, NEW t \in Tap, NEW c \in Cart, Place(t, c)
    PROVE  BonusInv'
<1> DEFINE s == tap[t].summary
           worth == Worth[cart[c].items]
           bonus == IF s.bonus THEN Redeemable(worth) ELSE 0
           row == [channel |-> "pickup", cart |-> c, items |-> cart[c].items, shown |-> s.toPay,
                   bonus |-> bonus]
<1>1. /\ order' = [order EXCEPT ![NextOrder] = row]
      /\ balance' = balance - bonus /\ UNCHANGED elsewhere
      /\ Placed # Order /\ (s.bonus => bonus > 0)
    BY DEF Place, CanPlace
<1>2. balance \in Int /\ balance >= 0 /\ worth \in Nat
    BY DEF IInv, TypeOK, CartRow, BonusInv, BonusesKept
<1> HIDE DEF worth
<1>3. bonus \in Int /\ bonus <= balance
    BY <1>2, RedeemableTyped
<1>4. bonus \in Nat
    BY <1>1, <1>3
<1> HIDE DEF s, bonus
<1>5. row.bonus = bonus /\ row.cart = c /\ c # 0
    OBVIOUS
<1> HIDE DEF row
<1> QED  BY <1>1, <1>3, <1>4, <1>5, BonusesSpent

LEMMA BonusesCheckedOut ==
    ASSUME IInv, TypeOK', BonusInv, NEW t \in Tap, Checkout(t)
    PROVE  BonusInv'
<1> DEFINE c == Found(tap[t].session).use
           items == Found(tap[t].session).carts[c].items
           row == [NoOrder EXCEPT !.cart = c, !.items = items, !.shown = Worth[items]]
<1>1. /\ order' = [order EXCEPT ![NextOrder] = row] /\ UNCHANGED <<balance, elsewhere>>
      /\ Placed # Order /\ c \in Cart
    BY DEF Checkout, CanCheckout, guestVars
<1> HIDE DEF c, items
<1>2. row.bonus = 0 /\ row.cart = c /\ c # 0
    BY <1>1 DEF NoOrder
<1> HIDE DEF row
<1>3. balance \in Int /\ balance >= 0
    BY DEF IInv, TypeOK, BonusInv, BonusesKept
<1>4. balance' = balance - row.bonus /\ row.bonus \in Nat /\ row.bonus <= balance
    BY <1>1, <1>2, <1>3
<1> QED  BY <1>1, <1>2, <1>4, BonusesSpent

LEMMA BonusesNext == IInv /\ BonusInv /\ [Next]_vars => BonusInv'
<1> SUFFICES ASSUME IInv, BonusInv, [Next]_vars
             PROVE  BonusInv'
    OBVIOUS
<1>0. TypeOK'
    BY Inductive DEF IInv
<1>1. ASSUME NEW t \in Tap, GuestNext(t)
      PROVE  BonusInv'
    <2>1. ASSUME NEW c \in Cart, Place(t, c)
          PROVE  BonusInv'
        BY <1>0, <2>1, BonusesPlaced
    <2>2. CASE Checkout(t)
        BY <1>0, <2>2, BonusesCheckedOut
    <2>3. ASSUME NEW i \in Item, TapAdd(t, i) \/ TapRemove(t, i)
          PROVE  BonusInv'
        BY <2>3, BonusesStay DEF TapAdd, TapRemove, guestVars
    <2>4. ASSUME TapSwitch(t) \/ TapCheckout(t) \/ TapPaid(t) \/ Scan(t)
          PROVE  BonusInv'
        BY <2>4, BonusesStay DEF TapSwitch, TapCheckout, TapPaid, Scan, guestVars
    <2>5. ASSUME Add(t) \/ Remove(t) \/ Switch(t) \/ Fails(t)
          PROVE  BonusInv'
        BY <2>5, BonusesStay DEF Add, Remove, Switch, Fails, guestVars
    <2>6. ASSUME View(t) \/ ClearDelete(t) \/ ClearCommit(t)
          PROVE  BonusInv'
        BY <2>6, BonusesStay DEF View, ClearDelete, ClearCommit, guestVars
    <2>7. ASSUME NEW c \in Cart, NEW kind \in {"view", "clear"}, Look(t, kind, c)
          PROVE  BonusInv'
        BY <2>7, BonusesStay DEF Look, guestVars
    <2> QED  BY <1>1, <2>1, <2>2, <2>3, <2>4, <2>5, <2>6, <2>7 DEF GuestNext
<1>2. CASE Leave
    BY <1>2, BonusesStay DEF Leave
<1>3. ASSUME NEW n \in {-1, 1}, BonusesElsewhere(n)
      PROVE  BonusInv'
    <2>1. /\ balance \in Int /\ elsewhere \in Int /\ OnOrders(order) \in Nat
          /\ balance + elsewhere + OnOrders(order) = StartBalance
        <3>1. OnOrders(order) \in Nat
            <4> DEFINE f == [o \in Order |-> order[o].bonus]
            <4>1. \A o \in Order : f[o] \in Nat
                BY DEF BonusInv
            <4> HIDE DEF f
            <4>2. SumFunctionOnSet(f, Order) \in Nat
                BY <4>1, OrderFinite, SumIsUnits, FS_CardinalityType
            <4> QED  BY <4>2 DEF OnOrders, f
        <3> QED  BY <3>1 DEF IInv, TypeOK, BonusInv, BonusesKept, OnOrders
    <2>2. balance' = balance + n /\ elsewhere' = elsewhere - n /\ balance + n >= 0
          /\ UNCHANGED order
        BY <1>3 DEF BonusesElsewhere
    <2>3. balance' >= 0 /\ elsewhere' \in Int
          /\ balance' + elsewhere' + OnOrders(order) = StartBalance
        BY <2>1, <2>2
    <2> QED  BY <2>2, <2>3 DEF BonusInv, BonusesKept, OnOrders, Placed
<1>4. ASSUME NEW c \in Cart, NEW bonus \in BOOLEAN, Quote(c, bonus)
      PROVE  BonusInv'
    BY <1>4, BonusesStay DEF Quote
<1>5. CASE UNCHANGED vars
    BY <1>5, BonusesStay DEF vars
<1> QED  BY <1>1, <1>2, <1>3, <1>4, <1>5 DEF Next

-----------------------------------------------------------------------------
(* The theorems                                                            *)

\* One cart, one order: from however many taps and devices it is checked out or paid.
THEOREM CartOrderedOnce == Spec => []OneOrderPerCart
<1>1. IInv => OneOrderPerCart
    BY DEF IInv
<1> QED  BY Invariance, <1>1, PTL

\* A prepaid order is placed for the amount its guest was shown.
THEOREM PrepaidAsShown == Spec => []ChargedAsShown
<1>1. IInv => ChargedAsShown
    BY DEF IInv
<1> QED  BY Invariance, <1>1, PTL

\* Whatever the guest orders and other bills take or give back meanwhile, no order spends bonuses
\* the guest does not have, and the balance goes down by what the orders have spent.
THEOREM OrdersKeepBonuses == Spec => []BonusesKept
<1>1. IInv /\ BonusInv /\ [Next]_vars => BonusInv'
    BY BonusesNext
<1>2. Init => BonusInv
    BY BonusesInitially
<1>3. BonusInv => BonusesKept
    BY DEF BonusInv
<1> QED  BY <1>1, <1>2, <1>3, Invariance, PTL DEF Spec
=============================================================================
