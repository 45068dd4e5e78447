--------------------------- MODULE QuickSaleProofs ---------------------------
(***************************************************************************)
(* Theorems about QuickSale, for any cashiers and guests, finitely many    *)
(* items and programs, and any number of sales, cards and handlers.        *)
(***************************************************************************)
EXTENDS QuickSale, FiniteSetTheorems, SequenceTheorems, TLAPS

(* What each program has awarded today is counted; nobody has the visit    *)
(* bonus of a program twice.                                               *)
TodayType == today \in [Guests -> [Programs -> Nat]]

IInv == TodayType /\ VisitBonusOnce

-----------------------------------------------------------------------------
(* What a visit program that has awarded the guest today awards: nothing.  *)
(* The transaction reads it after it has locked the guest                  *)
(* (apps/bonuses/strategies.py _visit_bonus).                              *)
LEMMA NoSecondVisit ==
  ASSUME NEW p \in Programs, NEW g \in Guests, NEW total, NEW spent,
         p.kind = "visit", p.oncePerDay, today[g][p] > 0
  PROVE  Award(p, g, total, spent) = 0
<1> DEFINE none == {0, 0}
<1>1. Strategy(p, g, total, spent) = 0
  BY DEF Strategy, Visit
<1>2. Max(none) = 0
  BY DEF Max
<1> QED  BY <1>1, <1>2 DEF Award

(* The registration of a sale to a guest keeps it.                         *)
LEMMA RegisterKeeps ==
  ASSUME IInv, NEW t, t.customer \in Guests, RegisterForGuest(t)
  PROVE  IInv'
<1> DEFINE g == t.customer
           more(p) == IF Awards(t)[p] > 0 THEN 1 ELSE 0
<1>1. /\ today \in [Guests -> [Programs -> Nat]]
      /\ today' = [today EXCEPT ![g] = [p \in Programs |-> @[p] + more(p)]]
  BY DEF IInv, TodayType, RegisterForGuest
<1>2. \A p \in Programs : more(p) \in {0, 1}
  OBVIOUS
<1>3. \A p \in Programs : today'[g][p] = today[g][p] + more(p)
  BY <1>1
<1>4. \A h \in Guests \ {g} : today'[h] = today[h]
  BY <1>1
<1>5. TodayType'
  <2> HIDE DEF more
  <2> QED  BY <1>1, <1>2 DEF TodayType
<1>6. VisitBonusOnce'
  <2> SUFFICES ASSUME NEW h \in Guests, NEW p \in Programs, p.kind = "visit", p.oncePerDay
               PROVE  today'[h][p] <= 1
    BY DEF VisitBonusOnce
  <2>1. today[h][p] <= 1 /\ today[h][p] \in Nat
    BY <1>1 DEF IInv, VisitBonusOnce
  <2>2. CASE h # g
    BY <2>1, <2>2, <1>4
  <2>3. CASE h = g /\ today[g][p] = 0
    <3> HIDE DEF more
    <3> QED  BY <2>3, <1>2, <1>3
  <2>4. CASE h = g /\ today[g][p] > 0
    <3>1. Awards(t)[p] = 0
      BY <2>4, NoSecondVisit DEF Awards
    <3>2. more(p) = 0
      BY <3>1
    <3> HIDE DEF more
    <3> QED  BY <2>1, <2>4, <3>2, <1>3
  <2> HIDE DEF g
  <2> QED  BY <2>1, <2>2, <2>3, <2>4
<1> QED  BY <1>5, <1>6 DEF IInv

LEMMA Initially == Init => IInv
BY DEF Init, IInv, TodayType, VisitBonusOnce

(* Nothing else awards bonuses; midnight starts the count anew.            *)
LEMMA Inductive == IInv /\ [Next]_vars => IInv'
<1> SUFFICES ASSUME IInv, [Next]_vars
             PROVE  IInv'
  OBVIOUS
<1>1. CASE UNCHANGED today
  BY <1>1 DEF IInv, TodayType, VisitBonusOnce
<1>2. CASE Midnight
  BY <1>2 DEF Midnight, IInv, TodayType, VisitBonusOnce
<1>3. ASSUME NEW u \in Updates, Register(u)
      PROVE  IInv'
  <2>1. CASE updates[u].customer = Anonymous
    BY <1>1, <1>3, <2>1 DEF Register, RegisterAnonymous
  <2>2. CASE updates[u].customer # Anonymous
    <3>1. RegisterForGuest(updates[u])
      BY <1>3, <2>2 DEF Register
    <3>2. CASE updates[u].customer \in Guests
      BY <3>1, <3>2, RegisterKeeps
    <3>3. CASE updates[u].customer \notin Guests
      BY <1>1, <3>1, <3>3 DEF RegisterForGuest, IInv, TodayType
    <3> QED  BY <3>2, <3>3
  <2> QED  BY <2>1, <2>2
<1>4. ASSUME NEW c \in Cashiers, Talks(c)
      PROVE  UNCHANGED today
  BY <1>4 DEF Talks, Start, ChangeCustomer, AskComment, Cancel, SendCode, TapAnonymous,
              AskedForCode, SendComment, Tap, TapItem, TapConfirm, Begin, accounts
<1>5. ASSUME NEW u \in Updates, Handler(u), ~Register(u)
      PROVE  UNCHANGED today
  BY <1>5 DEF Handler, Fresh, SendCard, ToggleRedeem, ClearItems, DrawAgain, AddItem,
              SubItem, KeepComment, Written, Preview, Done, accounts
<1>6. ASSUME NEW i \in Items, TakeOff(i) \/ \E price \in Prices : ChangeMenu(i, price)
      PROVE  UNCHANGED today
  BY <1>6 DEF TakeOff, ChangeMenu, accounts
<1>7. CASE UNCHANGED vars
  BY <1>1, <1>7 DEF vars
<1> QED  BY <1>1, <1>2, <1>3, <1>4, <1>5, <1>6, <1>7 DEF Next

(* A guest gets the bonus of a visit program once a day, whatever cashiers *)
(* do at the same time (apps/bonuses/services.py register_walk_in_sale).   *)
THEOREM VisitBonusIsOnce == Spec => []VisitBonusOnce
<1>1. IInv => VisitBonusOnce
  BY DEF IInv
<1> QED  BY Initially, Inductive, <1>1, PTL DEF Spec

-----------------------------------------------------------------------------
(* Sums over finite sets: an element x worth f[x] stands for f[x] units,   *)
(* and a sum is a number of units.                                         *)
Units(f, S) == UNION {{x} \X (1..f[x]) : x \in S}

(* One element counts as many units as it is worth.                        *)
LEMMA UnitsOfOne ==
  ASSUME NEW x, NEW n \in Nat
  PROVE IsFiniteSet({x} \X (1..n)) /\ Cardinality({x} \X (1..n)) = n
<1>1. IsFiniteSet({x}) /\ Cardinality({x}) = 1
  BY FS_Singleton
<1>2. IsFiniteSet(1..n) /\ Cardinality(1..n) = n
  BY FS_Interval
<1> DEFINE I == 1..n
<1> HIDE DEF I
<1>3. IsFiniteSet({x} \X I) /\ Cardinality({x} \X I) = Cardinality({x}) * Cardinality(I)
  BY <1>1, <1>2, FS_Product DEF I
<1> QED BY <1>1, <1>2, <1>3 DEF I

(* An element adds the units it is worth.                                  *)
LEMMA UnitsAdd ==
  ASSUME NEW f, NEW S, NEW x \in S, f[x] \in Nat, IsFiniteSet(Units(f, S \ {x}))
  PROVE  /\ IsFiniteSet(Units(f, S))
         /\ Cardinality(Units(f, S)) = f[x] + Cardinality(Units(f, S \ {x}))
<1> DEFINE one == {x} \X (1..f[x])
           rest == Units(f, S \ {x})
<1>1. IsFiniteSet(one) /\ Cardinality(one) = f[x]
  BY UnitsOfOne
<1>2. Units(f, S) = rest \cup one /\ rest \cap one = {}
  BY DEF Units
<1>3. IsFiniteSet(rest) /\ Cardinality(rest) \in Nat /\ Cardinality({}) = 0
  BY FS_CardinalityType, FS_EmptySet
<1> HIDE DEF one, rest
<1>4. /\ IsFiniteSet(rest \cup one)
      /\ Cardinality(rest \cup one) = Cardinality(rest) + Cardinality(one) - Cardinality(rest \cap one)
  BY <1>1, <1>3, FS_Union
<1>5. Cardinality(rest \cap one) = 0
  BY <1>2, <1>3
<1>6. Cardinality(rest \cup one) = f[x] + Cardinality(rest)
  <2> HIDE <1>2
  <2> QED  BY <1>1, <1>3, <1>4, <1>5
<1> QED
  BY <1>2, <1>4, <1>6 DEF rest

(* A set of subsets of a finite set has one that contains no other: the    *)
(* induction on finite sets.                                               *)
LEMMA FiniteMinimal ==
  ASSUME NEW S, IsFiniteSet(S), NEW T, T \subseteq SUBSET S, T # {}
  PROVE  \E s \in T : \A r \in T : r \subseteq s => r = s
<1>1. IsWellFoundedOn(StrictSubsetOrdering(S), FiniteSubsetsOf(S)) /\ FiniteSubsetsOf(S) = SUBSET S
  BY FS_StrictSubsetOrderingWellFounded, FS_FiniteSubsetsOfFinite
<1>2. PICK s \in T : \A r \in T : <<r, s>> \notin StrictSubsetOrdering(S)
  BY <1>1, WFMin
<1> QED
  BY <1>2 DEF StrictSubsetOrdering

(* The fold of the model adds up the units: the cardinality solves its     *)
(* recursion.                                                              *)
LEMMA SumIsUnits ==
  ASSUME NEW S, IsFiniteSet(S), NEW f, \A x \in S : f[x] \in Nat
  PROVE  IsFiniteSet(Units(f, S)) /\ SumFunctionOnSet(f, S) = Cardinality(Units(f, S))
<1> DEFINE x(s) == CHOOSE y \in s : TRUE
           step(g) == [s \in SUBSET S |-> IF s = {} THEN 0 ELSE f[x(s)] + g[s \ {x(s)}]]
           iter == CHOOSE g : g = step(g)
           size == [s \in SUBSET S |-> Cardinality(Units(f, s))]
<1>1. \A s \in SUBSET S : s # {} => x(s) \in s
  OBVIOUS
<1>2. \A s \in SUBSET S : IsFiniteSet(Units(f, s))
  <2> DEFINE Bad == {s \in SUBSET S : ~IsFiniteSet(Units(f, s))}
  <2> SUFFICES ASSUME Bad # {} PROVE FALSE
    OBVIOUS
  <2>0. Bad \subseteq SUBSET S
    OBVIOUS
  <2>1. PICK s \in Bad : \A r \in Bad : r \subseteq s => r = s
    <3> HIDE DEF Bad
    <3> QED  BY <2>0, FiniteMinimal
  <2>2. CASE s = {}
    BY <2>1, <2>2, FS_EmptySet DEF Units
  <2>3. CASE s # {}
    <3>1. PICK y \in s : TRUE
      BY <2>3
    <3>2. s \ {y} \notin Bad /\ s \ {y} \in SUBSET S
      BY <2>1, <3>1
    <3> QED  BY <2>1, <3>1, <3>2, UnitsAdd
  <2> QED  BY <2>2, <2>3
<1>3. ASSUME NEW s \in SUBSET S
      PROVE  size[s] = IF s = {} THEN 0 ELSE f[x(s)] + size[s \ {x(s)}]
  <2>1. CASE s = {}
    BY <2>1, FS_EmptySet DEF Units
  <2>2. CASE s # {}
    <3> DEFINE y == x(s)
    <3>1. y \in s /\ f[y] \in Nat /\ s \ {y} \in SUBSET S
      BY <1>1, <2>2
    <3> HIDE DEF y
    <3>2. Cardinality(Units(f, s)) = f[y] + Cardinality(Units(f, s \ {y}))
      <4>1. IsFiniteSet(Units(f, s \ {y}))
        BY <1>2, <3>1
      <4> QED  BY <3>1, <4>1, UnitsAdd
    <3>3. size[s] = f[y] + size[s \ {y}]
      BY <3>1, <3>2
    <3> QED  BY <2>2, <3>3 DEF y
  <2> QED  BY <2>1, <2>2
<1>4. size = step(size)
  <2> HIDE DEF x
  <2> DEFINE rhs == step(size)
  <2>1. rhs = [s \in SUBSET S |-> IF s = {} THEN 0 ELSE f[x(s)] + size[s \ {x(s)}]]
    OBVIOUS
  <2>2. size = [s \in SUBSET S |-> size[s]]
    OBVIOUS
  <2> HIDE DEF size
  <2> QED  BY <1>3, <2>1, <2>2
<1>5. iter = step(iter)
  <2> HIDE DEF step, size
  <2> QED  BY <1>4
<1>6. SumFunctionOnSet(f, S) = iter[S]
  BY DEF SumFunctionOnSet, FoldFunctionOnSet, MapThenFoldSet
<1>7. iter[S] = size[S]
  <2> DEFINE Bad == {s \in SUBSET S : iter[s] # size[s]}
  <2> SUFFICES ASSUME Bad # {} PROVE FALSE
    OBVIOUS
  <2> HIDE DEF iter
  <2>0. Bad \subseteq SUBSET S
    OBVIOUS
  <2>1. PICK s \in Bad : \A r \in Bad : r \subseteq s => r = s
    <3> HIDE DEF Bad
    <3> QED  BY <2>0, FiniteMinimal
  <2>2. iter[s] = IF s = {} THEN 0 ELSE f[x(s)] + iter[s \ {x(s)}]
    <3> HIDE DEF x, size
    <3> QED BY <1>5
  <2>3. size[s] = IF s = {} THEN 0 ELSE f[x(s)] + size[s \ {x(s)}]
    BY <1>3
  <2>4. s # {} => s \ {x(s)} \notin Bad /\ s \ {x(s)} \in SUBSET S
    <3> HIDE DEF size
    <3> QED BY <1>1, <2>1
  <2> HIDE DEF x, size
  <2> QED  BY <2>1, <2>2, <2>3, <2>4
<1> HIDE DEF iter
<1> QED
  BY <1>2, <1>6, <1>7

(* A sum of natural numbers is one.                                        *)
LEMMA SumNat ==
  ASSUME NEW S, IsFiniteSet(S), NEW f, \A x \in S : f[x] \in Nat
  PROVE  SumFunctionOnSet(f, S) \in Nat
BY SumIsUnits, FS_CardinalityType

-----------------------------------------------------------------------------
(* The amounts.                                                            *)

LEMMA PercentType ==
  ASSUME NEW x \in Int, NEW percent \in Int
  PROVE  /\ Percent(x, percent) \in Int
         /\ x >= 0 /\ percent >= 0 => Percent(x, percent) >= 0
<1> DEFINE n == x * percent
<1>1. n \in Int
  OBVIOUS
<1>2. x >= 0 /\ percent >= 0 => n >= 0
  OBVIOUS
<1>3. Percent(x, percent) =
        IF n % 10000 > 5000 \/ (n % 10000 = 5000 /\ (n \div 10000) % 2 = 1)
        THEN (n \div 10000) + 1 ELSE n \div 10000
  BY DEF Percent
<1> HIDE DEF n
<1> QED  BY <1>1, <1>2, <1>3

LEMMA MaxOfTwo ==
  ASSUME NEW x \in Int
  PROVE  Max({0, x}) = IF x > 0 THEN x ELSE 0
BY DEF Max

(* The greatest share is one of a program, or none; the programs are       *)
(* finite.                                                                 *)
LEMMA ShareType == MaxRedeemShare \in Nat
<1> DEFINE Shares(s) == {p.share : p \in s} \cup {0}
           Greatest(m, s) == m \in Shares(s) /\ \A y \in Shares(s) : m >= y
           Bad == {s \in SUBSET Programs : ~\E m \in Int : Greatest(m, s)}
<1>1. \A p \in Programs : p.share \in Int
  BY VenueAssumption
<1>2. Bad = {}
  <2> SUFFICES ASSUME Bad # {} PROVE FALSE
    OBVIOUS
  <2>1. PICK s \in Bad : \A r \in Bad : r \subseteq s => r = s
    <3>1. Bad \subseteq SUBSET Programs
      OBVIOUS
    <3> HIDE DEF Bad
    <3> QED  BY <3>1, FiniteMinimal, VenueAssumption
  <2>2. CASE s = {}
    <3>1. Greatest(0, s)
      BY <2>2
    <3> QED  BY <2>1, <3>1
  <2>3. CASE s # {}
    <3>1. PICK p \in s : TRUE
      BY <2>3
    <3>2. s \ {p} \notin Bad /\ s \ {p} \in SUBSET Programs /\ p.share \in Int
      BY <1>1, <2>1, <3>1
    <3>3. PICK m \in Int : Greatest(m, s \ {p})
      BY <3>2
    <3>4. Shares(s) = Shares(s \ {p}) \cup {p.share}
      BY <3>1
    <3>5. \A y \in Shares(s \ {p}) : y \in Int
      BY <1>1, <2>1
    <3> HIDE DEF Shares
    <3>6. CASE m >= p.share
      <4>1. Greatest(m, s)
        BY <3>2, <3>3, <3>4, <3>5, <3>6
      <4> QED  BY <2>1, <4>1
    <3>7. CASE ~(m >= p.share)
      <4>1. ASSUME NEW y \in Shares(s \ {p})
            PROVE  p.share >= y
        <5>1. y \in Int /\ m >= y
          BY <3>3, <3>5
        <5> QED  BY <3>2, <3>3, <3>7, <5>1
      <4>2. p.share \in Shares(s) /\ p.share >= p.share
        BY <3>2, <3>4
      <4>3. \A y \in Shares(s) : p.share >= y
        BY <3>4, <4>1, <4>2
      <4>4. Greatest(p.share, s)
        BY <4>2, <4>3
      <4> QED  BY <2>1, <3>2, <4>4
    <3> QED  BY <3>6, <3>7
  <2> QED  BY <2>2, <2>3
<1>3. PICK m \in Int : Greatest(m, Programs)
  BY <1>2
<1>4. MaxRedeemShare = CHOOSE x \in Shares(Programs) : \A y \in Shares(Programs) : x >= y
  BY DEF MaxRedeemShare, Max
<1>5. Greatest(MaxRedeemShare, Programs)
  <2> HIDE DEF Shares
  <2> QED  BY <1>3, <1>4
<1>6. 0 \in Shares(Programs) /\ \A y \in Shares(Programs) : y \in Int
  BY <1>1
<1> HIDE DEF Shares
<1> QED  BY <1>5, <1>6

(* What can be redeemed is held, and within the share of the price.        *)
LEMMA RedeemableBounds ==
  ASSUME NEW g \in Guests, balance[g] \in Nat, NEW total \in Nat
  PROVE  /\ Redeemable(g, total) \in Nat
         /\ Redeemable(g, total) <= balance[g]
         /\ Redeemable(g, total) <= Percent(total, MaxRedeemShare)
<1> DEFINE share == Percent(total, MaxRedeemShare)
           b == balance[g]
<1>1. share \in Nat
  <2>1. MaxRedeemShare \in Int /\ MaxRedeemShare >= 0 /\ total \in Int /\ total >= 0
    BY ShareType
  <2> HIDE DEF share
  <2>2. Percent(total, MaxRedeemShare) \in Int /\ Percent(total, MaxRedeemShare) >= 0
    BY <2>1, PercentType
  <2> QED  BY <2>2 DEF share
<1>2. Redeemable(g, total) = IF MaxRedeemShare = 0 THEN 0 ELSE Min({b, share, total})
  BY DEF Redeemable
<1> HIDE DEF share, b
<1>3. b \in Nat => /\ Min({b, share, total}) \in Nat
                   /\ Min({b, share, total}) <= b
                   /\ Min({b, share, total}) <= share
  <2> HAVE b \in Nat
  <2> DEFINE Three == {b, share, total}
  <2>1. \E x \in Three : \A y \in Three : x =< y
    <3>1. CASE b <= share /\ b <= total
      BY <1>1, <3>1
    <3>2. CASE share <= b /\ share <= total
      BY <1>1, <3>2
    <3>3. CASE total <= b /\ total <= share
      BY <1>1, <3>3
    <3> QED  BY <1>1, <3>1, <3>2, <3>3
  <2>2. Min(Three) \in Three /\ \A y \in Three : Min(Three) <= y
    <3> HIDE DEF Three
    <3> QED  BY <2>1 DEF Min
  <2> QED  BY <1>1, <2>2
<1> QED  BY <1>1, <1>2, <1>3 DEF share, b

(* A program awards nothing below zero.                                    *)
LEMMA AwardType ==
  ASSUME NEW p \in Programs, NEW g \in Guests, NEW total \in Int, NEW spent \in Int
  PROVE  Award(p, g, total, spent) \in Nat
<1> DEFINE amount == Strategy(p, g, total, spent)
<1>0. p \in [kind : {"cashback", "visit", "milestone"}, percent : Int,
             least : Int, base : {"full_total", "money_paid"}, fixed : Int,
             oncePerDay : BOOLEAN, share : Int]
  BY VenueAssumption
<1>1. amount \in Int
  <2>1. CASE p.kind = "cashback"
    <3>1. Max({0, total - spent}) \in Int
      BY MaxOfTwo
    <3>2. Percent(Max({0, total - spent}), p.percent) \in Int
      BY <1>0, <3>1, PercentType
    <3>3. Percent(total, p.percent) \in Int
      BY <1>0, PercentType
    <3>4. amount = Cashback(p, total, spent)
      BY <2>1 DEF Strategy
    <3> QED  BY <3>2, <3>3, <3>4 DEF Cashback
  <2>2. CASE p.kind = "visit"
    BY <1>0, <2>2 DEF Strategy, Visit
  <2>3. CASE p.kind = "milestone"
    BY <2>3 DEF Strategy
  <2> QED  BY <1>0, <2>1, <2>2, <2>3
<1> HIDE DEF amount
<1>2. Max({0, amount}) \in Nat
  BY <1>1, MaxOfTwo
<1> QED  BY <1>2 DEF Award, amount

-----------------------------------------------------------------------------
(* The conversations, as far as a sale depends on them: what a cashier     *)
(* composes, what a handler knows of it, and the prices.                   *)

Customer == Guests \cup {Anonymous}
Draft == [customer : Customer \cup {Unset}, items : [Items -> Nat],
          redeem : BOOLEAN, card : Nat]
Button == ({"add", "sub"} \X Items)
          \cup {<<"category">>, <<"change_customer">>, <<"comment">>, <<"comment_clear">>,
                <<"clear">>, <<"cancel">>, <<"redeem">>, <<"confirm">>}
Menus == UNION {[S -> Nat] : S \in SUBSET Items}

Edits == {"redeem", "clear", "draw", "say", "add", "sub"}

(* what a handler keeps over its wait *)
HandlerType(t) ==
  /\ t.kind \in {"code", "send"} =>
       t \in [kind : {"code", "send"}, cashier : Cashiers, customer : Customer]
  /\ t.kind \in Edits \cup {"confirm"} => t.cashier \in Cashiers /\ t.draft \in Draft
  /\ t.kind \in {"add", "sub"} => t.item \in Items
  /\ t.kind = "confirm" => t.draft.customer \in Customer
  /\ t.kind = "register" => /\ t.cashier \in Cashiers /\ t.customer \in Customer
                            /\ t.redeem \in BOOLEAN /\ t.total \in Nat
  /\ t.kind = "sold" => t.cashier \in Cashiers

UpdatesInv == DOMAIN updates = Updates /\ \A u \in Updates : HandlerType(updates[u])
CardsInv == /\ draft \in [Cashiers -> Draft]
            /\ chat \in [Cashiers -> Seq(SUBSET Button)]
TalkInv == CardsInv /\ UpdatesInv /\ menu \in Menus

LEMMA DraftType == NoDraft \in Draft
BY DEF NoDraft, Draft

(* What a draft costs is a natural number: only what is on the menu is     *)
(* counted.                                                                *)
LEMMA TotalType ==
  ASSUME menu \in Menus, NEW d \in Draft, Sellable(d)
  PROVE  Total(d) \in Nat
<1> DEFINE S == Payload(d)
           f == [i \in S |-> menu[i] * d.items[i]]
<1>1. IsFiniteSet(S)
  BY VenueAssumption, FS_Subset DEF Payload
<1>2. \A i \in S : menu[i] \in Nat /\ d.items[i] \in Nat
  BY DEF Menus, Draft, Sellable, Payload
<1>3. \A i \in S : f[i] \in Nat
  <2> HIDE DEF S
  <2> SUFFICES ASSUME NEW i \in S PROVE menu[i] * d.items[i] \in Nat
    OBVIOUS
  <2> QED  BY <1>2
<1>4. Total(d) = SumFunctionOnSet(f, S)
  BY DEF Total
<1> HIDE DEF f, S
<1> QED  BY <1>1, <1>3, <1>4, SumNat

LEMMA SaleCardType ==
  ASSUME menu \in Menus, NEW d
  PROVE  SaleCard(d) \in SUBSET Button
<1>1. DOMAIN menu \subseteq Items /\ Payload(d) \subseteq Items
  BY DEF Menus, Payload
<1> QED  BY <1>1 DEF SaleCard, Button

(* An edit of one key of a draft.                                          *)
LEMMA WrittenKeeps ==
  ASSUME TalkInv, NEW u \in Updates, updates[u].kind \in Edits, NEW key, NEW value,
         Written(u, key, value),
         \/ key = "redeem" /\ value \in BOOLEAN
         \/ key = "items" /\ value \in [Items -> Nat]
         \/ key = "card" /\ value \in Nat
  PROVE  TalkInv'
<1> DEFINE t == updates[u]
           c == t.cashier
           d == [t.draft EXCEPT ![key] = value]
<1>1. c \in Cashiers /\ t.draft \in Draft
  BY DEF TalkInv, UpdatesInv, HandlerType
<1>2. d \in Draft /\ d.card \in Nat
  BY <1>1 DEF Draft
<1>3. \/ UNCHANGED <<chat, draft>>
      \/ /\ chat' = [chat EXCEPT ![c][d.card] = SaleCard(d)]
         /\ draft' = [draft EXCEPT ![c][key] = value, ![c].card = d.card]
  BY DEF Written
<1>4. SaleCard(d) \in SUBSET Button
  BY SaleCardType DEF TalkInv
<1> HIDE DEF d
<1>5. chat' \in [Cashiers -> Seq(SUBSET Button)]
  <2>1. CASE UNCHANGED chat
    BY <2>1 DEF TalkInv, CardsInv
  <2>2. CASE chat' = [chat EXCEPT ![c][d.card] = SaleCard(d)]
    <3>1. chat \in [Cashiers -> Seq(SUBSET Button)]
      BY DEF TalkInv, CardsInv
    <3>2. chat[c] \in Seq(SUBSET Button)
      BY <1>1, <3>1
    <3>3. [chat[c] EXCEPT ![d.card] = SaleCard(d)] \in Seq(SUBSET Button)
      <4>1. CASE d.card \in 1..Len(chat[c])
        BY <1>4, <3>2, <4>1, ExceptSeq
      <4>2. CASE d.card \notin 1..Len(chat[c])
        <5>1. DOMAIN chat[c] = 1..Len(chat[c]) /\ chat[c] = [k \in DOMAIN chat[c] |-> chat[c][k]]
          BY <3>2, LenProperties
        <5>2. [chat[c] EXCEPT ![d.card] = SaleCard(d)] = chat[c]
          BY <4>2, <5>1
        <5> QED  BY <3>2, <5>2
      <4> QED  BY <4>1, <4>2
    <3> HIDE DEF c
    <3> QED  BY <1>1, <2>2, <3>1, <3>3
  <2> QED  BY <1>3, <2>1, <2>2
<1>6. draft' \in [Cashiers -> Draft]
  <2>1. draft \in [Cashiers -> Draft] /\ draft[c] \in Draft
    BY <1>1 DEF TalkInv, CardsInv
  <2>2. CASE UNCHANGED draft
    BY <2>1, <2>2
  <2>3. CASE draft' = [draft EXCEPT ![c][key] = value, ![c].card = d.card]
    <3>1. [[draft[c] EXCEPT ![key] = value] EXCEPT !.card = d.card] \in Draft
      BY <1>2, <2>1 DEF Draft
    <3>2. draft' = [draft EXCEPT ![c] = [[draft[c] EXCEPT ![key] = value] EXCEPT !.card = d.card]]
      BY <1>1, <2>1, <2>3
    <3> HIDE DEF c
    <3> QED  BY <1>1, <2>1, <3>1, <3>2
  <2> QED  BY <1>3, <2>2, <2>3
<1>7. UpdatesInv'
  BY DEF Written, Finish, TalkInv, UpdatesInv, HandlerType, Free, Edits
<1>8. menu' \in Menus
  BY DEF Written, venue, TalkInv
<1> QED  BY <1>5, <1>6, <1>7, <1>8 DEF TalkInv, CardsInv

(* A handler that starts knows the draft as it is.                         *)
LEMMA BeginKeeps ==
  ASSUME TalkInv, NEW u \in Updates, NEW t, Begin(u, t), HandlerType(t)
  PROVE  TalkInv'
<1>1. UNCHANGED <<draft, chat, menu>>
  BY DEF Begin, venue
<1>2. UpdatesInv'
  BY DEF Begin, TalkInv, UpdatesInv, HandlerType
<1> QED  BY <1>1, <1>2 DEF TalkInv, CardsInv

(* What a cashier starts: a handler gets the draft and a button of a card. *)
LEMMA TalksKeeps ==
  ASSUME TalkInv, NEW c \in Cashiers, Talks(c)
  PROVE  TalkInv'
<1>0. /\ draft \in [Cashiers -> Draft] /\ draft[c] \in Draft
      /\ chat \in [Cashiers -> Seq(SUBSET Button)] /\ chat[c] \in Seq(SUBSET Button)
  BY DEF TalkInv, CardsInv
<1>1. ASSUME UNCHANGED <<chat, updates, menu>>, draft' \in [Cashiers -> Draft]
      PROVE  TalkInv'
  BY <1>1 DEF TalkInv, CardsInv, UpdatesInv
<1>2. CASE Start(c)
  <2>1. draft' = [draft EXCEPT ![c] = NoDraft]
    BY <1>2 DEF Start
  <2>2. draft' \in [Cashiers -> Draft]
    BY <1>0, <2>1, DraftType
  <2> QED  BY <1>1, <1>2, <2>2 DEF Start, venue
<1>3. ASSUME NEW k \in DOMAIN chat[c], ChangeCustomer(c, k) \/ AskComment(c, k)
      PROVE  TalkInv'
  BY <1>0, <1>1, <1>3 DEF ChangeCustomer, AskComment, venue
<1>4. ASSUME NEW k \in DOMAIN chat[c], Cancel(c, k)
      PROVE  TalkInv'
  <2>1. /\ draft' = [draft EXCEPT ![c] = NoDraft] /\ chat' = [chat EXCEPT ![c][k] = {}]
        /\ UNCHANGED <<updates, menu>>
    BY <1>4 DEF Cancel, venue
  <2>2. draft' \in [Cashiers -> Draft]
    BY <1>0, <2>1, DraftType
  <2>3. [chat[c] EXCEPT ![k] = {}] \in Seq(SUBSET Button)
    <3>1. k \in 1..Len(chat[c]) /\ {} \in SUBSET Button
      BY <1>0, <1>4, LenProperties
    <3> QED  BY <1>0, <3>1, ExceptSeq
  <2>4. chat' \in [Cashiers -> Seq(SUBSET Button)]
    BY <1>0, <2>1, <2>3
  <2> QED  BY <2>1, <2>2, <2>4 DEF TalkInv, CardsInv, UpdatesInv
<1>5. ASSUME NEW u \in Updates, NEW g \in Customer, AskedForCode(c, u, g)
      PROVE  TalkInv'
  <2> DEFINE t == [kind |-> "code", cashier |-> c, customer |-> g]
  <2>1. HandlerType(t)
    BY DEF HandlerType, Edits
  <2> QED  BY <1>5, <2>1, BeginKeeps DEF AskedForCode
<1>6. ASSUME NEW u \in Updates, NEW kind \in {"redeem", "clear", "draw", "say"},
             Begin(u, [kind |-> kind, cashier |-> c, draft |-> draft[c]])
      PROVE  TalkInv'
  <2> DEFINE t == [kind |-> kind, cashier |-> c, draft |-> draft[c]]
  <2>1. HandlerType(t)
    BY <1>0 DEF HandlerType, Edits
  <2> QED  BY <1>6, <2>1, BeginKeeps
<1>7. ASSUME NEW u \in Updates, NEW k \in DOMAIN chat[c], NEW kind \in {"add", "sub"},
             NEW i \in Items, TapItem(c, u, k, kind, i)
      PROVE  TalkInv'
  <2> DEFINE t == [kind |-> kind, cashier |-> c, draft |-> draft[c], item |-> i]
  <2>1. HandlerType(t)
    BY <1>0 DEF HandlerType, Edits
  <2> QED  BY <1>7, <2>1, BeginKeeps DEF TapItem
<1>8. ASSUME NEW u \in Updates, NEW k \in DOMAIN chat[c], TapConfirm(c, u, k)
      PROVE  TalkInv'
  <2> DEFINE t == [kind |-> "confirm", cashier |-> c, draft |-> draft[c], card |-> k]
  <2>1. draft[c].customer \in Customer
    BY <1>0, <1>8 DEF TapConfirm, Complete, Draft
  <2>2. HandlerType(t)
    BY <1>0, <2>1 DEF HandlerType, Edits
  <2> QED  BY <1>8, <2>2, BeginKeeps DEF TapConfirm
<1> QED
  BY <1>2, <1>3, <1>4, <1>5, <1>6, <1>7, <1>8
     DEF Talks, SendCode, TapAnonymous, SendComment, Tap, Customer

(* The ends of the handlers.                                               *)
LEMMA HandlerKeeps ==
  ASSUME TalkInv, NEW u \in Updates, Handler(u)
  PROVE  TalkInv'
<1> DEFINE t == updates[u]
<1>0. /\ draft \in [Cashiers -> Draft] /\ chat \in [Cashiers -> Seq(SUBSET Button)]
      /\ DOMAIN updates = Updates /\ HandlerType(t) /\ menu \in Menus
      /\ \A v \in Updates : HandlerType(updates[v])
  BY DEF TalkInv, CardsInv, UpdatesInv
<1>1. CASE Fresh(u)
  <2>1. /\ t \in [kind : {"code", "send"}, cashier : Cashiers, customer : Customer]
        /\ t.kind = "code"
    BY <1>0, <1>1 DEF Fresh, Handles, HandlerType
  <2>2. [t EXCEPT !.kind = "send"]
          \in [kind : {"code", "send"}, cashier : Cashiers, customer : Customer]
    BY <2>1
  <2>3. HandlerType([t EXCEPT !.kind = "send"])
    BY <2>1, <2>2 DEF HandlerType, Edits
  <2>4. updates' = [updates EXCEPT ![u] = [t EXCEPT !.kind = "send"]]
    BY <1>1 DEF Fresh
  <2>5. UpdatesInv'
    <3> HIDE DEF t
    <3> QED  BY <1>0, <2>3, <2>4 DEF UpdatesInv
  <2>6. [NoDraft EXCEPT !.customer = t.customer, !.card = draft[t.cashier].card] \in Draft
    <3>1. draft[t.cashier].card \in Nat /\ t.customer \in Customer
      BY <1>0, <2>1 DEF Draft
    <3> HIDE DEF t
    <3> QED  BY <3>1, DraftType DEF Draft
  <2>7. draft' = [draft EXCEPT ![t.cashier] = [NoDraft EXCEPT !.customer = t.customer,
                                                 !.card = draft[t.cashier].card]]
    BY <1>1 DEF Fresh
  <2>8. draft' \in [Cashiers -> Draft]
    BY <1>0, <2>6, <2>7
  <2>9. UNCHANGED <<chat, menu>>
    BY <1>1 DEF Fresh, venue
  <2> QED  BY <1>0, <2>5, <2>8, <2>9 DEF TalkInv, CardsInv
<1>2. CASE SendCard(u)
  <2> DEFINE c == t.cashier
             card == SaleCard([NoDraft EXCEPT !.customer = t.customer])
  <2>1. c \in Cashiers
    BY <1>0, <1>2 DEF SendCard, Handles, HandlerType
  <2>2. chat' = [chat EXCEPT ![c] = Append(chat[c], card)]
    BY <1>2 DEF SendCard
  <2>3. card \in SUBSET Button
    BY <1>0, SaleCardType
  <2>4. chat[c] \in Seq(SUBSET Button)
    BY <1>0, <2>1
  <2> HIDE DEF card
  <2>5. Append(chat[c], card) \in Seq(SUBSET Button)
    BY <2>3, <2>4, AppendProperties
  <2>6. chat' \in [Cashiers -> Seq(SUBSET Button)] /\ Len(chat'[c]) \in Nat
    <3> HIDE DEF c
    <3>1. chat' \in [Cashiers -> Seq(SUBSET Button)]
      BY <1>0, <2>2, <2>5
    <3>2. chat'[c] \in Seq(SUBSET Button)
      BY <2>1, <3>1
    <3> QED  BY <3>1, <3>2, LenProperties
  <2>7. draft' = [draft EXCEPT ![c].card = Len(chat'[c])]
    BY <1>2 DEF SendCard
  <2>8. draft' \in [Cashiers -> Draft]
    <3>1. draft[c] \in Draft
      BY <1>0, <2>1
    <3>2. [draft[c] EXCEPT !.card = Len(chat'[c])] \in Draft
      BY <2>6, <3>1 DEF Draft
    <3> HIDE DEF c
    <3> QED  BY <1>0, <2>7, <3>2
  <2>9. UpdatesInv' /\ UNCHANGED menu
    BY <1>0, <1>2 DEF SendCard, Finish, UpdatesInv, HandlerType, Free, Edits, venue
  <2> QED  BY <1>0, <2>6, <2>8, <2>9 DEF TalkInv, CardsInv
<1>3. CASE ToggleRedeem(u)
  <2>1. t.kind \in Edits /\ Written(u, "redeem", ~t.draft.redeem)
    BY <1>3 DEF ToggleRedeem, Handles, Edits
  <2>2. (~t.draft.redeem) \in BOOLEAN
    OBVIOUS
  <2> QED  BY <2>1, <2>2, WrittenKeeps
<1>4. CASE ClearItems(u)
  <2>1. t.kind \in Edits /\ NoDraft.items \in [Items -> Nat] /\ Written(u, "items", NoDraft.items)
    BY <1>4 DEF ClearItems, Handles, Edits, NoDraft
  <2> QED  BY <2>1, WrittenKeeps
<1>5. CASE DrawAgain(u) \/ KeepComment(u)
  <2>1. t.kind \in Edits /\ Written(u, "card", t.draft.card)
    BY <1>5 DEF DrawAgain, KeepComment, Handles, Edits
  <2>2. t.draft.card \in Nat
    BY <1>0, <2>1 DEF HandlerType, Draft
  <2> QED  BY <2>1, <2>2, WrittenKeeps
<1>6. CASE AddItem(u)
  <2> DEFINE items == [t.draft.items EXCEPT ![t.item] = @ + 1]
  <2>1. t.kind \in Edits /\ t.kind \in {"add", "sub"} /\ Written(u, "items", items)
    BY <1>6 DEF AddItem, Handles, Edits
  <2>2. t.draft.items \in [Items -> Nat] /\ t.item \in Items
    BY <1>0, <2>1 DEF HandlerType, Draft
  <2>3. items \in [Items -> Nat]
    BY <2>2
  <2> QED  BY <2>1, <2>3, WrittenKeeps
<1>7. CASE SubItem(u)
  <2> DEFINE items == [t.draft.items EXCEPT ![t.item] = Max({0, @ - 1})]
  <2>1. t.kind \in Edits /\ t.kind \in {"add", "sub"} /\ Written(u, "items", items)
    BY <1>7 DEF SubItem, Handles, Edits
  <2>2. t.draft.items \in [Items -> Nat] /\ t.item \in Items
    BY <1>0, <2>1 DEF HandlerType, Draft
  <2>3. Max({0, t.draft.items[t.item] - 1}) \in Nat
    BY <2>2, MaxOfTwo
  <2>4. items \in [Items -> Nat]
    BY <2>2, <2>3
  <2> QED  BY <2>1, <2>4, WrittenKeeps
<1>8. CASE Preview(u)
  <2>1. UNCHANGED <<draft, chat, menu>> /\ t.kind = "confirm"
    BY <1>8 DEF Preview, Handles, venue
  <2>2. t.cashier \in Cashiers /\ t.draft \in Draft /\ t.draft.customer \in Customer
    BY <1>0, <2>1 DEF HandlerType
  <2>3. CASE Sellable(t.draft) /\ Total(t.draft) > 0
    <3> DEFINE r == [kind |-> "register", cashier |-> t.cashier, card |-> t.card,
                     customer |-> t.draft.customer, redeem |-> t.draft.redeem,
                     total |-> Total(t.draft), expected |-> Expected(t.draft)]
    <3>1. Total(t.draft) \in Nat /\ t.draft.redeem \in BOOLEAN
      BY <1>0, <2>2, <2>3, TotalType DEF Draft
    <3>2. HandlerType(r)
      BY <2>2, <3>1 DEF HandlerType, Edits
    <3>3. updates' = [updates EXCEPT ![u] = r]
      BY <1>8, <2>3 DEF Preview
    <3> HIDE DEF r, t
    <3>4. UpdatesInv'
      BY <1>0, <3>2, <3>3 DEF UpdatesInv
    <3> QED  BY <1>0, <2>1, <3>4 DEF TalkInv, CardsInv
  <2>4. CASE ~(Sellable(t.draft) /\ Total(t.draft) > 0)
    <3>1. updates' = [updates EXCEPT ![u] = Free]
      BY <1>8, <2>4 DEF Preview
    <3>2. UpdatesInv'
      BY <1>0, <3>1 DEF UpdatesInv, HandlerType, Free, Edits
    <3> QED  BY <1>0, <2>1, <3>2 DEF TalkInv, CardsInv
  <2> QED  BY <2>3, <2>4
<1>9. CASE Register(u)
  <2>1. /\ UNCHANGED <<draft, chat, menu>> /\ t.cashier \in Cashiers
        /\ updates' = [updates EXCEPT ![u] =
                         [kind |-> "sold", cashier |-> t.cashier, card |-> t.card]]
    BY <1>0, <1>9 DEF Register, Handles, HandlerType, venue
  <2>2. UpdatesInv'
    BY <1>0, <2>1 DEF UpdatesInv, HandlerType, Edits
  <2> QED  BY <1>0, <2>1, <2>2 DEF TalkInv, CardsInv
<1>10. CASE Done(u)
  <2> DEFINE c == t.cashier
             k == t.card
  <2>1. /\ c \in Cashiers /\ chat[c] \in Seq(SUBSET Button) /\ UNCHANGED menu
        /\ draft' = [draft EXCEPT ![c] = NoDraft] /\ chat' = [chat EXCEPT ![c][k] = {}]
        /\ updates' = [updates EXCEPT ![u] = Free]
    BY <1>0, <1>10 DEF Done, Handles, HandlerType, Finish, venue
  <2>2. UpdatesInv'
    BY <1>0, <2>1 DEF UpdatesInv, HandlerType, Free, Edits
  <2>3. [chat[c] EXCEPT ![k] = {}] \in Seq(SUBSET Button)
    <3>1. CASE k \in 1..Len(chat[c])
      BY <2>1, <3>1, ExceptSeq
    <3>2. CASE k \notin 1..Len(chat[c])
      <4>1. DOMAIN chat[c] = 1..Len(chat[c]) /\ chat[c] = [j \in DOMAIN chat[c] |-> chat[c][j]]
        BY <2>1, LenProperties
      <4>2. [chat[c] EXCEPT ![k] = {}] = chat[c]
        BY <3>2, <4>1
      <4> QED  BY <2>1, <4>2
    <3> QED  BY <3>1, <3>2
  <2> HIDE DEF c, k
  <2>4. chat' \in [Cashiers -> Seq(SUBSET Button)]
    BY <1>0, <2>1, <2>3
  <2>5. draft' \in [Cashiers -> Draft]
    BY <1>0, <2>1, DraftType
  <2> QED  BY <1>0, <2>1, <2>2, <2>4, <2>5 DEF TalkInv, CardsInv
<1> QED
  BY <1>1, <1>2, <1>3, <1>4, <1>5, <1>6, <1>7, <1>8, <1>9, <1>10 DEF Handler

(* The menu keeps prices of items.                                         *)
LEMMA MenuKeeps ==
  ASSUME TalkInv, NEW i \in Items, TakeOff(i) \/ \E price \in Prices : ChangeMenu(i, price)
  PROVE  TalkInv'
<1>1. PICK S \in SUBSET Items : menu \in [S -> Nat]
  BY DEF TalkInv, Menus
<1>2. menu' \in Menus
  <2>1. CASE TakeOff(i)
    <3>1. menu' \in [S \ {i} -> Nat]
      BY <1>1, <2>1 DEF TakeOff
    <3> QED  BY <3>1 DEF Menus
  <2>2. ASSUME NEW price \in Prices, ChangeMenu(i, price)
        PROVE  menu' \in Menus
    <3>1. price \in Nat
      BY VenueAssumption
    <3>2. menu' \in [S \cup {i} -> Nat]
      BY <1>1, <2>2, <3>1 DEF ChangeMenu
    <3> QED  BY <3>2 DEF Menus
  <2> QED  BY <2>1, <2>2
<1>3. UNCHANGED <<draft, chat, updates>>
  BY DEF TakeOff, ChangeMenu
<1> QED  BY <1>2, <1>3 DEF TalkInv, CardsInv, UpdatesInv

-----------------------------------------------------------------------------
(* The bonuses.                                                            *)

Sale == [customer : Customer, amount : Nat, spent : Nat, awarded : Nat]

MoneyInv == /\ balance \in [Guests -> Nat] /\ ledger \in [Guests -> Nat]
            /\ sales \in Seq(Sale)

Held(s) ==
  IF s.customer \in Guests
  THEN /\ s.spent <= ledger[s.customer]
       /\ s.spent <= Percent(s.amount, MaxRedeemShare)
       /\ ledger'[s.customer] = ledger[s.customer] - s.spent + s.awarded
  ELSE ledger' = ledger

(* What the locked guest pays and earns.                                   *)
LEMMA SaleBounds ==
  ASSUME MoneyInv, NEW t, t.customer \in Guests, t.redeem \in BOOLEAN, t.total \in Nat
  PROVE  /\ Spent(t) \in Nat
         /\ Spent(t) <= balance[t.customer]
         /\ Spent(t) <= Percent(t.total, MaxRedeemShare)
         /\ Sum(Awards(t)) \in Nat
<1>1. balance[t.customer] \in Nat
  BY DEF MoneyInv
<1>2. Percent(t.total, MaxRedeemShare) \in Nat
  <2>1. MaxRedeemShare \in Int /\ MaxRedeemShare >= 0 /\ t.total \in Int /\ t.total >= 0
    BY ShareType
  <2>2. /\ Percent(t.total, MaxRedeemShare) \in Int
        /\ Percent(t.total, MaxRedeemShare) >= 0
    BY <2>1, PercentType
  <2> QED  BY <2>2
<1>3. /\ Spent(t) \in Nat
      /\ Spent(t) <= balance[t.customer]
      /\ Spent(t) <= Percent(t.total, MaxRedeemShare)
  BY <1>1, <1>2, RedeemableBounds DEF Spent
<1>4. \A p \in Programs : Awards(t)[p] \in Nat
  <2> SUFFICES ASSUME NEW p \in Programs PROVE Award(p, t.customer, t.total, Spent(t)) \in Nat
    BY DEF Awards
  <2> QED  BY <1>3, AwardType
<1> DEFINE a == Awards(t)
<1>5. SumFunctionOnSet(a, Programs) \in Nat
  BY <1>4, VenueAssumption, SumNat
<1> QED  BY <1>3, <1>5 DEF Sum

(* The row of a sale is the last one.                                      *)
LEMMA SaleIsLast ==
  ASSUME sales \in Seq(Sale), NEW s \in Sale, sales' = Append(sales, s)
  PROVE  sales' \in Seq(Sale) /\ sales'[Len(sales')] = s
BY AppendProperties, LenProperties

LEMMA RegisterPays ==
  ASSUME TalkInv, MoneyInv, NEW u \in Updates, Register(u)
  PROVE  MoneyInv' /\ Held(sales'[Len(sales')])
<1> DEFINE t == updates[u]
           g == t.customer
<1>1. t.customer \in Customer /\ t.redeem \in BOOLEAN /\ t.total \in Nat
  BY DEF Register, Handles, TalkInv, UpdatesInv, HandlerType
<1>2. CASE t.customer = Anonymous
  <2> DEFINE s == [customer |-> Anonymous, amount |-> t.total, spent |-> 0, awarded |-> 0]
  <2>1. sales' = Append(sales, s) /\ UNCHANGED <<balance, ledger>>
    BY <1>2 DEF Register, RegisterAnonymous, Sold
  <2>2. s \in Sale /\ s.customer \notin Guests
    BY <1>1, VenueAssumption DEF Sale, Customer
  <2> HIDE DEF s
  <2>3. sales' \in Seq(Sale) /\ sales'[Len(sales')] = s
    BY <2>1, <2>2, SaleIsLast DEF MoneyInv
  <2> QED  BY <2>1, <2>2, <2>3 DEF MoneyInv, Held
<1>3. CASE t.customer # Anonymous
  <2> DEFINE spent == Spent(t)
             awarded == Sum(Awards(t))
             s == [customer |-> g, amount |-> t.total, spent |-> spent, awarded |-> awarded]
  <2>1. g \in Guests
    BY <1>1, <1>3 DEF Customer
  <2>2. /\ balance[g] = ledger[g]
        /\ ledger' = [ledger EXCEPT ![g] = @ + (awarded - spent)]
        /\ balance' = [balance EXCEPT ![g] = @ + (awarded - spent)]
        /\ sales' = Append(sales, s)
    BY <1>3 DEF Register, RegisterForGuest, Sold
  <2>3. /\ spent \in Nat /\ spent <= balance[g] /\ awarded \in Nat
        /\ spent <= Percent(t.total, MaxRedeemShare)
    BY <1>1, <2>1, SaleBounds
  <2>4. s \in Sale
    BY <1>1, <2>3 DEF Sale
  <2>5. s.customer = g /\ s.spent = spent /\ s.awarded = awarded /\ s.amount = t.total
    OBVIOUS
  <2> HIDE DEF s, spent, awarded, g
  <2>6. sales' \in Seq(Sale) /\ sales'[Len(sales')] = s
    BY <2>2, <2>4, SaleIsLast DEF MoneyInv
  <2>7. ledger[g] \in Nat /\ balance[g] \in Nat
    BY <2>1 DEF MoneyInv
  <2>8. ledger'[g] = ledger[g] - spent + awarded
    BY <2>1, <2>2, <2>3, <2>7 DEF MoneyInv
  <2>9. ledger[g] + (awarded - spent) \in Nat /\ balance[g] + (awarded - spent) \in Nat
    BY <2>2, <2>3, <2>7
  <2>10. ledger' \in [Guests -> Nat] /\ balance' \in [Guests -> Nat]
    BY <2>1, <2>2, <2>9 DEF MoneyInv
  <2>11. Held(s)
    BY <2>1, <2>2, <2>3, <2>5, <2>8 DEF Held
  <2> QED  BY <2>6, <2>10, <2>11 DEF MoneyInv
<1> QED  BY <1>2, <1>3

-----------------------------------------------------------------------------
PayInv == TalkInv /\ MoneyInv

LEMMA PayInitially == Init => PayInv
<1> SUFFICES ASSUME Init PROVE PayInv
  OBVIOUS
<1>1. draft \in [Cashiers -> Draft]
  BY DraftType DEF Init
<1>2. chat \in [Cashiers -> Seq(SUBSET Button)]
  BY EmptySeq DEF Init
<1>3. UpdatesInv
  BY DEF Init, UpdatesInv, HandlerType, Free, Edits
<1>4. menu \in Menus
  <2>1. menu \in [Items -> Nat]
    BY VenueAssumption DEF Init
  <2> QED  BY <2>1 DEF Menus
<1>5. MoneyInv
  BY VenueAssumption, EmptySeq DEF Init, MoneyInv
<1> QED  BY <1>1, <1>2, <1>3, <1>4, <1>5 DEF PayInv, TalkInv, CardsInv

(* Only a registration moves bonuses.                                      *)
LEMMA PayInductive ==
  PayInv /\ [Next]_vars => PayInv' /\ (sales' # sales => Held(sales'[Len(sales')]))
<1> SUFFICES ASSUME PayInv, [Next]_vars
             PROVE  PayInv' /\ (sales' # sales => Held(sales'[Len(sales')]))
  OBVIOUS
<1>0. TalkInv /\ MoneyInv
  BY DEF PayInv
<1>1. ASSUME UNCHANGED <<balance, ledger, sales>>, TalkInv'
      PROVE  PayInv' /\ (sales' # sales => Held(sales'[Len(sales')]))
  BY <1>0, <1>1 DEF PayInv, MoneyInv
<1>2. ASSUME NEW u \in Updates, Register(u)
      PROVE  PayInv' /\ (sales' # sales => Held(sales'[Len(sales')]))
  <2>1. TalkInv'
    BY <1>0, <1>2, HandlerKeeps DEF Handler
  <2>2. MoneyInv' /\ Held(sales'[Len(sales')])
    BY <1>0, <1>2, RegisterPays
  <2> QED  BY <2>1, <2>2 DEF PayInv
<1>3. ASSUME NEW c \in Cashiers, Talks(c)
      PROVE  UNCHANGED <<balance, ledger, sales>> /\ TalkInv'
  <2>1. UNCHANGED <<balance, ledger, sales>>
    BY <1>3 DEF Talks, Start, ChangeCustomer, AskComment, Cancel, SendCode, TapAnonymous,
                AskedForCode, SendComment, Tap, TapItem, TapConfirm, Begin, accounts
  <2> QED  BY <1>0, <1>3, <2>1, TalksKeeps
<1>4. ASSUME NEW u \in Updates, Handler(u), ~Register(u)
      PROVE  UNCHANGED <<balance, ledger, sales>> /\ TalkInv'
  <2>1. UNCHANGED <<balance, ledger, sales>>
    BY <1>4 DEF Handler, Fresh, SendCard, ToggleRedeem, ClearItems, DrawAgain, AddItem,
                SubItem, KeepComment, Written, Preview, Done, accounts
  <2> QED  BY <1>0, <1>4, <2>1, HandlerKeeps
<1>5. ASSUME NEW i \in Items, TakeOff(i) \/ \E price \in Prices : ChangeMenu(i, price)
      PROVE  UNCHANGED <<balance, ledger, sales>> /\ TalkInv'
  <2>1. UNCHANGED <<balance, ledger, sales>>
    BY <1>5 DEF TakeOff, ChangeMenu, accounts
  <2> QED  BY <1>0, <1>5, <2>1, MenuKeeps
<1>6. CASE Midnight \/ UNCHANGED vars
  <2>1. UNCHANGED <<draft, chat, updates, menu, balance, ledger, sales>>
    BY <1>6 DEF Midnight, vars
  <2> QED  BY <1>0, <1>1, <2>1 DEF TalkInv, CardsInv, UpdatesInv
<1> QED  BY <1>1, <1>2, <1>3, <1>4, <1>5, <1>6 DEF Next

(* A sale is paid with bonuses the guest held before it and within the     *)
(* share of its price, and the ledger moves by what the sale says, however *)
(* the handlers interleave (apps/bonuses/services.py register_walk_in_sale). *)
THEOREM SalesRedeemWhatIsHeld == Spec => RedeemsWhatIsHeld
<1>1. PayInv /\ [Next]_vars =>
        [sales' # sales =>
           LET s == sales'[Len(sales')] IN
           IF s.customer \in Guests
           THEN /\ s.spent <= ledger[s.customer]
                /\ s.spent <= Percent(s.amount, MaxRedeemShare)
                /\ ledger'[s.customer] = ledger[s.customer] - s.spent + s.awarded
           ELSE ledger' = ledger]_vars
  BY PayInductive DEF Held
<1>2. PayInv /\ [Next]_vars => PayInv'
  BY PayInductive
<1> QED  BY PayInitially, <1>1, <1>2, PTL DEF Spec, RedeemsWhatIsHeld
=============================================================================
