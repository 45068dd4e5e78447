----------------------------- MODULE GuestOrders -----------------------------
(***************************************************************************)
(* What a guest orders from the bot: the cart (the second half of          *)
(* apps/orders/services.py, bot/handlers/order.py, menu.py and start.py),  *)
(* its checkout at a table, and the prepaid order to take away, from its   *)
(* summary to the moment it is placed (apps/billing/remote_orders.py,      *)
(* bot/handlers/remote_checkout.py).  What the staff makes of it is in     *)
(* StaffDesk.                                                              *)
(*                                                                         *)
(* One guest, whose taps run at the same time: Tap numbers the commands    *)
(* under way.  A command finds the guest's table session first and then    *)
(* acts; most of them lock the cart and act in one step.  To look at the   *)
(* cart and to clear it lock nothing, and take a step to read and a step   *)
(* to write.  A command that raises is rolled back (Fails).                *)
(*                                                                         *)
(* An item is one unit of a dish.  Worth is what a set of items costs.     *)
(* The phone number, opening hours, the choice of a time and the switches  *)
(* of the venue only refuse a command and are left out.                    *)
(* An operator X_Bug... is X with a plausible bug; nothing uses it here.   *)
(***************************************************************************)
EXTENDS Integers, FiniteSets, FiniteSetsExt, Functions

CONSTANTS
    Tap,            \* commands of the guest that may run at once
    Item,
    SoldIn,         \* MenuItem.is_sold_in: the items sold in each channel
    Worth,          \* what a set of items costs
    StartBalance,   \* the bonuses of the guest
    RedeemShare,    \* the largest max_redeem_share of the venue, in percent
    MaxCarts, MaxOrders, MaxSessions,
    MaxElsewhere    \* bound on what happens to the bonuses elsewhere

Cart == 1..MaxCarts
Order == 1..MaxOrders
Channel == {"table", "pickup"}

ASSUME GuestOrdersAssumption ==
    /\ SoldIn \in [Channel -> SUBSET Item]
    /\ Worth \in [SUBSET Item -> Nat]
    /\ StartBalance \in Nat /\ RedeemShare \in 0..100
    /\ MaxCarts \in Nat /\ MaxOrders \in Nat /\ MaxSessions \in Nat /\ MaxElsewhere \in Nat

VARIABLES
    session,     \* the active table session of the guest, 0 for none
    sessions,    \* how many there have been
    cart,        \* the carts: status, channel, session, items and the stored total_amount
    order,       \* the orders: channel, cart, items, the amount shown and the bonuses spent
    balance,     \* GuestProfile.loyalty_balance
    elsewhere,   \* what other bills took from it and gave back
    summary,     \* the last summary with its button "I have paid"
    tap          \* the commands under way

vars == <<session, sessions, cart, order, balance, elsewhere, summary, tap>>

Status == {"absent", "active", "checked_out", "abandoned"}

NoCart == [status |-> "absent", channel |-> "table", session |-> 0, items |-> {}, total |-> 0]

NoOrder == [channel |-> "table", cart |-> 0, items |-> {}, shown |-> 0, bonus |-> 0]

NoSummary == [bonus |-> FALSE, total |-> 0, toPay |-> 0]

Same == [status |-> "active", channel |-> "table", session |-> 0]

Idle == [kind |-> "idle", session |-> 0, item |-> {}, channel |-> "table", cart |-> 0,
         read |-> Same, write |-> Same, summary |-> NoSummary]

Active == {c \in Cart : cart[c].status = "active"}
Placed == {o \in Order : order[o].cart # 0}

\* The next row of each table; no cart is number 0.
Unused == {c \in Cart : cart[c].status = "absent"}
NextCart == IF Unused = {} THEN 0 ELSE CHOOSE c \in Unused : TRUE
NextOrder == CHOOSE o \in Order \ Placed : TRUE

Init ==
    /\ session = 0 /\ sessions = 0
    /\ cart = [c \in Cart |-> NoCart] /\ order = [o \in Order |-> NoOrder]
    /\ balance = StartBalance /\ elsewhere = 0
    /\ summary = NoSummary
    /\ tap = [t \in Tap |-> Idle]

guestVars == <<session, sessions, balance, elsewhere, summary>>

-----------------------------------------------------------------------------
(* The cart and where the guest is *)

\* _align_cart_with_session
Align(c, s) ==
    IF c.channel = "pickup" THEN [c EXCEPT !.session = 0]
    ELSE IF s = 0 THEN [c EXCEPT !.session = 0, !.channel = "pickup"]
    ELSE IF c.session \notin {0, s} /\ c.items # {} THEN [c EXCEPT !.status = "abandoned"]
    ELSE [c EXCEPT !.session = s]

NewCart(s) ==
    [NoCart EXCEPT !.status = "active", !.session = s,
                   !.channel = IF s = 0 THEN "pickup" ELSE "table"]

\* What get_or_create_active_cart_for_telegram_user leaves, with the cart locked: the carts,
\* and the one to use.
Found(s) ==
    LET old == {c \in Active : Align(cart[c], s).status = "active"} IN
    IF old # {}
    THEN LET c == CHOOSE x \in old : TRUE IN
         [use |-> c, carts |-> [cart EXCEPT ![c] = Align(cart[c], s)]]
    ELSE [use |-> NextCart,
          carts |-> [c \in Cart |-> IF c = NextCart THEN NewCart(s)
                                    ELSE IF c \in Active THEN Align(cart[c], s) ELSE cart[c]]]

\* _refresh_cart_totals of a cart that is locked.
WithItems(c, items) == [c EXCEPT !.items = items, !.total = Worth[items]]

\* The rows a running clear has deleted, and a cart one has saved.
Deleting(i) == \E t \in Tap : tap[t].kind = "cleared" /\ i \in tap[t].item
Locked(c) == \E t \in Tap : tap[t].kind = "cleared" /\ tap[t].cart = c /\ tap[t].read # tap[t].write

-----------------------------------------------------------------------------
(* Taps of the guest *)

\* Every command finds the session of the guest first.
Begin(t, kind, item, channel) ==
    /\ tap[t] = Idle
    /\ tap' = [tap EXCEPT ![t] = [Idle EXCEPT !.kind = kind, !.session = session, !.item = item,
                                              !.channel = channel]]

TapAdd(t, i) == Begin(t, "add", {i}, "table") /\ UNCHANGED <<cart, order, guestVars>>

TapRemove(t, i) == Begin(t, "remove", {i}, "table") /\ UNCHANGED <<cart, order, guestVars>>

TapSwitch(t) == Begin(t, "switch", {}, "pickup") /\ UNCHANGED <<cart, order, guestVars>>

TapCheckout(t) == Begin(t, "checkout", {}, "table") /\ UNCHANGED <<cart, order, guestVars>>

\* start_handler: the guest scans a table, and the cart turns to it.
Scan(t) ==
    /\ tap[t] = Idle /\ sessions < MaxSessions
    /\ sessions' = sessions + 1 /\ session' = sessions'
    /\ tap' = [tap EXCEPT ![t] = [Idle EXCEPT !.kind = "switch", !.session = session']]
    /\ UNCHANGED <<cart, order, balance, elsewhere, summary>>

\* The staff or a payment closes the session; the last one of the instance stays.
Leave ==
    /\ session # 0 /\ sessions < MaxSessions
    /\ session' = 0
    /\ UNCHANGED <<sessions, cart, order, balance, elsewhere, summary, tap>>

CanAdd(t) ==
    LET f == Found(tap[t].session) IN
    /\ f.use \in Cart /\ tap[t].item \subseteq SoldIn[f.carts[f.use].channel] \ f.carts[f.use].items

\* add_items_to_cart and change_cart_item_quantity by one more.
Add(t) ==
    LET f == Found(tap[t].session) IN
    /\ tap[t].kind = "add" /\ CanAdd(t)
    /\ ~Locked(f.use) /\ \A i \in tap[t].item : ~Deleting(i)
    /\ cart' = [f.carts EXCEPT ![f.use] = WithItems(@, @.items \cup tap[t].item)]
    /\ tap' = [tap EXCEPT ![t] = Idle]
    /\ UNCHANGED <<order, guestVars>>

CanRemove(t) ==
    LET f == Found(tap[t].session) IN
    f.use \in Cart /\ tap[t].item \subseteq f.carts[f.use].items

\* remove_cart_item and change_cart_item_quantity by one less.
Remove(t) ==
    LET f == Found(tap[t].session) IN
    /\ tap[t].kind = "remove" /\ CanRemove(t)
    /\ ~Locked(f.use) /\ \A i \in tap[t].item : ~Deleting(i)
    /\ cart' = [f.carts EXCEPT ![f.use] = WithItems(@, @.items \ tap[t].item)]
    /\ tap' = [tap EXCEPT ![t] = Idle]
    /\ UNCHANGED <<order, guestVars>>

CanSwitch(t) ==
    /\ Found(tap[t].session).use \in Cart
    /\ tap[t].channel = "table" => tap[t].session # 0

\* switch_cart_channel: what is not sold in the new channel leaves the cart.
Switch(t) ==
    LET s == tap[t].session
        f == Found(s)
        c == [f.carts[f.use] EXCEPT !.channel = tap[t].channel,
                                    !.session = IF tap[t].channel = "table" THEN s ELSE 0]
        kept == c.items \cap SoldIn[c.channel] IN
    /\ tap[t].kind = "switch" /\ CanSwitch(t)
    /\ ~Locked(f.use) /\ \A i \in c.items \ kept : ~Deleting(i)
    /\ cart' = [f.carts EXCEPT ![f.use] = IF kept = c.items THEN c ELSE WithItems(c, kept)]
    /\ tap' = [tap EXCEPT ![t] = Idle]
    /\ UNCHANGED <<order, guestVars>>

CanCheckout(t) ==
    LET f == Found(tap[t].session)
        c == f.carts[f.use] IN
    /\ f.use \in Cart /\ Placed # Order
    /\ c.items # {} /\ c.channel = "table" /\ c.session # 0
    /\ c.items \subseteq SoldIn["table"]

\* The cart is read and never locked.
Checkout_BugNoLock(t) ==
    LET s == tap[t].session
        c == CHOOSE x \in Cart : cart[x].status \in {"active", "checked_out"} /\ cart[x].session = s IN
    /\ tap[t].kind = "checkout" /\ Placed # Order
    /\ \E x \in Cart : cart[x].status \in {"active", "checked_out"} /\ cart[x].session = s
    /\ cart[c].items # {} /\ cart[c].channel = "table"
    /\ order' = [order EXCEPT ![NextOrder] = [NoOrder EXCEPT
           !.cart = c, !.items = cart[c].items, !.shown = Worth[cart[c].items]]]
    /\ cart' = [cart EXCEPT ![c].status = "checked_out"]
    /\ tap' = [tap EXCEPT ![t] = Idle]
    /\ UNCHANGED guestVars

\* checkout_active_cart_for_telegram_user
Checkout(t) ==
    LET f == Found(tap[t].session)
        items == f.carts[f.use].items IN
    /\ tap[t].kind = "checkout" /\ CanCheckout(t) /\ ~Locked(f.use)
    /\ order' = [order EXCEPT ![NextOrder] = [NoOrder EXCEPT
           !.cart = f.use, !.items = items, !.shown = Worth[items]]]
    /\ cart' = [f.carts EXCEPT ![f.use].status = "checked_out"]
    /\ tap' = [tap EXCEPT ![t] = Idle]
    /\ UNCHANGED guestVars

Head(c) == [status |-> c.status, channel |-> c.channel, session |-> c.session]

\* get_active_cart_for_telegram_user, behind every view of the cart and of the menu and the
\* first half of a clear: the cart is read, and aligned in memory.
Look(t, kind, c) ==
    /\ tap[t] = Idle /\ c \in Active
    /\ kind = "view" => Align(cart[c], session) # cart[c]
    /\ tap' = [tap EXCEPT ![t] = [Idle EXCEPT !.kind = kind, !.cart = c,
           !.read = Head(cart[c]), !.write = Head(Align(cart[c], session))]]
    /\ UNCHANGED <<cart, order, guestVars>>

\* The fields that were changed are saved over whatever the row holds by now.
Saved(t) ==
    LET r == tap[t].read
        w == tap[t].write IN
    [cart[tap[t].cart] EXCEPT !.status = IF w.status = r.status THEN @ ELSE w.status,
                              !.channel = IF w.channel = r.channel THEN @ ELSE w.channel,
                              !.session = IF w.session = r.session THEN @ ELSE w.session]

View(t) ==
    /\ tap[t].kind = "view" /\ ~Locked(tap[t].cart)
    /\ cart' = [cart EXCEPT ![tap[t].cart] = Saved(t)]
    /\ tap' = [tap EXCEPT ![t] = Idle]
    /\ UNCHANGED <<order, guestVars>>

\* clear_active_cart: the items it sees are deleted, and a total of nothing is computed ...
ClearDelete(t) ==
    LET c == tap[t].cart IN
    /\ tap[t].kind = "clear" /\ tap[t].write.status = "active"
    /\ ~Locked(c) /\ \A i \in cart[c].items : ~Deleting(i)
    /\ tap' = [tap EXCEPT ![t].kind = "cleared", ![t].item = cart[c].items]
    /\ UNCHANGED <<cart, order, guestVars>>

\* ... and saved with the commit, whatever has come to the cart meanwhile.
ClearCommit(t) ==
    LET c == tap[t].cart IN
    /\ tap[t].kind = "cleared"
    /\ cart' = [cart EXCEPT ![c] = [Saved(t) EXCEPT
                                     !.items = Saved(t).items \ tap[t].item, !.total = 0]]
    /\ tap' = [tap EXCEPT ![t] = Idle]
    /\ UNCHANGED <<order, guestVars>>

-----------------------------------------------------------------------------
(* The order to take away *)

\* get_redeemable_bonus_amount
Redeemable(total) == Min({balance, (total * RedeemShare) \div 100})

\* _active_cart of remote_orders.
TakeAway(c) ==
    c \in Active /\ cart[c].items # {} /\ cart[c].channel = "pickup"
        /\ cart[c].items \subseteq SoldIn["pickup"]

\* _send_summary: the amounts go into the button.
Quote(c, bonus) ==
    LET spent == IF bonus THEN Redeemable(cart[c].total) ELSE 0 IN
    /\ TakeAway(c) /\ cart[c].total > 0
    /\ bonus => spent > 0
    /\ summary' = [bonus |-> bonus, total |-> cart[c].total, toPay |-> cart[c].total - spent]
    /\ summary' # summary
    /\ UNCHANGED <<session, sessions, cart, order, balance, elsewhere, tap>>

\* The button may be tapped twice, and long after.
TapPaid(t) ==
    /\ tap[t] = Idle /\ summary # NoSummary
    /\ tap' = [tap EXCEPT ![t] = [Idle EXCEPT !.kind = "place", !.summary = summary]]
    /\ UNCHANGED <<cart, order, guestVars>>

\* The cart is compared with the button, the bonuses are not.
CanPlace_BugTotalOnly(t, c) ==
    LET shown == tap[t].summary
        spent == IF shown.bonus THEN Redeemable(Worth[cart[c].items]) ELSE 0 IN
    /\ TakeAway(c) /\ ~Locked(c) /\ Placed # Order
    /\ Worth[cart[c].items] = shown.total
    /\ shown.bonus => spent > 0

\* With the guest and the cart locked: the cart and the bonuses give the amounts of the button.
CanPlace(t, c) ==
    LET shown == tap[t].summary
        spent == IF shown.bonus THEN Redeemable(Worth[cart[c].items]) ELSE 0 IN
    /\ TakeAway(c) /\ ~Locked(c) /\ Placed # Order
    /\ Worth[cart[c].items] = shown.total
    /\ shown.bonus => spent > 0
    /\ Worth[cart[c].items] - spent = shown.toPay

\* The bonuses of the summary are spent, without a look at what the guest has now.
Place_BugQuotedBonus(t, c) ==
    LET shown == tap[t].summary
        bonus == shown.total - shown.toPay IN
    /\ tap[t].kind = "place" /\ TakeAway(c) /\ ~Locked(c) /\ Placed # Order
    /\ Worth[cart[c].items] = shown.total
    /\ order' = [order EXCEPT ![NextOrder] = [channel |-> "pickup", cart |-> c,
           items |-> cart[c].items, shown |-> shown.toPay, bonus |-> bonus]]
    /\ cart' = [cart EXCEPT ![c].status = "checked_out"]
    /\ balance' = balance - bonus
    /\ summary' = NoSummary
    /\ tap' = [tap EXCEPT ![t] = Idle]
    /\ UNCHANGED <<session, sessions, elsewhere>>

\* place_remote_order, with the bill it makes, issues and pays with bonuses.
Place(t, c) ==
    LET shown == tap[t].summary
        bonus == IF shown.bonus THEN Redeemable(Worth[cart[c].items]) ELSE 0 IN
    /\ tap[t].kind = "place" /\ CanPlace(t, c)
    /\ order' = [order EXCEPT ![NextOrder] = [channel |-> "pickup", cart |-> c,
           items |-> cart[c].items, shown |-> shown.toPay, bonus |-> bonus]]
    /\ cart' = [cart EXCEPT ![c].status = "checked_out"]
    /\ balance' = balance - bonus
    /\ summary' = NoSummary
    /\ tap' = [tap EXCEPT ![t] = Idle]
    /\ UNCHANGED <<session, sessions, elsewhere>>

\* A command that finds a condition unmet raises and leaves nothing behind.
Fails(t) ==
    /\ \/ tap[t].kind = "add" /\ ~CanAdd(t)
       \/ tap[t].kind = "remove" /\ ~CanRemove(t)
       \/ tap[t].kind = "switch" /\ ~CanSwitch(t)
       \/ tap[t].kind = "checkout" /\ ~CanCheckout(t)
       \/ tap[t].kind = "place" /\ \A c \in Cart : ~Locked(c) /\ ~CanPlace(t, c)
       \/ tap[t].kind = "clear" /\ tap[t].write.status # "active"
    /\ tap' = [tap EXCEPT ![t] = Idle]
    /\ UNCHANGED <<cart, order, guestVars>>

\* Other bills take bonuses of the guest, and give them back.
BonusesElsewhere(n) ==
    /\ balance + n >= 0 /\ elsewhere - n \in 0..MaxElsewhere
    /\ balance' = balance + n /\ elsewhere' = elsewhere - n
    /\ UNCHANGED <<session, sessions, cart, order, summary, tap>>

-----------------------------------------------------------------------------

GuestNext(t) ==
    \/ \E i \in Item : TapAdd(t, i) \/ TapRemove(t, i)
    \/ TapSwitch(t) \/ TapCheckout(t) \/ TapPaid(t) \/ Scan(t)
    \/ Add(t) \/ Remove(t) \/ Switch(t) \/ Checkout(t) \/ Fails(t)
    \/ View(t) \/ ClearDelete(t) \/ ClearCommit(t)
    \/ \E c \in Cart : Place(t, c) \/ \E kind \in {"view", "clear"} : Look(t, kind, c)

Next ==
    \/ \E t \in Tap : GuestNext(t)
    \/ Leave \/ \E n \in {-1, 1} : BonusesElsewhere(n)
    \/ \E c \in Cart, bonus \in BOOLEAN : Quote(c, bonus)

Spec == Init /\ [][Next]_vars

-----------------------------------------------------------------------------
(* Properties *)

\* A cart becomes one order, however often and from wherever it is checked out.
OneOrderPerCart ==
    \A o, p \in Placed : order[o].cart = order[p].cart => o = p

\* A guest who pays in advance was shown what the items of the order cost less the bonuses the
\* order took, whatever became of the cart and of the bonuses between the summary and the tap,
\* and whether or not the stored total of the cart, which the summary is made of, has gone wrong.
ChargedAsShown ==
    \A o \in Placed : order[o].shown = Worth[order[o].items] - order[o].bonus

\* An order spends only bonuses the guest still has, and the balance goes down by what it spent.
BonusesKept ==
    /\ balance >= 0
    /\ balance + elsewhere + SumFunctionOnSet([o \in Order |-> order[o].bonus], Order) = StartBalance
=============================================================================
