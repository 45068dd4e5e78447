------------------------------ MODULE QuickSale ------------------------------
(***************************************************************************)
(* A quick sale: a cashier composes a sale in the chat of the bot, for a   *)
(* guest who names a code or for nobody, and registers it                  *)
(* (bot/handlers/staff.py, apps/bonuses/services.py).                      *)
(*                                                                         *)
(* The draft is the data of the conversation of the cashier: aiogram keeps *)
(* it with a state (fsm), and a handler is chosen by that state.  Updates  *)
(* are handled concurrently, those of one cashier too.  A handler reads    *)
(* the draft, waits for the database and for Telegram, and then writes     *)
(* back only the keys it changes: each is a Begin and an end here.         *)
(*                                                                         *)
(* A sale is registered in one transaction that reads the menu and what    *)
(* the guest can expect first (Preview), and only then locks the guest and *)
(* reads the balance and the ledger again (Register).                      *)
(*                                                                         *)
(* Money, bonuses and percents are in hundredths.  The comment and the     *)
(* category shown are left out: their handlers only draw the card again.   *)
(* So are the message that was deleted and is sent again, and the roles.   *)
(*                                                                         *)
(* An operator X_BugY is X with a plausible bug.                           *)
(***************************************************************************)
EXTENDS Integers, Sequences, FiniteSetsExt

Anonymous == "anonymous"    \* the empty code

CONSTANTS Cashiers, Guests, Items,
          Updates,      \* handlers that can be under way at once
          Programs,     \* the active programs of the venue for a manual purchase
          Prices,       \* what an item may cost
          FirstBalance, \* the bonuses of a guest at the start, a manual credit
          MaxQuantity,  \* bound: pieces of an item in a draft
          MaxCards,     \* bound: drafts of a cashier
          MaxSales,     \* bound: sales
          MaxChanges    \* bound: changes of the menu, and days that end

\* a program may be set up with any amounts, below zero too; a price is above zero
ASSUME VenueAssumption ==
  /\ FirstBalance \in Nat
  /\ Anonymous \notin Guests
  /\ IsFiniteSet(Items) /\ Prices \subseteq Nat \ {0}
  /\ IsFiniteSet(Programs)
  /\ Programs \subseteq [kind : {"cashback", "visit", "milestone"}, percent : Int,
                         least : Int, base : {"full_total", "money_paid"}, fixed : Int,
                         oncePerDay : BOOLEAN, share : Int]

VARIABLES fsm,      \* the state of the conversation of each cashier
          draft,    \* its data
          chat,     \* the buttons of the cards in the chat of each cashier
          updates,  \* the handlers under way
          menu,     \* the prices of the items that are available
          balance,  \* GuestProfile.loyalty_balance
          ledger,   \* the sum of the bonus transactions of a guest
          today,    \* how often each program has awarded a guest since midnight
          sales,    \* WalkInSale
          changes   \* how often the menu and the day have changed

vars == <<fsm, draft, chat, updates, menu, balance, ledger, today, sales, changes>>
accounts == <<balance, ledger, today, sales>>
venue == <<menu, changes>>

Unset == "unset"            \* customer_code is None
NoDraft == [customer |-> Unset, items |-> [i \in Items |-> 0],
            redeem |-> FALSE, card |-> 0]
Free == [kind |-> "none"]

-----------------------------------------------------------------------------
(* What a sale costs and what it does to the bonuses.                      *)

(* percent of x: Decimal.quantize rounds half to even                      *)
Percent(x, percent) ==
  LET whole == (x * percent) \div 10000
      rest == (x * percent) % 10000
  IN IF rest > 5000 \/ (rest = 5000 /\ whole % 2 = 1) THEN whole + 1 ELSE whole

(* the items of a draft that are sold *)
Payload(d) == {i \in Items : d.items[i] > 0}

(* every item of the draft is available *)
Sellable(d) == Payload(d) \subseteq DOMAIN menu

Total(d) == SumFunctionOnSet([i \in Payload(d) |-> menu[i] * d.items[i]], Payload(d))

MaxRedeemShare == Max({p.share : p \in Programs} \cup {0})

Redeemable(g, total) ==
  IF MaxRedeemShare = 0 THEN 0 ELSE Min({balance[g], Percent(total, MaxRedeemShare), total})

Cashback(p, total, spent) ==
  IF total < p.least THEN 0
  ELSE Percent(IF p.base = "money_paid" THEN Max({0, total - spent}) ELSE total, p.percent)

Visit(p, g) == IF p.oncePerDay /\ today[g][p] > 0 THEN 0 ELSE p.fixed

(* what the strategy of a program says; a milestone program counts orders: a sale has none *)
Strategy(p, g, total, spent) ==
  CASE p.kind = "cashback" -> Cashback(p, total, spent)
    [] p.kind = "visit" -> Visit(p, g)
    [] p.kind = "milestone" -> 0

(* only what is above zero is awarded *)
Award(p, g, total, spent) == Max({0, Strategy(p, g, total, spent)})

Sum(awards) == SumFunctionOnSet(awards, Programs)

(* what the guest of a draft can expect of it: nothing for an empty or anonymous one *)
Expected(d) ==
  IF d.customer \notin Guests \/ Payload(d) = {} \/ Total(d) = 0
  THEN [redeemable |-> 0, awards |-> [p \in Programs |-> 0]]
  ELSE LET redeemable == Redeemable(d.customer, Total(d))
       IN [redeemable |-> redeemable,
           awards |-> [p \in Programs |-> Award(p, d.customer, Total(d),
                                               IF d.redeem THEN redeemable ELSE 0)]]

-----------------------------------------------------------------------------
(* The card of a draft.                                                    *)

SaleCard(d) ==
  {<<"add", i>> : i \in DOMAIN menu \cup Payload(d)}
  \cup {<<"sub", i>> : i \in Payload(d)}
  \cup {<<"category">>, <<"change_customer">>, <<"comment">>, <<"comment_clear">>,
        <<"clear">>, <<"cancel">>}
  \cup (IF Expected(d).redeemable > 0 THEN {<<"redeem">>} ELSE {})
  \cup (IF Payload(d) # {} THEN {<<"confirm">>} ELSE {})

(* the draft is complete: a customer and the card it is shown on *)
Complete(d) == d.customer # Unset /\ d.card # 0

Tapped(c, k, button) ==
  /\ fsm[c] = "browsing_menu"
  /\ button \in chat[c][k]

Handles(u, kind) == updates[u].kind = kind
Finish(u) == updates' = [updates EXCEPT ![u] = Free]

(* a handler starts, with what it knows: the draft as it is now *)
Begin(u, update) ==
  /\ updates[u] = Free
  /\ updates' = [updates EXCEPT ![u] = update]
  /\ UNCHANGED <<fsm, draft, chat, accounts, venue>>

-----------------------------------------------------------------------------
(* The conversation.                                                       *)

(* "Quick sale" of the home screen: whatever was composed is dropped *)
Start(c) ==
  /\ fsm' = [fsm EXCEPT ![c] = "waiting_for_customer_code"]
  /\ draft' = [draft EXCEPT ![c] = NoDraft]
  /\ UNCHANGED <<chat, updates, accounts, venue>>

(* the cards of a cashier, those about to be sent too *)
Cards(c) == Len(chat[c]) + Cardinality({u \in Updates :
              updates[u].kind \in {"code", "send"} /\ updates[u].cashier = c})

AskedForCode(c, u, customer) ==
  /\ fsm[c] = "waiting_for_customer_code"
  /\ Cards(c) < MaxCards
  /\ Begin(u, [kind |-> "code", cashier |-> c, customer |-> customer])

(* the code of a guest is sent as a message *)
SendCode(c, u, g) == AskedForCode(c, u, g)

(* the button that means nobody, or a dash instead of the code *)
TapAnonymous(c, u) == AskedForCode(c, u, Anonymous)

(* a new draft; the card is still to be sent, the old one still counts *)
Fresh(u) ==
  LET t == updates[u] c == t.cashier IN
  /\ Handles(u, "code")
  /\ fsm' = [fsm EXCEPT ![c] = "browsing_menu"]
  /\ draft' = [draft EXCEPT ![c] = [NoDraft EXCEPT !.customer = t.customer,
                                                           !.card = draft[c].card]]
  /\ updates' = [updates EXCEPT ![u].kind = "send"]
  /\ UNCHANGED <<chat, accounts, venue>>

SendCard(u) ==
  LET t == updates[u] c == t.cashier IN
  /\ Handles(u, "send")
  /\ chat' = [chat EXCEPT ![c] = Append(@, SaleCard([NoDraft EXCEPT !.customer = t.customer]))]
  /\ draft' = [draft EXCEPT ![c].card = Len(chat'[c])]
  /\ Finish(u)
  /\ UNCHANGED <<fsm, accounts, venue>>

ChangeCustomer(c, k) ==
  /\ Tapped(c, k, <<"change_customer">>)
  /\ fsm' = [fsm EXCEPT ![c] = "waiting_for_customer_code"]
  /\ UNCHANGED <<draft, chat, updates, accounts, venue>>

AskComment(c, k) ==
  /\ Tapped(c, k, <<"comment">>)
  /\ fsm' = [fsm EXCEPT ![c] = "waiting_for_comment"]
  /\ UNCHANGED <<draft, chat, updates, accounts, venue>>

Cancel(c, k) ==
  /\ Tapped(c, k, <<"cancel">>)
  /\ fsm' = [fsm EXCEPT ![c] = "none"]
  /\ draft' = [draft EXCEPT ![c] = NoDraft]
  /\ chat' = [chat EXCEPT ![c][k] = {}]
  /\ UNCHANGED <<updates, accounts, venue>>

-----------------------------------------------------------------------------
(* The taps that change the draft.                                         *)

(* a tap whose handler goes on from the draft *)
Tap(c, u, k, button, kind) ==
  /\ Tapped(c, k, button)
  /\ Complete(draft[c])
  /\ Begin(u, [kind |-> kind, cashier |-> c, draft |-> draft[c]])

TapItem(c, u, k, kind, i) ==
  /\ kind = "add" => draft[c].items[i] < MaxQuantity
  /\ Tapped(c, k, <<kind, i>>)
  /\ Complete(draft[c])
  /\ Begin(u, [kind |-> kind, cashier |-> c, draft |-> draft[c], item |-> i])

TapConfirm(c, u, k) ==
  /\ Tapped(c, k, <<"confirm">>)
  /\ Complete(draft[c])
  /\ Payload(draft[c]) # {}
  /\ Begin(u, [kind |-> "confirm", cashier |-> c, draft |-> draft[c], card |-> k])

(* the comment, or a dash to clear it *)
SendComment(c, u) ==
  /\ fsm[c] = "waiting_for_comment"
  /\ Complete(draft[c])
  /\ Begin(u, [kind |-> "say", cashier |-> c, draft |-> draft[c]])

(* The end of a handler that sets one key: the card is drawn from the      *)
(* draft it read; if an item is gone it only says so.                      *)
Written(u, key, value) ==
  LET t == updates[u]
      c == t.cashier
      d == [t.draft EXCEPT ![key] = value]
  IN /\ IF Sellable(d)
        THEN /\ chat' = [chat EXCEPT ![c][d.card] = SaleCard(d)]
             /\ draft' = [draft EXCEPT ![c][key] = value, ![c].card = d.card]
        ELSE UNCHANGED <<chat, draft>>
     /\ Finish(u)
     /\ UNCHANGED <<accounts, venue>>

ToggleRedeem(u) ==
  /\ Handles(u, "redeem")
  /\ Written(u, "redeem", ~updates[u].draft.redeem)
  /\ UNCHANGED fsm

ClearItems(u) ==
  /\ Handles(u, "clear")
  /\ Written(u, "items", NoDraft.items)
  /\ UNCHANGED fsm

(* a category is shown, or the comment is cleared *)
DrawAgain(u) ==
  /\ Handles(u, "draw")
  /\ Written(u, "card", updates[u].draft.card)
  /\ UNCHANGED fsm

AddItem(u) ==
  /\ Handles(u, "add")
  /\ LET t == updates[u]
     IN Written(u, "items", [t.draft.items EXCEPT ![t.item] = @ + 1])
  /\ UNCHANGED fsm

SubItem(u) ==
  /\ Handles(u, "sub")
  /\ LET t == updates[u]
     IN Written(u, "items", [t.draft.items EXCEPT ![t.item] = Max({0, @ - 1})])
  /\ UNCHANGED fsm

KeepComment(u) ==
  /\ Handles(u, "say")
  /\ Written(u, "card", updates[u].draft.card)
  /\ fsm' = IF Sellable(updates[u].draft)
            THEN [fsm EXCEPT ![updates[u].cashier] = "browsing_menu"] ELSE fsm

-----------------------------------------------------------------------------
(* The sale.                                                               *)

(* the transaction opens: prices and what the guest can expect, unlocked *)
Preview(u) ==
  LET t == updates[u] IN
  /\ Handles(u, "confirm")
  /\ updates' = [updates EXCEPT ![u] =
       IF Sellable(t.draft) /\ Total(t.draft) > 0
       THEN [kind |-> "register", cashier |-> t.cashier, card |-> t.card,
             customer |-> t.draft.customer, redeem |-> t.draft.redeem,
             total |-> Total(t.draft), expected |-> Expected(t.draft)]
       ELSE Free]
  /\ UNCHANGED <<fsm, draft, chat, accounts, venue>>

(* the bonuses the locked guest pays with *)
Spent_BugExpected(t) == IF t.redeem THEN t.expected.redeemable ELSE 0
Spent(t) == IF t.redeem THEN Redeemable(t.customer, t.total) ELSE 0

(* what the programs award for it *)
Awards_BugExpected(t) == t.expected.awards
Awards(t) == [p \in Programs |-> Award(p, t.customer, t.total, Spent(t))]

Sold(t, spent, awarded) ==
  Append(sales, [customer |-> t.customer, amount |-> t.total,
                 spent |-> spent, awarded |-> awarded])

(* The guest is locked, and the ledger must add up to the balance.         *)
RegisterForGuest(t) ==
  LET g == t.customer
      awards == Awards(t)
      entries == Sum(awards) - Spent(t)
  IN /\ balance[g] = ledger[g]
     /\ ledger' = [ledger EXCEPT ![g] = @ + entries]
     /\ balance' = [balance EXCEPT ![g] = @ + entries]
     /\ today' = [today EXCEPT ![g] =
          [p \in Programs |-> @[p] + (IF awards[p] > 0 THEN 1 ELSE 0)]]
     /\ sales' = Sold(t, Spent(t), Sum(awards))

RegisterAnonymous(t) ==
  /\ sales' = Sold(t, 0, 0)
  /\ UNCHANGED <<balance, ledger, today>>

Register(u) ==
  /\ Handles(u, "register")
  /\ Len(sales) < MaxSales
  /\ IF updates[u].customer = Anonymous
     THEN RegisterAnonymous(updates[u]) ELSE RegisterForGuest(updates[u])
  /\ updates' = [updates EXCEPT ![u] =
       [kind |-> "sold", cashier |-> updates[u].cashier, card |-> updates[u].card]]
  /\ UNCHANGED <<fsm, draft, chat, venue>>

(* the conversation ends, whatever is composed in it by now *)
Done(u) ==
  LET c == updates[u].cashier IN
  /\ Handles(u, "sold")
  /\ fsm' = [fsm EXCEPT ![c] = "none"]
  /\ draft' = [draft EXCEPT ![c] = NoDraft]
  /\ chat' = [chat EXCEPT ![c][updates[u].card] = {}]
  /\ Finish(u)
  /\ UNCHANGED <<accounts, venue>>

-----------------------------------------------------------------------------
(* The venue.                                                              *)

(* the owner changes a price or takes an item off the menu *)
ChangeMenu(i, price) ==
  /\ changes < MaxChanges
  /\ changes' = changes + 1
  /\ menu' = [j \in DOMAIN menu \cup {i} |-> IF j = i THEN price ELSE menu[j]]
  /\ UNCHANGED <<fsm, draft, chat, updates, accounts>>

TakeOff(i) ==
  /\ changes < MaxChanges
  /\ changes' = changes + 1
  /\ menu' = [j \in DOMAIN menu \ {i} |-> menu[j]]
  /\ UNCHANGED <<fsm, draft, chat, updates, accounts>>

Midnight ==
  /\ changes < MaxChanges
  /\ changes' = changes + 1
  /\ today' = [g \in Guests |-> [p \in Programs |-> 0]]
  /\ UNCHANGED <<fsm, draft, chat, updates, menu, balance, ledger, sales>>

-----------------------------------------------------------------------------
Init ==
  /\ fsm = [c \in Cashiers |-> "none"]
  /\ draft = [c \in Cashiers |-> NoDraft]
  /\ chat = [c \in Cashiers |-> << >>]
  /\ updates = [u \in Updates |-> Free]
  /\ menu \in [Items -> Prices]
  /\ balance = [g \in Guests |-> FirstBalance]
  /\ ledger = balance
  /\ today = [g \in Guests |-> [p \in Programs |-> 0]]
  /\ sales = << >>
  /\ changes = 0

Talks(c) ==
  \/ Start(c)
  \/ \E k \in DOMAIN chat[c] : ChangeCustomer(c, k) \/ AskComment(c, k) \/ Cancel(c, k)
  \/ \E u \in Updates :
       \/ \E g \in Guests : SendCode(c, u, g)
       \/ TapAnonymous(c, u)
       \/ SendComment(c, u)
       \/ \E k \in DOMAIN chat[c] :
            \/ Tap(c, u, k, <<"redeem">>, "redeem")
            \/ Tap(c, u, k, <<"clear">>, "clear")
            \/ \E button \in {"category", "comment_clear"} : Tap(c, u, k, <<button>>, "draw")
            \/ \E kind \in {"add", "sub"}, i \in Items : TapItem(c, u, k, kind, i)
            \/ TapConfirm(c, u, k)

Handler(u) ==
  \/ Fresh(u) \/ SendCard(u)
  \/ ToggleRedeem(u) \/ ClearItems(u) \/ DrawAgain(u)
  \/ AddItem(u) \/ SubItem(u) \/ KeepComment(u)
  \/ Preview(u) \/ Register(u) \/ Done(u)

Next ==
  \/ \E c \in Cashiers : Talks(c)
  \/ \E u \in Updates : Handler(u)
  \/ \E i \in Items : TakeOff(i) \/ \E price \in Prices : ChangeMenu(i, price)
  \/ Midnight

Spec == Init /\ [][Next]_vars

-----------------------------------------------------------------------------
(* However the sales of two cashiers to one guest interleave, a sale is    *)
(* paid with bonuses the guest held before it, never with what it earns,   *)
(* and with no more than the share of the price as it was read; the        *)
(* ledger moves by just what the sale says (TABLEOS_TZ.md:1154,            *)
(* apps/bonuses/services.py register_walk_in_sale).                        *)
RedeemsWhatIsHeld ==
  [][sales' # sales =>
       LET s == sales'[Len(sales')] IN
       IF s.customer \in Guests
       THEN /\ s.spent <= ledger[s.customer]
            /\ s.spent <= Percent(s.amount, MaxRedeemShare)
            /\ ledger'[s.customer] = ledger[s.customer] - s.spent + s.awarded
       ELSE ledger' = ledger]_vars

(* A guest gets one visit bonus a day, however many cashiers sell to this  *)
(* guest at once and however often one taps "confirm"                      *)
(* (apps/bonuses/strategies.py _visit_bonus, once_per_day).                *)
VisitBonusOnce ==
  \A g \in Guests, p \in Programs :
    p.kind = "visit" /\ p.oncePerDay => today[g][p] <= 1
=============================================================================
