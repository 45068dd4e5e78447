# TLA+ models of TableOS

TableOS is a venue backend: a Django monolith (`src/apps/`), a Telegram bot that
calls its services (`src/bot/`), Celery workers, PostgreSQL and Redis. Guests scan a
table, order, ask for a bill and pay; staff serve orders, take money and correct
bills; venues reward purchases with bonuses and send broadcasts.

All state is in PostgreSQL. A service function is one transaction; bot handlers,
admin requests and Celery tasks run at the same time, under READ COMMITTED. What
protects the data is row locks (`select_for_update`), unique constraints, and the
order in which rows are read and locked. That is what the models are about: each
model keeps the control of the services it covers (guards, early returns, order of
reads and locks, writes) and abstracts the data to what the properties tell apart.

1. [Inventory](#inventory)
2. [Modules and how they correspond to the code](#modules)
3. [What the runs check](#runs)
4. [Fairness](#fairness)
5. [What is proved](#proofs)
6. [Where the code and its documents disagree](#findings)
7. [What is not modelled](#not-modelled)
8. [Plan](#plan)

## Inventory <a name="inventory"></a>

| Component | State | Operations | Hard behaviour | Correct when |
|---|---|---|---|---|
| Billing core, `apps/billing/services.py` | bills, active lines, bill-order links, payments, adjustments | create, extend, issue, pay with money or bonuses, remove lines, void, cancel an order with its lines | two commands over the same order; reads without a lock; partial payments against corrections | a line is charged once, amounts agree, closed bills are final, orders are paid exactly by paid bills |
| Orders, `apps/orders/services.py` | orders and their status, carts | create, status transitions, confirmation of receipt, cart edits, checkout | cancel against billing, prepaid orders, double checkout | no canceled order is charged, no prepaid order is in work unpaid, a cart is one order |
| Bonuses, `apps/bonuses` | ledger, balance, programs, walk-in sales | award, redeem, return, manual operations | two payments by one guest, settling again, rounding of shares | the balance is the ledger, never negative; an order is awarded once |
| Table sessions and visits, `apps/tables/services.py` | sessions, visits | scan, join a visit, move, close a session or a visit | guests come and go while staff close and payments settle; carts are tied to sessions read without a lock | nobody sits in a closed visit, a visit closes settled and is not forgotten |
| Table bills, `apps/billing/table_bills.py` | bill requests | bills of a table, requests, follow-up of a payment | follow-up against other commands on the same rows; bills looked up without a lock | no request waits for a bill that is paid or voided, an answered one stays answered, payments never all wait, the follow-up never undoes a payment |
| Remote orders, `apps/billing/remote_orders.py` | prepaid order and its bill | quote, place, confirm or reject the transfer | confirm against reject, stale quotes, retries | accepted or voided, never both; the amount is the one shown |
| Broadcasts, `apps/notifications` | campaign, delivery rows, claims | queue, start, claim a batch, recheck, send, record, advance, recover | crashes between claim and send, repeated and lost tasks, expired leases | at most one message, true outcomes, right counters, an end |
| Staff and guest notifications, `apps/notifications` | notification rows | queue on commit, deliver, retry, take an order | lost tasks, two deliveries at once, updates that overtake each other | at least once, one employee takes an order, the last status is told |
| Bot, `bot/` | conversation state, drafts of quick sales, cards with buttons | dialogues that call the services | buttons older than what they show, two handlers on one draft | a command looks again at what it has locked |
| Analytics | none | reports | read-only | sums |
| Menu, partners, employees, users | rows edited in the admin | create, read, update | little beyond constraints | constraints |

How they interact:

- The core of billing imports nothing of the table channel (ADR-0009). Table bills
  and remote orders build on it; a payment calls `after_table_bill_paid` back in
  its own transaction.
- Bonuses are awarded, redeemed and returned by the core in the transaction of the
  payment or the void, under a lock on the guest.
- Sessions and visits read orders, carts and requests to decide what may close, and
  are closed by scans, by the staff, and by payments.
- Notifications and broadcasts are queued on commit and run in Celery.
- The bot calls the services from callbacks; what a button says was true when its
  message was made, and handlers of one chat run at the same time.

The list of hazards, each with its line and the properties that would catch it
going wrong, is in `PROJECT.json`; those without a property say why.

## Modules and how they correspond to the code <a name="modules"></a>

| Module | What it is |
|---|---|
| `Billing` | the billing core with orders and the bonus ledger |
| `Settlement` | what billing promises about order lines; implemented by `Billing` |
| `Broadcast` | one broadcast campaign with its workers, tasks and recovery |
| `Mailing` | what a mailing promises; implemented by `Broadcast` |
| `Visits` | table sessions and visits |
| `TableBills` | bill requests, bills of a table, and what follows a payment |
| `GuestOrders` | carts, their checkout, and prepaid orders up to their placing |
| `StaffDelivery` | notifications of the staff, taking an order, updates of the guest |
| `StaffDesk` | the cards of the staff over orders, transfers and bills |
| `QuickSale` | walk-in sales: the conversation, the draft, the registration |
| `BillingProofs`, `BroadcastProofs`, `VisitsProofs`, `TableBillsProofs`, `GuestOrdersProofs`, `StaffDeliveryProofs`, `StaffDeskProofs`, `QuickSaleProofs` | theorems about the module of that name |
| `MCBilling`, `MCBroadcast`, `MCVisits`, `MCTableBills`, `MCGuestOrders`, `MCStaffDelivery`, `MCStaffDesk`, `MCQuickSale` | small instances for TLC |

The modules meet at these seams. `Billing` has every command on bills; `TableBills`,
`GuestOrders` and `StaffDesk` call them and keep of a bill only what their own
questions need (is it open, what does it ask for, whose bonuses did it take).
`Visits` has the sessions and visits that `TableBills` closes; `TableBills` has the
requests that `Visits` leaves out. `GuestOrders` ends where an order is placed,
`StaffDesk` begins there, and `StaffDelivery` is what both publish.

Conventions. A command that reads only rows it has locked is one action, since no
other command on those rows can commit in between. A command that decides on
something it read without a lock, or that takes its locks one after another, is
split at those points. A command that raises is rolled back, and so is no step. An
operator `X_Bug...` is `X` with a plausible mistake (a dropped filter, a missing
lock, a swapped order); no action uses it, and each property is shown to fail when
one takes the place of its original. `PROJECT.json` maps every definition to the
lines it stands for.

### Billing

State: the status of orders and the ones with `paid_at`; for each bill its status,
context (table and visit), primary guest, active lines, linked orders and stored
amounts; the rows of the bonus ledger; and what two commands have read and not yet
committed.

| Action | Code |
|---|---|
| `CreateOrder`, `TransitionOrder`, `ConfirmReceived` | `create_order`, `transition_order_status`, `confirm_order_received_by_guest` |
| `CreateBill`, `IssueBill` | `create_bill_from_orders` (locks the orders and their lines), `issue_bill` |
| `AttachRead`, `AttachCommit`, `AttachAbort` | `attach_orders_to_bill`: the bill is locked, the orders are read without a lock |
| `RecordPayment` | `record_payment`, with the settlement of the orders and the awards |
| `PayWithBonuses`, `RedeemBonus` | `pay_bill_with_bonuses`, `redeem_bonus_for_bill` |
| `RemoveLines`, `VoidBill` | `remove_bill_lines`, `void_bill` |
| `CancelRead`, `CancelCommit`, `CancelAbort` | `cancel_order`: the lines are collected without a lock; the cancellation checks again |

Money is a number of kopecks. `Worth` gives what a set of lines costs, as any
additive measure, so that the proofs need no sum over lines. `Accruals` is the set
of amounts a bonus program may award: how a program computes its amount is a
nondeterministic choice, that it is awarded at most once per order is not.
Left out: permissions and reasons of corrections, their history, notifications,
and the follow-up on requests and sessions (in `TableBills` and `Visits`).

### Broadcast

State: the campaign and its counters, a delivery row per guest with the claim that
holds it, how many messages each guest really got, who is eligible now, the
messages of the broker, and for each worker the point its task has reached with
what it holds in memory (its token, its batch, the answer of Telegram, the open
rows it has seen).

| Action | Code |
|---|---|
| `QueueCampaign` | `send_broadcast_campaign` and the scheduled start |
| `StartBroadcast`, `FailBroadcast` | `_start_broadcast`: the audience becomes pending rows; `_fail_broadcast` |
| `ClaimBatch`, `Recheck`, `SkipGuest` | a batch is claimed under a token, its guests are looked at again |
| `SendMessage`, `RecordAnswer`, `FinishBatch` | one call to Telegram and one stored outcome per guest |
| `ReadOpen`, `AdvanceBroadcast` | `_advance_broadcast`: two reads of the rows under the lock on the campaign |
| `ExpireClaims`, `RecoverCampaign` | `recover_stalled_broadcast_campaigns` |
| `Crash`, `BrokerFault` | a worker dies (its message returns), a message is lost or repeated |
| `ChangePreference` | a guest opts in or out, blocks or unblocks the bot |

Abstractions: when a lease runs out is left open, except that older claims run out
first; workers that claim with `skip_locked` claim one after another; to finish a
row and to mark its guest as having blocked the bot are one step; retries that run
out are a lost message; error texts are left out. The branch of `_start_broadcast`
for a campaign that is sending without rows (left by an older version) cannot be
reached from a fresh campaign and is not modelled. `MaxTasks` bounds the messages
that recovery and the admin add, `MaxFaults` the crashes, losses and repetitions.

### Visits

State: visits, sessions and orders, numbered as they are made; what is paid,
received and canceled; the cart of a guest; the scan, the command on the cart, the
checkout and the closing that are under way, with the session a command has read.
`late`, `strayCarts` and `stray` are history and no action depends on them: the orders
stored when their session had already closed, the carts tied to a session that had
already closed, and the orders made of those.

| Action | Code |
|---|---|
| `PlanScan` | `activate_table_session`: the guest and the table are locked, the visits only read |
| `LeaveVisits` | the sessions and the visit the guest leaves are locked; does the visit close? |
| `FinishScan` | the visit the guest joins is locked, joined if it is still open or replaced by a new one; commit |
| `AbortScan` | PostgreSQL finds a deadlock of scans and rolls one back |
| `ReadForCart`, `TieCart` | a command on the cart: `get_active_table_session` without a lock, then the active cart is locked and tied to that session, or made for it, and nobody looks at the session again |
| `ReadForCheckout`, `LockCart`, `FailCheckout`, `FinishCheckout` | a checkout: the session is read, the cart locked and compared with it, the order stored |
| `UntieCart` | the cart becomes one for pickup |
| `ReceiveOrder`, `CancelOrder` | orders |
| `PayOrders` | a payment, which closes the sessions it settles and their visits |
| `CloseSession` | `close_table_session_if_settled` |
| `ListSessions`, `CloseVisit` | `close_table_visit`: it locks the sessions it found, then the visit |

A guest may have one command on the cart and one checkout under way, together with a
scan. So two taps that have both read a session may outlive it: the staff close it
(there is no cart and no debt), the first tap makes a cart for it and the second stores
an order under it, although its guest never moved. The code allows this, and the
properties say so: `ClosedWithoutDebt` excepts the orders of such carts, and `ClosesSettled`
all that were stored late. What they exclude is that the closing itself overlooks
a debt or a checkout under way.

Left out: what else refuses to close a session (bill requests, open bills), since a
refusal changes nothing; `close_table_session`, which closes without looking and
which no production code calls; table numbers and the check of QR codes; the bonus
for a visit; notifications.

### TableBills

State: who is seated; orders with their status, guest, payment and bill; bills with
status, kind and primary guest; requests with status, guest and bill; for each asker
the preparation of bills that is under way; and for each cashier the payment, removal of
lines or closing under way, with what it has listed and locked.

| Action | Code |
|---|---|
| `GuestAsks`, `StaffAsks`, `FindOrders` | `request_bill_callback`, `create_billing_request`, the buttons of a table: an open bill is looked for, then the orders not billed, both without a lock |
| `AskExtends`, `AskCreates`, `AskSplit`, `AskFails` | `attach_orders_to_bill` or `create_bill_from_orders` under their locks, with the stored request; or the error |
| `BeginPayment`, `BeginRemoval` | the last money of `record_payment`; `remove_bill_lines` that leaves just what is paid, by itself or within `cancel_order` |
| `MarkRequest`, `FollowUpRaises` | the requests of the bill, then those of a session: listed, locked and read again one by one |
| `ListSessions`, `ListSessionRequests`, `LockSession`, `LockVisit` | `_close_settled_sessions_of_bill`: the sessions of the bill; for each that looks settled its requests, the lock on its row and, when it closes, on the visit (`_close_visit_if_finished`) |
| `Commit`, `CancelFails`, `BreakDeadlock` | all that was written appears, or none: the order can no longer be canceled, or PostgreSQL rolls back one of a circle |
| `BeginClosing` | a session locked for another reason: its guest sits down elsewhere, the staff close it |
| `RemoveLines`, `VoidBill`, `FinishRequest` | `remove_bill_lines` and `cancel_order` of a bill that stays open, perhaps empty; `void_bill` with `after_table_bill_voided`; the cards and the admin |
| `Checkout`, `ServeOrder`, `CancelOrder` | orders, as far as bills see them |

Locks are kept to the commit: `pay[c].bill`, `marked` (requests), `held` (sessions),
`visit`, and the orders the payment covers. A session that turns out not to be closable
is let go of, since its error rolls back to a savepoint. `WaitsFor` has the three kinds of
row one transaction may wait for while another holds it, and a circle of waiting ones may
have any number of members and mix the kinds (`Circle`); the smallest ones are broken. The guards of the
steps have names (`MeetsCanceled`, `MayMark`, `MayLock`, `MayLockVisit`, `MayCommit`,
`Deadlocked`), and `CanGoOn` says that one of them holds, so that `PaymentsProceed` is a
plain invariant.

A removal that empties an open bill leaves its requests linked to it
(`apps/billing/services.py:903`, `1061`). `record_payment` then refuses the bill, and the
request waits until the bill is extended or voided. `PendingBillOpen` does not exclude
this, since the code does not: it says that the bill is neither paid nor voided.

Left out: money (in `Billing`; here a removal may settle any bill that keeps a line);
moving to a visit, joining one and `close_table_visit` (in `Visits`); the cooldown between
two like requests, which only refuses. All lines of an order are in one bill and leave it
together. Payments and closings take their locks one after another, the other commands
all at once, so that circles through the latter are not shown: a command that
prepares bills also takes shared locks on the visit and the session its rows refer to.
PostgreSQL breaks those as well. `Wants` says who asks for what in an instance and `Places`
who places which order; `MaxActs` bounds what happens besides asking and paying,
`MaxWork` that and the orders together.

### GuestOrders

State: the table session of the guest; carts with status, channel, session, items
and the stored total; orders; the bonuses; the last summary with its button; and the
commands of the guest under way, each with what it has read.

| Action | Code |
|---|---|
| `TapAdd`, `TapRemove`, `TapSwitch`, `TapCheckout`, `Scan` | handlers that find the session first |
| `Add`, `Remove`, `Switch`, `Checkout` | `add_items_to_cart`, `change_cart_item_quantity`, `remove_cart_item`, `switch_cart_channel`, `checkout_active_cart_for_telegram_user`, with the cart locked and aligned (`Found`, `Align`) |
| `Look`, `View`, `ClearDelete`, `ClearCommit` | `get_active_cart_for_telegram_user` and `clear_active_cart`, which lock nothing: a read and a write of the changed fields |
| `Quote`, `TapPaid`, `Place` | the summary of `remote_checkout.py`, its button, `place_remote_order` |
| `Fails`, `Leave`, `BonusesElsewhere` | errors; a session that ends; other bills |

Left out: phone number, opening hours, the choice of a time and the switches of the
venue, which only refuse. An item is one unit of a dish; `Worth` is any price of a set
of items.

### StaffDelivery

State: one order and who has taken it; a row per notification; tasks at the broker
with their retries; the workers; the status each tap on "take it" has read; who was
told "you have taken it" and what the guest was shown; tasks lost or given up.

| Action | Code |
|---|---|
| `PlaceOrder`, `StaffMoves`, `GuestReceives`, `GuestCalls` | commands that store notifications and publish tasks on commit (`notify_staff_...`, `send_guest_order_status_update`) |
| `TapTake`, `Take`, `TakenByOther` | `staff_notification_accept_order_callback_handler`: the order is read, then moved under its lock |
| `Begin`, `Send`, `Save` | a Celery task: the row is read without a lock, Telegram asked, the outcome saved or raised |
| `Crash`, `Redeliver`, `Lose`, `EmployeeLeaves`, `GuestOptsOut` | late acknowledgement, repeated delivery, a lost task, people who go |

### StaffDesk

State: orders and the ones with `paid_at`; for each bill status, lines, money taken
and bonuses spent; the bonuses of the guest; the buttons each employee looks at; a
command that has read and not yet locked; who was told what about a transfer.

| Action | Code |
|---|---|
| `ListOrders`, `ListBills`, `ListTables`, `OpenOrder`, `OpenTable`, `OpenBill`, `OpenEdit`, `AskReject`, `AskRemove`, `AskCancel`, `AskVoid` | handlers that make a card; the keyboards of `bot/keyboards/staff.py` are `OrderCard`, `BillCard`, ... |
| `Move`, `TapCancel`, `Cancel` | status buttons; `cancel_order`, which reads its lines before it locks |
| `Confirm`, `Reject` | `confirm_transfer`, `reject_transfer` |
| `MakeBill`, `Issue`, `TapPay`, `Pay`, `PayWithBonuses` | the buttons of a table and of a bill; what is short is read at the tap and checked under the lock |
| `TapRemove`, `Remove`, `Void` | `remove_bill_lines`, `void_bill` with a reason |

Every command of a card can be tapped as long as the message stands, whatever
colleagues have done since. One message per employee is followed; a line costs 1; bonus
programs award nothing; the comment to a change, which is one more message, and part
payments, which the bot does not offer, are left out.

### QuickSale

State: the state of the conversation of each cashier and its draft; the cards in the
chat; the handlers under way; the menu; balance and ledger of each guest; what each
program has awarded today; the sales.

| Action | Code |
|---|---|
| `Start`, `SendCode`, `TapAnonymous`, `SendCard`, `ChangeCustomer`, `AskComment`, `Cancel` | the conversation |
| `TapItem`, `ToggleRedeem`, `ClearItems`, `AddItem`, `SubItem`, `KeepComment`, `DrawAgain` | a handler reads the draft, waits, and writes back only its keys |
| `TapConfirm`, `Preview`, `RegisterForGuest`, `RegisterAnonymous`, `Done` | `register_walk_in_sale`: a preview without a lock, then the guest is locked and balance and ledger read again |
| `ChangeMenu`, `TakeOff`, `Midnight` | the admin and the calendar |

`Percent` rounds half to even, as the code does. Amounts and percents are in hundredths,
and a program may be set up with any, also below zero: then it awards nothing
(`Award`). Left out: the text of the comment, the
category shown, the message that was deleted and is sent again, roles, and the command
and admin form that register a purchase by hand with the same functions.

## What the runs check <a name="runs"></a>

`tlc -config X.cfg M`, with `M` the MC module of the run. `PROJECT.json` gives the
cfg of each run. Times are for two workers.

| Run | Instance | What it shows |
|---|---|---|
| `billing_races` | two bills, two orders of one line, two guests (100 s) | `attach_orders_to_bill` and `cancel_order` interleaved with every other command: what they have read and rely on stays true to their commit, a line is charged once, orders are paid exactly by paid bills, closed bills are final, a canceled order leaves no line |
| `billing_ledger` | two bills over an order of two lines and a prepaid order of one guest with a bonus, awards of 1 | partial payments, single lines removed down to the paid amount, prepaid orders not in work unpaid; bonus payments, awards and returns conserve the ledger, an order is awarded once; `Billing` implements `Settlement` |
| `broadcast_safety` | three guests in batches of two, two workers, two extra messages, one fault (2,951,500 states, 130 s) | at most one message per guest, true and final outcomes, right counters, with mixed and partial batches and crashes inside one; `Broadcast` implements `Mailing` |
| `broadcast_liveness` | two guests in batches of one, two workers, one fault, no symmetry (439,916 states, 105 s) | a campaign that started ends, no row stays claimed |
| `visits_safety` | two guests, one of whom orders, two tables, four sessions, three visits, one order (3,395,700 states, 140 s) | nobody joins a closed visit, visits close settled, the last one out closes the visit, neither the staff nor a payment close a session that owes something or is about to |
| `table_bills_follow_up` | three guests with an order each, two of whom ask for a shared bill and one for a split, a manager who prepares personal ones, two cashiers, two bills, two requests, one act of the staff or a guest in place of an order (3,606,830 states, 160 s) | a request waits for a bill that is neither paid nor voided, an answered request stays answered, payments and closings never all wait for each other |
| `guest_orders` | one guest, two taps at once, a dish for the table and one to take away, two carts, two sessions (1,111,646 states, 35 s) | a cart is one order, a prepaid order costs what was shown although the stored total may be wrong, bonuses are spent once |
| `staff_delivery` | two employees, two workers, one retry, two faults (1,907,591 states, 53 s) | one employee takes the order, no notification is forgotten, the guest is told the last status |
| `staff_desk` | two employees, one of whom may change bills; a prepaid order of two lines, an order of one, two bills (661,269 states, 33 s) | with cards of any age a transfer is settled once, a bill paid once, the bonuses are whole |
| `quick_sale` | one cashier with two handlers and two cards, two sales, one change of the menu or the day (1,934,004 states, 61 s) | a sale spends only what the guest holds when it is registered and pays a visit bonus once a day |
| `visits_join_race`, `table_bills_payment_undone` | small | the disagreements [below](#findings) |

Why the bounds are enough. Two bills and two orders are what a conflict over a line
needs; a third bill conflicts with each of them alone. Lines cost 1 so that a
payment may be partial and a removal may stop exactly at what is paid; that other
prices add nothing is what the proofs show. One guest with two bills is what it takes
to spend a balance twice. Two workers let a task be repeated while the first copy
dies; batches of two of three guests make a full batch, a partial one, and skipped and
sent rows in one; the liveness run has batches of one, whose ends and starts interleave
with the other worker. Two guests and two tables are enough to swap tables and to leave
a visit together; four sessions let both guests move once, three visits let a visit be
left, closed and replaced. The order is one because debts of different orders matter
only through their being there, and for the same reason one guest orders: the other one
joins, leaves and is seated or not. A command on the cart, a checkout and a scan of that guest
are under way at once.

For a bill, two cashiers and two requests are what a circle of payments that mark each
other's requests takes; with a guest more, two payments close sessions of the same visit and
meet at its lock, one of them may hold the visit and wait for a request the other has marked,
and a session is closed under a payment that has it listed. Circles of three or more are
covered by the proof only. Two bills are what it takes for a payment, a void and a split to
meet; of a removal, a void, a canceled order and a closing at a time one is what the bound
`MaxActs` allows, next to any payments. Two taps
of one guest are every pair of commands on a cart; two carts let one be checked out or
abandoned and replaced; two units of bonuses at a share of 50 percent let the amount to
spend change while the cart does not. The menus of the two kinds of order do not overlap,
so a switch empties a cart that held something; with a take-away menu of both dishes,
where it may drop one and keep one, the instance has 5,892,323 states and satisfies the
same invariants, but takes longer than a run should. Two employees are a double tap (an employee
waits for the answer to a tap) and a tap on a card that a colleague has outdated; two
lines let a bill be corrected and paid afterwards. In a quick sale a second cashier does
to the accounts of a guest what a second handler of the same cashier does, and a second
handler does more, for it shares the draft.

Deadlock is checked in `staff_desk` and `quick_sale`, where an employee can always open
a list or start again. The other instances are finite (a bounded number of orders,
sessions or messages), so each of them stops when the bound is used up, and a venue with
nothing left to do is idle. The deadlocks of the database are actions (`AbortScan`,
`BreakDeadlock`); that the payments and closings of `TableBills` do not all wait in any other
way, for the rows that module keeps, is `PaymentsProceed`.

Symmetry is used where the values are alike: bills; guests and workers of a campaign;
guests and tables; cashiers who take payments; taps; employees and workers; handlers.
The run with liveness, `staff_desk` (whose employees have different rights) and
`table_bills_payment_undone` go without it.

## Fairness <a name="fairness"></a>

`Broadcast!Fairness` is what Celery and its beat schedule give: a worker that has
nothing else to do takes a message that waits (`StartBroadcast`), a running task
goes on unless it crashes (`WorkerStep`), and the recovery, which beat starts every
five minutes (`src/core/settings/base.py:118-127`), comes again and again
(`ExpireClaims`, `RecoverCampaign`). Weak fairness is enough, since each of these
stays possible until somebody takes it. Nobody has to queue a campaign, guests need
not change their minds, and no fault has to happen. Nothing is assumed of guests and
employees in the other modules, who may stop at any time, so there is no liveness
property there. That a task of `StaffDelivery` is delivered in the end is not stated
either: it holds only if neither faults nor retries run out, and what does hold without
such an assumption, that somebody still has the task, is `NoneForgotten`.

## What is proved <a name="proofs"></a>

TLAPS checks the proofs for all values of the constants that satisfy the assumptions
named in the modules (`RowsAssumption`, `MoneyAssumption`, `BroadcastAssumption`,
`VisitsAssumption`, `TableBillsAssumption`, `GuestOrdersAssumption`,
`StaffDeliveryAssumption`, `StaffDeskAssumption`, `VenueAssumption`): any number of
orders, lines, bills, guests, workers, tables, requests, carts and taps, any prices, any
batch size, and of the table of allowed moves only what the theorems rest on (a final
order stays final, nothing becomes new again). Rows that are summed over, and payments
that wait in a circle, are finitely many (`IsFiniteSet`). All the safety properties of
the passing runs, invariants and action properties, are theorems, and so are both
refinements. Each component has an inductive invariant, a conjunction of named parts; a
lemma per part says what a step does to it, with a step of the proof per action.

**Sums.** Bonuses and awards are summed with `SumFunctionOnSet`, a fold. No induction
over data is needed for it: `Units(f, S)` has `f[x]` elements for each `x` of `S`; its
cardinality solves the recursion of the fold, and a smallest set where the two differed
(`FiniteMinimal`, from the well-founded order of finite sets) would have a smaller one
inside. So a sum is a cardinality (`SumIsUnits`), and what the proofs need of sums (any
element can be added last, terms may be moved by a bijection) are facts about finite
sets. Each module that needs these lemmas has its own copy.

**Billing** (`BillingProofs`). All its safety properties, and that `Billing` implements
`Settlement`. `IInv` is:
- `AllocationInv`: a line is in one live bill, a bill links exactly the orders it
  charges a line of, voided bills are empty, and the bill a running
  `attach_orders_to_bill` holds stays open and links none of the orders it has read.
  None of these is inductive alone: that an attached order is linked once follows from
  the check of its lines at the commit, the agreement of links and lines, and voided
  bills being empty.
- `MoneyInv`: stored totals are the worth of the lines less the bonuses, and paid is
  at most the total. That removal and payment agree rests on `Worth` being additive
  (`OneBillMoney`, `ReleaseMoney`).
- `SettledTogether`, `AwardsPaid`, `PickupPaidBeforeWork`: what a payment does to all
  the orders of a bill.
- `LedgerInv`, for `BonusesConserved`: the ledger and the bills tell the same. A bill
  that has spent bonuses has its redemption in the ledger, and its reversal once it is
  voided; there are no other rows of these kinds; no balance is below zero. A balance is
  a difference of sums over rows (`BalanceStep`). What a redemption takes is covered by
  the balance the payment has read under the lock of the guest (`LedgerSpends`).
- For the refinement, `Holder` names the bill a line belongs to; `ChangeIsReassign`
  turns a change of one bill's lines into the abstract step, `OneBillAtATime` shows
  that no step changes two.

**Broadcast** (`BroadcastProofs`). Its safety properties, and that it implements
`Mailing`. `IInv` says that a guest is in the hands of one claim: claim tokens are
unique (`TokenInv`), what a worker holds in memory under a token are rows claimed
with it or taken over as unknown (`WorkInv`), a guest still to be sent to has no
message, and an answer not yet recorded is true (`AnswerInv`). From this `AtMostOnce`
and `OutcomesTrue` follow. `CountingInv` says what the first read of
`_advance_broadcast` is still worth at the second: no new open rows appear while the
campaign is locked.

**Visits** (`VisitsProofs`). All its safety properties. A scan decides under its locks
whether the visit it leaves closes, and commits later; `DecisionInv` says that the
decision is still right. `SessionsStep` shows that every other step closes only
sessions that no scan holds, in visits that no scan holds; `HeldKept` that the visits
and sessions of a scan stay what they were; `DecisionNext` follows, with the orders
that may arrive, be paid or be canceled meanwhile. `LockInv` (scans hold different
visits) is why the last two guests of a visit do not both see the other. `ClosedWithoutDebt`
rests on `CheckoutInv` (a checkout that has locked the cart keeps it, and a closing looks at
the cart) and on `CartInv`: the session of a cart closes when its guest moves, or had closed
when the cart was tied to it. What a command has read of a session without a lock is used
for nothing else than that it is a session of this guest.

**TableBills** (`TableBillsProofs`). `PendingBillOpen`, `RequestsFinal` and
`PaymentsProceed`. A payment reads in steps what it writes at its commit, so the
invariant says what its memory is still worth. `HeldInv`: a payment under way holds an open bill, and no other payment
holds it. `MarkedInv` (with `Known`): nobody has finished a request that a payment has
marked. `AnsweredInv`: a request that waits for the bill of a payment is marked or still
on the list the payment made first, since a guest who asks meanwhile finds the bill
locked; so the commit leaves no request waiting. That bills and requests are numbered
without a gap (`Numbered`) is what makes a new row new; `Ranks` shows that the bills of
a split get different numbers. For `PaymentsProceed`, `RowSound` says that a payment locks
nothing it has locked already; so one that cannot go on waits for a request, a session or
the visit that another one holds (`StuckWaits`). If all wait, they form a circle, which
has a smallest one inside, since they are finitely many (`SmallestCircle`), and the
database breaks it. Payments of three cashiers can wait in a circle of three, so it is
not enough to break circles of two.

**GuestOrders** (`GuestOrdersProofs`). `OneOrderPerCart`, `ChargedAsShown` and
`BonusesKept`. A cart of an order is done with (`OrderedInv`); what could revive it is a command that saves a
cart it has read without a lock, and `LookInv` says that such a command writes a status
only to give the cart up. Nothing is said of the stored total, which does go wrong: the
amount of the button is compared with the items under the lock. `BonusInv` says that
orders not yet placed hold no bonuses, so that an order that is placed takes from the
account just what it adds to the sum (`OneOrderMore`).

**StaffDelivery** (`StaffDeliveryProofs`). `TakenOnce`, `NoneForgotten` and
`LastStatusTold`. `UpdatesInv`: the guest has been shown the status the order has, or a
`Carrier` will show it (a task, which will read it; a worker that has read it; a worker
that failed and will say so), or an update was lost. Every status change publishes a
carrier, and a carrier is used up only by showing the status or by a loss.

**StaffDesk** (`StaffDeskProofs`). `PaidOnce`, `TransferSettledOnce` and
`BonusesWhole`. `MoneyInv` is what a bill may look like (`Sound`), `LinesInv` that the lines of a prepaid order are in
the bill of its checkout only, `HandInv` that lines were read together with their bill.
`SaidInv` is `TransferSettledOnce` made inductive: a confirmed order keeps lines in a
paid bill, which nobody can change, and an order with such lines cannot be canceled.
`BonusesWhole` is inductive with it: a command that changes a bill moves what it has
spent to the account or back, and the sum over the other bills stays.

**QuickSale** (`QuickSaleProofs`). `VisitBonusOnce`: what a program has awarded is read
again under the lock of the guest (`NoSecondVisit`). `RedeemsWhatIsHeld`: `TalkInv` is
what drafts, cards, handlers under way and the menu look like, whatever the handlers
overwrite of each other, so that a sale costs a natural number (`TotalType`);
`RedeemableBounds` and `AwardType` bound what is spent and awarded, for any programs;
`MoneyInv` says that no account is below zero, since a sale spends at most what is held.

Only model-checked: liveness (`SendingEnds`, `NoClaimForever`), which is beyond the
prover. Not stated as a theorem: that `CanGoOn` is what enables `PaymentStep`, since the
prover has no `ENABLED`; a reader compares it with the guards. `NoSessionInClosedVisit`
and `PaymentStands` are refuted.

## Where the code and its documents disagree <a name="findings"></a>

Each is a run that TLC refutes; what is quoted is in `PROJECT.json`.

| Property | What happens |
|---|---|
| `NoSessionInClosedVisit` | `close_table_visit` lists the sessions before it locks the visit: a guest who joins in between sits in a closed visit |
| `PaymentStands` | `after_table_bill_paid` lists the open requests of the bill before it locks them: one that is canceled in between raises, and the payment is rolled back with it; so is one of two payments that mark each other's requests in opposite orders |

Seen in the models or while writing them, without a run of their own. Paths are relative
to `src/`; BS is `apps/billing/services.py`, TB `apps/billing/table_bills.py`, TS
`apps/tables/services.py`, NS `apps/notifications/services.py`, ST
`bot/handlers/staff.py`.

Bills and orders:
- `attach_orders_to_bill` checks the status of orders it has not locked: an order
  canceled in between is billed (BS:130).
- A line removed from a bill that keeps another line of its order is never offered for
  billing again, although `docs/architecture/B3_2_VISITS_AND_BILL_CHANGES.md:35` says it is.
- Two bills of two guests each, paid at once, lock the guests in different orders (BS:706).
- Bonus shares are rounded one by one, so that the last one may come out negative (BS:746).
- A bill of a prepaid order that is voided or emptied from its own card leaves a transfer
  that can be neither confirmed nor rejected (ST:823).
- After an order is canceled from its bill, the card shown is that of the last bill this
  employee took an order from, which may be another one (ST:2839; `lastCancel`).

Tables:
- Two guests who swap tables wait for each other (TS:330; `AbortScan`).
- A visit whose last debt is paid or canceled after its guest has left stays open until
  somebody scans or the staff close it (TB:431).
- A guest may join a party that has left meanwhile (TS:219), and a checkout under way
  stores its order under a session its guest has just left.
- A cart is tied to a session that was read without a lock: an order may be stored under a
  session the staff have closed, whose guest sits nowhere any more
  (`apps/orders/services.py:492`; `stray` in `Visits`).
- A bill that is emptied stays open, and a request that waits for it is answered by no
  payment (BS:903, BS:1061; `RemoveLines` in `TableBills`).
- Two payments that close different sessions of one visit wait for each other at its row
  (TS:330), also while one of them holds a request the other needs.

Messages:
- If the first task of a campaign is lost, the campaign stays scheduled: the recovery
  looks only at campaigns that are sending (NS:591).
- Rows finished after a campaign has failed are not counted any more (NS:829).
- A guest who opts out between the recheck and the call still gets the message (NS:759).
- The cooldown of calls is read without a lock, and its text search takes table 1 for
  table 12 (NS:419).

Quick sales:
- A double tap on "confirm" registers the sale twice, since the draft is cleared last
  (ST:2649); a slow tap writes old items into a new draft (ST:2570); the end of a sale
  clears whatever draft is there by then.

## What is not modelled <a name="not-modelled"></a>

- What each module leaves out is said with it above: among others the comments to
  changes of a bill, categories and deleted messages of a quick sale, bonus notices, the
  text of messages, opening hours and roles, which only refuse.
- The split of a bonus payment between the orders of a bill is a free choice, and so is
  the amount a program awards for an order; how a program computes the award of a sale
  is in `QuickSale`.
- Profiles, menu pages and reports of the bot; analytics, menu, partners, employees,
  users, admin forms, settings, seed commands, migrations: reports without state, rows
  edited one at a time, wiring.
- PostgreSQL itself: row locks, READ COMMITTED and the rollback of a deadlock victim
  are taken as documented; Telegram and the Celery broker as the code uses them.

## Plan <a name="plan"></a>

Done: `Billing`/`Settlement`, `Broadcast`/`Mailing`, `Visits`, `TableBills`,
`GuestOrders`, `StaffDelivery`, `StaffDesk`, `QuickSale`, and their proofs.

Next, in this order:

1. `LockOrder`: the rows each service locks and in which order; who may wait in a
   circle.
2. `BonusShare` and the opening hours as pure functions against a reference
   definition.
3. The award programs of orders, with the amounts that `Billing` leaves free.
4. An abstract specification of a transfer (waits, confirmed, refused) that both
   `GuestOrders` and `StaffDesk` implement.
