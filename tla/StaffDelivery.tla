---------------------------- MODULE StaffDelivery ----------------------------
(***************************************************************************)
(* How the staff hears of an order or of a guest who calls, how an         *)
(* employee takes the order from that notification, and how the guest      *)
(* hears of its status: the first half of apps/notifications/services.py,  *)
(* tasks.py, the notifications of bot/handlers/staff.py and                *)
(* bot/handlers/guest_call.py.                                             *)
(*                                                                         *)
(* A command writes its rows and publishes Celery tasks when it has        *)
(* committed.  A worker takes a task, reads the row without a lock, asks   *)
(* Telegram and saves what came of it; a transient failure raises, and     *)
(* Celery runs the task again, MaxRetries times at most.  Tasks are        *)
(* acknowledged late, so the task of a dead worker is delivered again.     *)
(*                                                                         *)
(* One order, and the calls of one table; a call after the cooldown is     *)
(* another call, and that a notification is read, which its delivery never *)
(* looks at, is left out.  MaxFaults bounds the losses, crashes, repeated  *)
(* deliveries, failures of Telegram and the employees who leave; the guest *)
(* opts out for good.                                                      *)
(* An operator X_Bug... is X with a plausible bug; nothing uses it here.   *)
(***************************************************************************)
EXTENDS Integers, FiniteSets

CONSTANTS
    Employee, Worker,
    Guest,          \* the guest of the order; not an employee
    Call,           \* request_staff_assistance: the calls there may be
    Allowed,        \* ORDER_STATUS_TRANSITIONS
    Wants,          \* the events an employee is notified of
    MaxRetries, MaxFaults

Status == DOMAIN Allowed
Final == {"completed", "canceled"}

ASSUME StaffDeliveryAssumption ==
    /\ Guest \notin Employee
    /\ {"new", "accepted"} \cup Final \subseteq Status
    /\ "absent" \notin Status
    /\ Allowed \in [Status -> SUBSET Status] /\ \A s \in Final : Allowed[s] = {}
    /\ \A s \in Status : "new" \notin Allowed[s] /\ ("accepted" \in Allowed[s] => s = "new")
    /\ Wants \in [Employee -> SUBSET {"created", "changed", "call"}]
    /\ MaxRetries \in Nat /\ MaxFaults \in Nat

VARIABLES
    order,       \* Order.status, "absent" before it is placed
    taker,       \* Order.assigned_employee
    note,        \* the StaffNotification of an employee and an event
    notifiable,  \* the employees who work here and let the bot notify them
    optedOut,    \* the guest has switched the updates off
    queue,       \* tasks at the broker, with the retries they have had
    worker,
    desk,        \* the status that the handler of a tap on "take it" has read
    told,        \* the employees answered "you have taken the order"
    shown,       \* the statuses Telegram has shown to the guest
    gone,        \* tasks lost, given up, or refused by Telegram
    faults

vars == <<order, taker, note, notifiable, optedOut, queue, worker, desk, told, shown, gone,
          faults>>

Event == Status \cup Call
Note == Employee \X Event
Update == {Guest} \X Status
Task == Note \cup Update

NoNote == [status |-> "absent", error |-> ""]
Pending == [NoNote EXCEPT !.status = "pending"]

Idle == [phase |-> "idle", task |-> <<Guest, "new">>, tries |-> 0, seen |-> "new", outcome |-> ""]

Init ==
    /\ order = "absent" /\ taker = Guest
    /\ note = [n \in Note |-> NoNote]
    /\ notifiable = Employee /\ optedOut = FALSE
    /\ queue = {} /\ worker = [w \in Worker |-> Idle]
    /\ desk = [e \in Employee |-> "absent"]
    /\ told = {} /\ shown = {} /\ gone = {} /\ faults = 0

InFlight(t) ==
    \/ \E q \in queue : q[1] = t
    \/ \E w \in Worker : worker[w].phase # "idle" /\ worker[w].task = t

-----------------------------------------------------------------------------
(* What a command stores and publishes *)

\* The recipients of _staff_notification_recipients and of the other notify functions.
Recipients(kind) == {e \in notifiable : kind \in Wants[e]}

NewNotes(ev, kind) == Recipients(kind) \X {ev}

Noted(ev, kind) == [n \in Note |-> IF n \in NewNotes(ev, kind) THEN Pending ELSE note[n]]

\* One update at a time: none is published while another one is on its way.
GuestTasks_BugOnePending(s) ==
    IF optedOut \/ \E u \in Update : InFlight(u) THEN {} ELSE {<<Guest, s>>}

\* send_guest_order_status_update
GuestTasks(s) == IF optedOut THEN {} ELSE {<<Guest, s>>}

Published(tasks) == queue \cup (tasks \X {0})

PlaceOrder ==
    /\ order = "absent" /\ order' = "new"
    /\ note' = Noted("new", "created")
    /\ queue' = Published(NewNotes("new", "created"))
    /\ UNCHANGED <<taker, notifiable, optedOut, worker, desk, told, shown, gone, faults>>

\* The status the handler has read is trusted.
CanMove_BugSeen(seen, to) == order # "absent" /\ to \in Allowed[seen]

\* transition_order_status looks at the order it has locked, whatever its caller has seen.
CanMove(seen, to) == order # "absent" /\ to \in Allowed[order]

Moved(to) ==
    /\ order' = to
    /\ queue' = Published(NewNotes(to, "changed") \cup GuestTasks(to))

\* A button of the order card; the first status is what the card shows.
StaffMoves(e, to) ==
    /\ e \in notifiable /\ CanMove(order, to)
    /\ Moved(to) /\ note' = Noted(to, "changed")
    /\ taker' = IF to = "accepted" THEN e ELSE taker
    /\ told' = IF to = "accepted" THEN told \cup {e} ELSE told
    /\ UNCHANGED <<notifiable, optedOut, worker, desk, shown, gone, faults>>

\* confirm_order_received_by_guest
GuestReceives ==
    /\ order \notin Final \cup {"absent"}
    /\ Moved("completed") /\ note' = Noted("completed", "changed")
    /\ UNCHANGED <<taker, notifiable, optedOut, worker, desk, told, shown, gone, faults>>

\* request_staff_assistance
GuestCalls(c) ==
    /\ Recipients("call") # {}
    /\ \A e \in Employee : note[<<e, c>>] = NoNote
    /\ note' = Noted(c, "call")
    /\ queue' = Published(NewNotes(c, "call"))
    /\ UNCHANGED <<order, taker, notifiable, optedOut, worker, desk, told, shown, gone, faults>>

EmployeeLeaves(e) ==
    /\ e \in notifiable /\ notifiable' = notifiable \ {e}
    /\ faults < MaxFaults /\ faults' = faults + 1
    /\ UNCHANGED <<order, taker, note, optedOut, queue, worker, desk, told, shown, gone>>

GuestOptsOut ==
    /\ ~optedOut /\ optedOut' = TRUE
    /\ UNCHANGED <<order, taker, note, notifiable, queue, worker, desk, told, shown, gone,
                   faults>>

-----------------------------------------------------------------------------
(* The notifications of an employee in the bot *)

\* staff_notification_accept_order_callback_handler reads the order ...
TapTake(e) ==
    /\ e \in notifiable /\ desk[e] = "absent" /\ note[<<e, "new">>] # NoNote
    /\ desk' = [desk EXCEPT ![e] = order]
    /\ UNCHANGED <<order, taker, note, notifiable, optedOut, queue, worker, told, shown, gone, faults>>

\* ... and takes it if it was new and still is ...
Take(e) ==
    /\ desk[e] = "new" /\ CanMove(desk[e], "accepted")
    /\ Moved("accepted") /\ taker' = e
    /\ note' = Noted("accepted", "changed")
    /\ told' = told \cup {e}
    /\ desk' = [desk EXCEPT ![e] = "absent"]
    /\ UNCHANGED <<notifiable, optedOut, worker, shown, gone, faults>>

\* ... or shows what became of it.
TakenByOther(e) ==
    /\ desk[e] # "absent" /\ ~(desk[e] = "new" /\ CanMove(desk[e], "accepted"))
    /\ desk' = [desk EXCEPT ![e] = "absent"]
    /\ UNCHANGED <<order, taker, note, notifiable, optedOut, queue, worker, told, shown, gone,
                   faults>>

-----------------------------------------------------------------------------
(* The workers *)

workerOnly == <<order, taker, notifiable, optedOut, desk, told>>

\* What a worker makes of a task when it reads the row: nothing, a refusal to save, or a message.
Begun(q) ==
    LET t == q[1]
        run == [Idle EXCEPT !.phase = "send", !.task = t, !.tries = q[2]] IN
    IF t \in Update
    THEN IF optedOut THEN Idle ELSE [run EXCEPT !.seen = order]
    ELSE IF note[t].status = "sent" THEN Idle
    ELSE IF t[1] \in notifiable THEN run
    ELSE [run EXCEPT !.phase = "save", !.outcome = "no recipient"]

Begin(w, q) ==
    /\ worker[w] = Idle /\ q \in queue
    /\ worker' = [worker EXCEPT ![w] = Begun(q)]
    /\ queue' = queue \ {q}
    /\ UNCHANGED <<note, shown, gone, faults, workerOnly>>

\* Telegram takes the message, or refuses it, or fails: it may have taken the message then.
Send(w, outcome, delivered) ==
    /\ worker[w].phase = "send"
    /\ outcome = "sent" => delivered
    /\ outcome = "refused" => ~delivered
    /\ faults' = IF outcome = "sent" THEN faults ELSE faults + 1
    /\ faults' <= MaxFaults
    /\ shown' = IF worker[w].task \in Update /\ delivered
                THEN shown \cup {worker[w].seen} ELSE shown
    /\ worker' = [worker EXCEPT ![w] = [@ EXCEPT !.phase = "save", !.seen = "new",
                                                !.outcome = outcome]]
    /\ UNCHANGED <<note, queue, gone, workerOnly>>

Saved(n, outcome) ==
    [note[n] EXCEPT !.status = IF outcome = "sent" THEN "sent" ELSE "failed",
                    !.error = IF outcome = "sent" THEN "" ELSE outcome]

Retried(r) ==
    IF r.outcome = "transient" /\ r.tries < MaxRetries THEN {<<r.task, r.tries + 1>>} ELSE {}

GivenUp(r) ==
    \/ r.outcome = "transient" /\ Retried(r) = {}
    \/ r.task \in Update /\ r.outcome = "refused"

\* The outcome is saved over whatever another worker has saved; a transient one is raised.
Save(w) ==
    LET r == worker[w] IN
    /\ r.phase = "save"
    /\ note' = IF r.task \in Note THEN [note EXCEPT ![r.task] = Saved(r.task, r.outcome)] ELSE note
    /\ queue' = queue \cup Retried(r)
    /\ gone' = IF GivenUp(r) THEN gone \cup {r.task} ELSE gone
    /\ worker' = [worker EXCEPT ![w] = Idle]
    /\ UNCHANGED <<shown, faults, workerOnly>>

\* Tasks are acknowledged when they are taken.
Crash_BugAckedEarly(w) ==
    /\ worker[w].phase # "idle" /\ faults < MaxFaults
    /\ worker' = [worker EXCEPT ![w] = Idle]
    /\ faults' = faults + 1
    /\ UNCHANGED <<queue, note, shown, gone, workerOnly>>

\* acks_late, reject_on_worker_lost: the task of a dead worker goes back to the broker.
Crash(w) ==
    /\ worker[w].phase # "idle" /\ faults < MaxFaults
    /\ queue' = queue \cup {<<worker[w].task, worker[w].tries>>}
    /\ worker' = [worker EXCEPT ![w] = Idle]
    /\ faults' = faults + 1
    /\ UNCHANGED <<note, shown, gone, workerOnly>>

\* The broker delivers a task again while its worker is still at it.
Redeliver(w) ==
    /\ worker[w].phase # "idle" /\ faults < MaxFaults
    /\ queue' = queue \cup {<<worker[w].task, worker[w].tries>>}
    /\ faults' = faults + 1
    /\ UNCHANGED <<worker, note, shown, gone, workerOnly>>

\* The broker is out of reach after the commit, or loses a task.
Lose(q) ==
    /\ q \in queue /\ faults < MaxFaults
    /\ queue' = queue \ {q} /\ gone' = gone \cup {q[1]}
    /\ faults' = faults + 1
    /\ UNCHANGED <<worker, note, shown, workerOnly>>

-----------------------------------------------------------------------------

StaffNext(e) ==
    \/ \E to \in Status : StaffMoves(e, to)
    \/ TapTake(e) \/ Take(e) \/ TakenByOther(e) \/ EmployeeLeaves(e)

WorkerNext(w) ==
    \/ \E q \in queue : Begin(w, q)
    \/ \E outcome \in {"sent", "transient", "refused"}, delivered \in BOOLEAN :
        Send(w, outcome, delivered)
    \/ Save(w) \/ Crash(w) \/ Redeliver(w)

Next ==
    \/ PlaceOrder \/ GuestReceives \/ GuestOptsOut
    \/ \E c \in Call : GuestCalls(c)
    \/ \E e \in Employee : StaffNext(e)
    \/ \E w \in Worker : WorkerNext(w)
    \/ \E q \in queue : Lose(q)

Spec == Init /\ [][Next]_vars

-----------------------------------------------------------------------------
(* Properties *)

\* An order is taken by one employee: of all who tap "take it" on their notification, on the
\* order card or on a card left from before, only the one it is assigned to is told so.
TakenOnce == \A e \in told : taker = e

\* "At least once" (PQ-015): while a notification is pending, or failed for a reason that may
\* pass, some task for it is on its way, unless one was lost or all its retries failed; whoever
\* dies or runs twice meanwhile.
NoneForgotten ==
    \A n \in Note : note[n].status = "pending" \/ note[n].error = "transient" =>
        InFlight(n) \/ n \in gone

\* When no update is on its way, the guest has been shown the status the order has: updates
\* that overtake each other may repeat a status, never leave the last one out.
LastStatusTold ==
    order \notin {"absent", "new"} /\ ~optedOut
        /\ (\A u \in Update : ~InFlight(u) /\ u \notin gone) => order \in shown
=============================================================================
