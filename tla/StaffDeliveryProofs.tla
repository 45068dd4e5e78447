------------------------- MODULE StaffDeliveryProofs -------------------------
(***************************************************************************)
(* Theorems about StaffDelivery, for any employees, workers, calls and     *)
(* wishes, any order of statuses in which "accepted" comes only after      *)
(* "new", and any number of retries and faults.                            *)
(***************************************************************************)
EXTENDS StaffDelivery, TLAPS

USE StaffDeliveryAssumption

Row == [status : {"absent", "pending", "sent", "failed"},
        error : {"", "transient", "refused", "no recipient"}]

Run == [phase : {"idle", "send", "save"}, task : Task, tries : Nat,
        seen : Status \cup {"absent"},
        outcome : {"", "sent", "transient", "refused", "no recipient"}]

TypeOK ==
    /\ order \in Status \cup {"absent"}
    /\ note \in [Note -> Row]
    /\ queue \subseteq Task \X Nat
    /\ worker \in [Worker -> Run]
    /\ notifiable \subseteq Employee

\* Whoever has been told so has the order, which is past "new" by then.
TakenInv ==
    \A e \in told : taker = e /\ order \notin {"absent", "new"}

\* A notification that was sent has no error, and one that is owed has a task.
NotesInv ==
    /\ \A n \in Note : note[n].status = "sent" => note[n].error = ""
    /\ NoneForgotten

\* Who will show the guest the status the order has now: a task in the queue, which will read
\* it, a worker that has read it, or one that failed to show something and will say so.
Carrier ==
    \/ \E q \in queue : q[1] \in Update
    \/ \E w \in Worker :
        /\ worker[w].task \in Update
        /\ \/ worker[w].phase = "send" /\ worker[w].seen = order
           \/ worker[w].phase = "save" /\ worker[w].outcome \in {"transient", "refused"}

UpdatesInv ==
    order \notin {"absent", "new"} /\ ~optedOut =>
        order \in shown \/ Carrier \/ \E u \in Update : u \in gone

IInv == TypeOK /\ TakenInv /\ NotesInv /\ UpdatesInv

-----------------------------------------------------------------------------
(* A task is of a notification or an update of the guest, not both.        *)
LEMMA Tasks ==
    /\ \A n \in Note : n \notin Update
    /\ \A n \in Note : n[1] \in Employee
    /\ Task = Note \cup Update
BY DEF Note, Update, Task

LEMMA Initially == Init => IInv
<1> SUFFICES ASSUME Init
             PROVE  IInv
    OBVIOUS
<1>1. TypeOK
    <2>1. <<Guest, "new">> \in Task
        BY DEF Task, Update
    <2>2. Idle \in Run
        BY <2>1 DEF Idle, Run
    <2>3. NoNote \in Row
        BY DEF NoNote, Row
    <2> QED  BY <2>2, <2>3 DEF Init, TypeOK
<1>2. TakenInv
    BY DEF Init, TakenInv
<1>3. NotesInv
    BY DEF Init, NotesInv, NoneForgotten, NoNote
<1>4. UpdatesInv
    BY DEF Init, UpdatesInv
<1> QED  BY <1>1, <1>2, <1>3, <1>4 DEF IInv

-----------------------------------------------------------------------------
(* A command stores notifications and publishes a task for each: nothing   *)
(* that was owed is forgotten, and what is new is on its way.              *)
LEMMA NotedTyped ==
    ASSUME TypeOK, NEW ev \in Event, NEW kind
    PROVE  /\ NewNotes(ev, kind) \subseteq Note
           /\ Noted(ev, kind) \in [Note -> Row]
<1>1. NewNotes(ev, kind) \subseteq Note
    BY DEF NewNotes, Recipients, Note, TypeOK
<1>2. Pending \in Row
    BY DEF Pending, NoNote, Row
<1>3. Noted(ev, kind) \in [Note -> Row]
    BY <1>2 DEF Noted, TypeOK
<1> QED  BY <1>1, <1>3

LEMMA PublishedTyped ==
    ASSUME TypeOK, NEW tasks, tasks \subseteq Task, queue' = Published(tasks)
    PROVE  /\ queue' \subseteq Task \X Nat
           /\ queue \subseteq queue'
           /\ \A t \in tasks : \E q \in queue' : q[1] = t
<1>1. queue' = queue \cup (tasks \X {0})
    BY DEF Published
<1>2. \A t \in tasks : <<t, 0>> \in queue' /\ <<t, 0>>[1] = t
    BY <1>1
<1>3. queue' \subseteq Task \X Nat
    <2>1. tasks \X {0} \subseteq Task \X Nat
        OBVIOUS
    <2> QED  BY <1>1, <2>1 DEF TypeOK
<1> QED  BY <1>1, <1>2, <1>3

LEMMA NotedOwed ==
    ASSUME TypeOK, NotesInv, NEW ev \in Event, NEW kind, NEW more, more \subseteq Update,
           note' = Noted(ev, kind),
           queue' = Published(NewNotes(ev, kind) \cup more),
           UNCHANGED <<worker, gone>>
    PROVE  NotesInv'
<1>1. NewNotes(ev, kind) \subseteq Note
    BY NotedTyped
<1>2. NewNotes(ev, kind) \cup more \subseteq Task
    BY <1>1 DEF Task
<1>3. /\ queue \subseteq queue'
      /\ \A t \in NewNotes(ev, kind) : \E q \in queue' : q[1] = t
    <2> DEFINE tasks == NewNotes(ev, kind) \cup more
    <2>1. tasks \subseteq Task /\ queue' = Published(tasks)
        BY <1>2
    <2>2. /\ queue \subseteq queue'
          /\ \A t \in tasks : \E q \in queue' : q[1] = t
        <3> HIDE DEF tasks
        <3> QED  BY <2>1, PublishedTyped
    <2> QED  BY <2>2
<1>4. \A n \in Note : InFlight(n) => InFlight(n)'
    BY <1>3 DEF InFlight
<1>5. \A n \in NewNotes(ev, kind) : InFlight(n)'
    BY <1>3 DEF InFlight
<1>6. \A n \in Note : n \notin NewNotes(ev, kind) => note'[n] = note[n]
    BY DEF Noted
<1>7. \A n \in NewNotes(ev, kind) : note'[n].status = "pending"
    BY <1>1 DEF Noted, Pending, NoNote
<1>8. NoneForgotten'
    BY <1>4, <1>5, <1>6 DEF NoneForgotten, NotesInv
<1>9. \A n \in Note : note'[n].status = "sent" => note'[n].error = ""
    BY <1>6, <1>7 DEF NotesInv
<1> QED  BY <1>8, <1>9 DEF NotesInv

\* A command that publishes nothing to the guest keeps who carries the status.
LEMMA CarrierKept ==
    ASSUME queue \subseteq queue', UNCHANGED <<worker, order>>, Carrier
    PROVE  Carrier'
BY DEF Carrier

\* A move of the order publishes an update, unless the guest has opted out.
LEMMA MovedTold ==
    ASSUME TypeOK, NEW to \in Status, Moved(to), UNCHANGED <<worker, gone, optedOut, shown>>
    PROVE  UpdatesInv'
<1>1. CASE optedOut
    BY <1>1 DEF UpdatesInv
<1>2. CASE ~optedOut
    <2> DEFINE u == <<Guest, to>>
    <2>1. u \in Update
        BY DEF Update
    <2>2. <<u, 0>> \in queue'
        BY <1>2 DEF Moved, Published, GuestTasks
    <2>3. Carrier'
        BY <2>1, <2>2 DEF Carrier
    <2> QED  BY <2>3 DEF UpdatesInv
<1> QED  BY <1>1, <1>2

\* With its notifications, a move keeps the invariant but for who has taken the order.
LEMMA MovedKeeps ==
    ASSUME IInv, NEW to \in Status, Moved(to), note' = Noted(to, "changed"),
           UNCHANGED <<notifiable, optedOut, worker, shown, gone>>
    PROVE  TypeOK' /\ NotesInv' /\ UpdatesInv'
<1>1. /\ TypeOK
      /\ NotesInv
      /\ to \in Event
    BY DEF IInv, Event
<1>2. NewNotes(to, "changed") \subseteq Note /\ note' \in [Note -> Row]
    BY <1>1, NotedTyped
<1>3. GuestTasks(to) \subseteq Update
    BY DEF GuestTasks, Update
<1>4. queue' = Published(NewNotes(to, "changed") \cup GuestTasks(to)) /\ order' = to
    BY DEF Moved
<1>5. NewNotes(to, "changed") \cup GuestTasks(to) \subseteq Task
    BY <1>2, <1>3 DEF Task
<1>6. queue' \subseteq Task \X Nat
    <2> DEFINE tasks == NewNotes(to, "changed") \cup GuestTasks(to)
    <2>1. tasks \subseteq Task /\ queue' = Published(tasks)
        BY <1>4, <1>5
    <2> HIDE DEF tasks
    <2> QED  BY <1>1, <2>1, PublishedTyped
<1>7. TypeOK'
    BY <1>1, <1>2, <1>4, <1>6 DEF TypeOK
<1>8. NotesInv'
    BY <1>1, <1>3, <1>4, NotedOwed
<1>9. UpdatesInv'
    BY <1>1, MovedTold
<1> QED  BY <1>7, <1>8, <1>9

LEMMA PlaceOrderKeeps == ASSUME IInv, PlaceOrder PROVE IInv'
<1>1. TypeOK /\ NotesInv /\ "new" \in Event
    BY DEF IInv, Event
<1>2. NewNotes("new", "created") \subseteq Note /\ note' \in [Note -> Row]
    BY <1>1, NotedTyped DEF PlaceOrder
<1>3. queue' \subseteq Task \X Nat
    <2>1. NewNotes("new", "created") \subseteq Task
        BY <1>2 DEF Task
    <2> QED  BY <1>1, <2>1, PublishedTyped DEF PlaceOrder
<1>4. TypeOK'
    BY <1>1, <1>2, <1>3 DEF TypeOK, PlaceOrder
<1>5. NotesInv'
    <2>1. queue' = Published(NewNotes("new", "created") \cup {})
        BY DEF PlaceOrder
    <2> QED  BY <1>1, <2>1, NotedOwed DEF PlaceOrder
<1>6. TakenInv'
    BY DEF IInv, TakenInv, PlaceOrder
<1>7. UpdatesInv'
    BY DEF UpdatesInv, PlaceOrder
<1> QED  BY <1>4, <1>5, <1>6, <1>7 DEF IInv

LEMMA StaffMovesKeeps ==
    ASSUME IInv, NEW e \in Employee, NEW to \in Status, StaffMoves(e, to)
    PROVE  IInv'
<1>1. TypeOK' /\ NotesInv' /\ UpdatesInv'
    BY MovedKeeps DEF StaffMoves
<1>2. TakenInv'
    <2>1. order \in Status /\ to \in Allowed[order]
        BY DEF IInv, TypeOK, StaffMoves, CanMove
    <2>2. order' = to /\ to # "new" /\ to # "absent"
        BY <2>1 DEF StaffMoves, Moved
    <2>3. CASE to = "accepted"
        <3>1. told = {}
            BY <2>1, <2>3 DEF IInv, TakenInv
        <3> QED  BY <2>2, <2>3, <3>1 DEF TakenInv, StaffMoves
    <2>4. CASE to # "accepted"
        BY <2>2, <2>4 DEF IInv, TakenInv, StaffMoves
    <2> QED  BY <2>3, <2>4
<1> QED  BY <1>1, <1>2 DEF IInv

LEMMA TakeKeeps ==
    ASSUME IInv, NEW e \in Employee, Take(e)
    PROVE  IInv'
<1>1. "accepted" \in Status
    OBVIOUS
<1>2. TypeOK' /\ NotesInv' /\ UpdatesInv'
    BY <1>1, MovedKeeps DEF Take
<1>3. TakenInv'
    <2>1. order \in Status /\ "accepted" \in Allowed[order] /\ order' = "accepted"
        BY DEF IInv, TypeOK, Take, CanMove, Moved
    <2>2. told = {}
        BY <2>1 DEF IInv, TakenInv
    <2> QED  BY <2>1, <2>2 DEF TakenInv, Take
<1> QED  BY <1>2, <1>3 DEF IInv

LEMMA GuestReceivesKeeps == ASSUME IInv, GuestReceives PROVE IInv'
<1>1. "completed" \in Status
    BY DEF Final
<1>2. TypeOK' /\ NotesInv' /\ UpdatesInv'
    BY <1>1, MovedKeeps DEF GuestReceives
<1>3. TakenInv'
    BY DEF IInv, TakenInv, GuestReceives, Moved
<1> QED  BY <1>2, <1>3 DEF IInv

LEMMA GuestCallsKeeps == ASSUME IInv, NEW c \in Call, GuestCalls(c) PROVE IInv'
<1>1. TypeOK /\ NotesInv /\ UpdatesInv /\ c \in Event
    BY DEF IInv, Event
<1>2. NewNotes(c, "call") \subseteq Note /\ note' \in [Note -> Row]
    BY <1>1, NotedTyped DEF GuestCalls
<1>3. queue' \subseteq Task \X Nat /\ queue \subseteq queue'
    <2>1. NewNotes(c, "call") \subseteq Task
        BY <1>2 DEF Task
    <2> QED  BY <1>1, <2>1, PublishedTyped DEF GuestCalls
<1>4. TypeOK'
    BY <1>1, <1>2, <1>3 DEF TypeOK, GuestCalls
<1>5. NotesInv'
    <2>1. queue' = Published(NewNotes(c, "call") \cup {})
        BY DEF GuestCalls
    <2> QED  BY <1>1, <2>1, NotedOwed DEF GuestCalls
<1>6. TakenInv'
    BY DEF IInv, TakenInv, GuestCalls
<1>7. UpdatesInv'
    BY <1>1, <1>3, CarrierKept DEF UpdatesInv, GuestCalls
<1> QED  BY <1>4, <1>5, <1>6, <1>7 DEF IInv

\* Who leaves, opts out or looks at an order publishes nothing.
LEMMA QuietKeeps ==
    ASSUME IInv, UNCHANGED <<order, taker, note, queue, worker, told, shown, gone>>,
           notifiable' \subseteq notifiable, optedOut => optedOut'
    PROVE  IInv'
<1>1. TypeOK'
    BY DEF IInv, TypeOK
<1>2. TakenInv'
    BY DEF IInv, TakenInv
<1>3. NotesInv'
    BY DEF IInv, NotesInv, NoneForgotten, InFlight
<1>4. UpdatesInv'
    BY DEF IInv, UpdatesInv, Carrier
<1> QED  BY <1>1, <1>2, <1>3, <1>4 DEF IInv

-----------------------------------------------------------------------------
(* The workers.  A task is in the queue or in the hands of a worker until  *)
(* it has come to an end, or is gone.                                      *)

\* What a worker makes of a task: an update reads the order, a notification not sent is tried.
LEMMA BegunRuns ==
    ASSUME TypeOK, NEW q \in queue
    PROVE  /\ Begun(q) \in Run
           /\ q[1] \in Update /\ ~optedOut => /\ Begun(q).task = q[1]
                                            /\ Begun(q).phase = "send"
                                            /\ Begun(q).seen = order
           /\ q[1] \in Note /\ note[q[1]].status # "sent" => /\ Begun(q).task = q[1]
                                                            /\ Begun(q).phase # "idle"
<1>1. q[1] \in Task /\ q[2] \in Nat
    BY DEF TypeOK
<1>2. Idle \in Run
    BY DEF Idle, Run, Task, Update
<1>3. [Idle EXCEPT !.phase = "send", !.task = q[1], !.tries = q[2]] \in Run
    BY <1>1, <1>2 DEF Idle, Run
<1>4. Begun(q) \in Run
    BY <1>2, <1>3 DEF Begun, Run, TypeOK
<1>5. ASSUME q[1] \in Update, ~optedOut
      PROVE  /\ Begun(q).task = q[1]
             /\ Begun(q).phase = "send"
             /\ Begun(q).seen = order
    BY <1>5 DEF Begun, Idle
<1>6. ASSUME q[1] \in Note, note[q[1]].status # "sent"
      PROVE  Begun(q).task = q[1] /\ Begun(q).phase # "idle"
    BY <1>6, Tasks DEF Begun, Idle
<1> QED  BY <1>4, <1>5, <1>6

LEMMA BeginKeeps ==
    ASSUME IInv, NEW w \in Worker, NEW q \in queue, Begin(w, q)
    PROVE  IInv'
<1>1. /\ TypeOK
      /\ worker[w].phase = "idle"
      /\ worker' = [worker EXCEPT ![w] = Begun(q)]
      /\ queue' = queue \ {q}
      /\ UNCHANGED <<order, taker, note, notifiable, optedOut, told, shown, gone>>
    <2>1. TypeOK
        BY DEF IInv
    <2>2. worker[w] = Idle /\ Idle.phase = "idle"
        BY DEF Begin, Idle
    <2> QED  BY <2>1, <2>2 DEF Begin, workerOnly
<1>2. /\ worker'[w] = Begun(q)
      /\ \A v \in Worker : v # w => worker'[v] = worker[v]
    BY <1>1 DEF TypeOK
<1>3. TypeOK'
    BY <1>1, BegunRuns DEF TypeOK
<1>4. TakenInv'
    BY <1>1 DEF IInv, TakenInv
<1>5. NotesInv'
    <2> SUFFICES ASSUME NEW n \in Note, note[n].status = "pending" \/ note[n].error = "transient",
                        InFlight(n)
                 PROVE  InFlight(n)'
        BY <1>1 DEF IInv, NotesInv, NoneForgotten
    <2>1. note[n].status # "sent"
        BY DEF IInv, NotesInv
    <2>2. CASE q[1] = n
        <3>1. worker'[w].phase # "idle" /\ worker'[w].task = n
            BY <1>1, <1>2, <2>1, <2>2, BegunRuns
        <3> QED  BY <3>1 DEF InFlight
    <2>3. CASE q[1] # n
        BY <1>1, <1>2, <2>3 DEF InFlight
    <2> QED  BY <2>2, <2>3
<1>6. UpdatesInv'
    <2> SUFFICES ASSUME ~optedOut, Carrier
                 PROVE  Carrier'
        BY <1>1 DEF IInv, UpdatesInv
    <2>1. CASE q[1] \in Update
        <3>1. /\ worker'[w].task \in Update
              /\ worker'[w].phase = "send"
              /\ worker'[w].seen = order'
            BY <1>1, <1>2, <2>1, BegunRuns
        <3> QED  BY <3>1 DEF Carrier
    <2>2. CASE q[1] \notin Update
        BY <1>1, <1>2, <2>2 DEF Carrier
    <2> QED  BY <2>1, <2>2
<1> QED  BY <1>3, <1>4, <1>5, <1>6 DEF IInv

LEMMA SendKeeps ==
    ASSUME IInv, NEW w \in Worker, NEW outcome \in {"sent", "transient", "refused"},
           NEW delivered \in BOOLEAN, Send(w, outcome, delivered)
    PROVE  IInv'
<1> DEFINE run == [worker[w] EXCEPT !.phase = "save", !.seen = "new", !.outcome = outcome]
<1>1. /\ TypeOK
      /\ worker[w] \in Run
      /\ worker[w].phase = "send"
      /\ worker' = [worker EXCEPT ![w] = run]
      /\ UNCHANGED <<order, taker, note, notifiable, optedOut, queue, told, gone>>
    BY DEF IInv, TypeOK, Send, workerOnly
<1>2. /\ worker'[w] = run
      /\ \A v \in Worker : v # w => worker'[v] = worker[v]
    BY <1>1 DEF TypeOK
<1>3. /\ run \in Run /\ run.phase = "save"
      /\ run.task = worker[w].task /\ run.outcome = outcome
    BY <1>1 DEF Run
<1>4. /\ shown \subseteq shown'
      /\ outcome = "sent" /\ worker[w].task \in Update => worker[w].seen \in shown'
    BY DEF Send
<1> HIDE DEF run
<1>5. TypeOK'
    BY <1>1, <1>3 DEF TypeOK
<1>6. TakenInv'
    BY <1>1 DEF IInv, TakenInv
<1>7. NotesInv'
    <2>1. \A n \in Note : InFlight(n) => InFlight(n)'
        BY <1>1, <1>2, <1>3 DEF InFlight
    <2> QED  BY <1>1, <2>1 DEF IInv, NotesInv, NoneForgotten
<1>8. UpdatesInv'
    <2> SUFFICES ASSUME Carrier
                 PROVE  Carrier' \/ order' \in shown'
        BY <1>1, <1>4 DEF IInv, UpdatesInv
    <2>1. CASE \E q \in queue : q[1] \in Update
        BY <1>1, <2>1 DEF Carrier
    <2>2. ASSUME NEW v \in Worker, worker[v].task \in Update,
                 \/ worker[v].phase = "send" /\ worker[v].seen = order
                 \/ worker[v].phase = "save" /\ worker[v].outcome \in {"transient", "refused"}
          PROVE  Carrier' \/ order' \in shown'
        <3>1. CASE v # w
            BY <1>1, <1>2, <2>2, <3>1 DEF Carrier
        <3>2. CASE v = w /\ outcome = "sent"
            BY <1>1, <1>4, <2>2, <3>2
        <3>3. CASE v = w /\ outcome # "sent"
            <4>1. /\ worker'[w].task \in Update /\ worker'[w].phase = "save"
                  /\ worker'[w].outcome \in {"transient", "refused"}
                BY <1>2, <1>3, <2>2, <3>3
            <4> QED  BY <4>1 DEF Carrier
        <3> QED  BY <3>1, <3>2, <3>3
    <2> QED  BY <2>1, <2>2 DEF Carrier
<1> QED  BY <1>5, <1>6, <1>7, <1>8 DEF IInv

LEMMA SaveKeeps ==
    ASSUME IInv, NEW w \in Worker, Save(w)
    PROVE  IInv'
<1> DEFINE r == worker[w]
<1>1. /\ TypeOK
      /\ r \in Run /\ r.phase = "save"
      /\ note' = IF r.task \in Note THEN [note EXCEPT ![r.task] = Saved(r.task, r.outcome)]
                                    ELSE note
      /\ queue' = queue \cup Retried(r)
      /\ gone' = IF GivenUp(r) THEN gone \cup {r.task} ELSE gone
      /\ worker' = [worker EXCEPT ![w] = Idle]
      /\ UNCHANGED <<order, taker, notifiable, optedOut, told, shown>>
    BY DEF IInv, TypeOK, Save, workerOnly
<1>2. \A v \in Worker : v # w => worker'[v] = worker[v]
    BY <1>1 DEF TypeOK
<1>3. Retried(r) \subseteq Task \X Nat
    <2>1. r \in Run
        BY <1>1
    <2> HIDE DEF r
    <2>2. r.task \in Task /\ r.tries \in Nat
        BY <2>1 DEF Run
    <2> QED  BY <2>2 DEF Retried
<1>4. r.outcome = "transient" => (\E q \in queue' : q[1] = r.task) \/ r.task \in gone'
    <2>1. CASE r.outcome = "transient" /\ r.tries < MaxRetries
        <3>1. <<r.task, r.tries + 1>> \in queue'
            BY <1>1, <2>1 DEF Retried
        <3> QED  BY <3>1
    <2>2. CASE r.outcome = "transient" /\ ~(r.tries < MaxRetries)
        BY <1>1, <2>2 DEF Retried, GivenUp
    <2> QED  BY <2>1, <2>2
<1>5. r.task \in Update /\ r.outcome = "refused" => r.task \in gone'
    BY <1>1 DEF GivenUp
<1>6. queue \subseteq queue' /\ gone \subseteq gone'
    BY <1>1
<1>7. ASSUME r.task \in Note
      PROVE  /\ Saved(r.task, r.outcome) \in Row
             /\ Saved(r.task, r.outcome).status # "pending"
             /\ Saved(r.task, r.outcome).status = "sent" =>
                    Saved(r.task, r.outcome).error = ""
             /\ Saved(r.task, r.outcome).error = "transient" => r.outcome = "transient"
    <2>1. note[r.task] \in Row /\ r.outcome \in {"", "sent", "transient", "refused", "no recipient"}
        BY <1>1, <1>7 DEF TypeOK, Run
    <2> QED  BY <2>1 DEF Saved, Row
<1>8. TypeOK'
    <2>1. Idle \in Run
        BY DEF Idle, Run, Task, Update
    <2>2. worker' \in [Worker -> Run]
        BY <1>1, <2>1 DEF TypeOK
    <2>3. note' \in [Note -> Row]
        BY <1>1, <1>7 DEF TypeOK
    <2>4. queue' \subseteq Task \X Nat
        BY <1>1, <1>3 DEF TypeOK
    <2> QED  BY <1>1, <2>2, <2>3, <2>4 DEF TypeOK
<1>9. TakenInv'
    BY <1>1 DEF IInv, TakenInv
<1>10. NotesInv'
    <2>1. ASSUME NEW n \in Note, n # r.task
          PROVE  note'[n] = note[n] /\ (InFlight(n) => InFlight(n)')
        <3>1. note'[n] = note[n]
            BY <1>1, <2>1 DEF TypeOK
        <3>2. InFlight(n) => InFlight(n)'
            BY <1>2, <1>6, <2>1 DEF InFlight
        <3> QED  BY <3>1, <3>2
    <2>2. ASSUME r.task \in Note
          PROVE  note'[r.task] = Saved(r.task, r.outcome)
        BY <1>1, <2>2 DEF TypeOK
    <2>3. ASSUME NEW n \in Note
          PROVE  /\ note'[n].status = "sent" => note'[n].error = ""
                 /\ note'[n].status = "pending" \/ note'[n].error = "transient" =>
                        InFlight(n)' \/ n \in gone'
        <3>1. CASE n # r.task
            BY <1>6, <2>1, <3>1 DEF IInv, NotesInv, NoneForgotten
        <3>2. CASE n = r.task
            <4>1. (\E q \in queue' : q[1] = n) => InFlight(n)'
                BY DEF InFlight
            <4> QED  BY <1>4, <1>7, <2>2, <3>2, <4>1
        <3> QED  BY <3>1, <3>2
    <2> QED  BY <2>3 DEF NotesInv, NoneForgotten
<1>11. UpdatesInv'
    <2> SUFFICES ASSUME Carrier
                 PROVE  Carrier' \/ \E u \in Update : u \in gone'
        BY <1>1, <1>6 DEF IInv, UpdatesInv
    <2>1. CASE \E q \in queue : q[1] \in Update
        BY <1>6, <2>1 DEF Carrier
    <2>2. ASSUME NEW v \in Worker, worker[v].task \in Update,
                 \/ worker[v].phase = "send" /\ worker[v].seen = order
                 \/ worker[v].phase = "save" /\ worker[v].outcome \in {"transient", "refused"}
          PROVE  Carrier' \/ \E u \in Update : u \in gone'
        <3>1. CASE v # w
            BY <1>1, <1>2, <2>2, <3>1 DEF Carrier
        <3>2. CASE v = w
            <4>1. r.task \in Update /\ r.outcome \in {"transient", "refused"}
                BY <1>1, <2>2, <3>2
            <4>2. CASE r.task \in gone'
                BY <4>1, <4>2
            <4>3. CASE \E q \in queue' : q[1] = r.task
                BY <4>1, <4>3 DEF Carrier
            <4> QED  BY <1>4, <1>5, <4>1, <4>2, <4>3
        <3> QED  BY <3>1, <3>2
    <2> QED  BY <2>1, <2>2 DEF Carrier
<1> QED  BY <1>8, <1>9, <1>10, <1>11 DEF IInv

\* A worker that dies, or whose task is delivered again, leaves the task to the others.
LEMMA ReturnKeeps ==
    ASSUME IInv, NEW w \in Worker,
           queue' = queue \cup {<<worker[w].task, worker[w].tries>>},
           worker' \in {worker, [worker EXCEPT ![w] = Idle]},
           UNCHANGED <<note, shown, gone, workerOnly>>
    PROVE  IInv'
<1> DEFINE q == <<worker[w].task, worker[w].tries>>
<1>1. /\ TypeOK
      /\ worker[w].task \in Task /\ worker[w].tries \in Nat
      /\ UNCHANGED <<order, taker, notifiable, optedOut, told>>
    BY DEF IInv, TypeOK, Run, workerOnly
<1>2. \A v \in Worker : v # w => worker'[v] = worker[v]
    BY <1>1 DEF TypeOK
<1>3. q \in queue' /\ q[1] = worker[w].task /\ queue \subseteq queue'
    OBVIOUS
<1>4. TypeOK'
    <2>1. Idle \in Run
        BY DEF Idle, Run, Task, Update
    <2>2. q \in Task \X Nat
        BY <1>1
    <2>3. queue' \subseteq Task \X Nat
        BY <1>1, <2>2 DEF TypeOK
    <2>4. worker' \in [Worker -> Run]
        BY <1>1, <2>1 DEF TypeOK
    <2> QED  BY <1>1, <2>3, <2>4 DEF TypeOK
<1> HIDE DEF q
<1>5. TakenInv'
    BY <1>1 DEF IInv, TakenInv
<1>6. NotesInv'
    <2>1. \A n \in Note : InFlight(n) => InFlight(n)'
        BY <1>2, <1>3 DEF InFlight
    <2> QED  BY <2>1 DEF IInv, NotesInv, NoneForgotten
<1>7. UpdatesInv'
    <2>1. Carrier => Carrier'
        BY <1>1, <1>2, <1>3 DEF Carrier
    <2> QED  BY <1>1, <2>1 DEF IInv, UpdatesInv
<1> QED  BY <1>4, <1>5, <1>6, <1>7 DEF IInv

LEMMA LoseKeeps ==
    ASSUME IInv, NEW q \in queue, Lose(q)
    PROVE  IInv'
<1>1. /\ TypeOK
      /\ queue' = queue \ {q} /\ gone' = gone \cup {q[1]}
      /\ UNCHANGED <<worker, note, shown, order, taker, notifiable, optedOut, told>>
    BY DEF IInv, Lose, workerOnly
<1>2. TypeOK'
    BY <1>1 DEF TypeOK
<1>3. TakenInv'
    BY <1>1 DEF IInv, TakenInv
<1>4. NotesInv'
    <2>1. \A n \in Note : InFlight(n) => InFlight(n)' \/ n \in gone'
        BY <1>1 DEF InFlight
    <2> QED  BY <1>1, <2>1 DEF IInv, NotesInv, NoneForgotten
<1>5. UpdatesInv'
    <2>1. Carrier => Carrier' \/ \E u \in Update : u \in gone'
        BY <1>1 DEF Carrier
    <2> QED  BY <1>1, <2>1 DEF IInv, UpdatesInv
<1> QED  BY <1>2, <1>3, <1>4, <1>5 DEF IInv

-----------------------------------------------------------------------------
(* The theorems                                                            *)

LEMMA Inductive == IInv /\ [Next]_vars => IInv'
<1> SUFFICES ASSUME IInv, [Next]_vars
             PROVE  IInv'
    OBVIOUS
<1>1. CASE PlaceOrder
    BY <1>1, PlaceOrderKeeps
<1>2. CASE GuestReceives
    BY <1>2, GuestReceivesKeeps
<1>3. CASE GuestOptsOut
    BY <1>3, QuietKeeps DEF GuestOptsOut
<1>4. ASSUME NEW c \in Call, GuestCalls(c)
      PROVE  IInv'
    BY <1>4, GuestCallsKeeps
<1>5. ASSUME NEW e \in Employee, StaffNext(e)
      PROVE  IInv'
    <2>1. ASSUME NEW to \in Status, StaffMoves(e, to)
          PROVE  IInv'
        BY <2>1, StaffMovesKeeps
    <2>2. CASE TapTake(e)
        BY <2>2, QuietKeeps DEF TapTake
    <2>3. CASE Take(e)
        BY <2>3, TakeKeeps
    <2>4. CASE TakenByOther(e)
        BY <2>4, QuietKeeps DEF TakenByOther
    <2>5. CASE EmployeeLeaves(e)
        BY <2>5, QuietKeeps DEF EmployeeLeaves
    <2> QED  BY <1>5, <2>1, <2>2, <2>3, <2>4, <2>5 DEF StaffNext
<1>6. ASSUME NEW w \in Worker, WorkerNext(w)
      PROVE  IInv'
    <2>1. ASSUME NEW q \in queue, Begin(w, q)
          PROVE  IInv'
        BY <2>1, BeginKeeps
    <2>2. ASSUME NEW outcome \in {"sent", "transient", "refused"}, NEW delivered \in BOOLEAN,
                 Send(w, outcome, delivered)
          PROVE  IInv'
        BY <2>2, SendKeeps
    <2>3. CASE Save(w)
        BY <2>3, SaveKeeps
    <2>4. CASE Crash(w) \/ Redeliver(w)
        BY <2>4, ReturnKeeps DEF Crash, Redeliver
    <2> QED  BY <1>6, <2>1, <2>2, <2>3, <2>4 DEF WorkerNext
<1>7. ASSUME NEW q \in queue, Lose(q)
      PROVE  IInv'
    BY <1>7, LoseKeeps
<1>8. CASE UNCHANGED vars
    BY <1>8, QuietKeeps DEF vars
<1> QED  BY <1>1, <1>2, <1>3, <1>4, <1>5, <1>6, <1>7, <1>8 DEF Next

LEMMA Invariance == Spec => []IInv
BY Initially, Inductive, PTL DEF Spec

\* An order is taken by one employee, whatever cards and notifications are tapped at once.
THEOREM OrderTakenOnce == Spec => []TakenOnce
<1>1. IInv => TakenOnce
    BY DEF IInv, TakenInv, TakenOnce
<1> QED  BY Invariance, <1>1, PTL

\* A notification that is owed has a task, however workers die, repeat and overtake.
THEOREM NotificationsOwed == Spec => []NoneForgotten
<1>1. IInv => NoneForgotten
    BY DEF IInv, NotesInv
<1> QED  BY Invariance, <1>1, PTL

\* With no update on its way and none lost, the guest has been shown the status of the order.
THEOREM GuestToldLast == Spec => []LastStatusTold
<1>1. IInv => LastStatusTold
    <2> SUFFICES ASSUME UpdatesInv, order \notin {"absent", "new"}, ~optedOut,
                        \A u \in Update : ~InFlight(u) /\ u \notin gone
                 PROVE  order \in shown
        BY DEF IInv, LastStatusTold
    <2>1. ~Carrier
        BY DEF Carrier, InFlight
    <2> QED  BY <2>1 DEF UpdatesInv
<1> QED  BY Invariance, <1>1, PTL
=============================================================================
