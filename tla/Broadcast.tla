------------------------------ MODULE Broadcast ------------------------------
(***************************************************************************)
(* One broadcast campaign of apps/notifications/services.py: the campaign  *)
(* row, a delivery row per guest, the Celery tasks that send it in batches *)
(* and the periodic recovery.                                              *)
(*                                                                         *)
(* A worker runs one task at a time.  Each transaction of the task is one  *)
(* action, and so is each call to Telegram; between them the worker keeps  *)
(* what it has read in memory, and may crash.  _advance_broadcast is two   *)
(* actions, because other workers commit between its two reads of the      *)
(* delivery rows; the campaign row stays locked from one to the other.     *)
(*                                                                         *)
(* Tasks are messages of a broker that loses and repeats them; a message   *)
(* is acknowledged when its task ends, so a crash returns it.  Crashes,    *)
(* losses and repetitions together are bounded by MaxFaults, and the       *)
(* messages that recovery and the admin may add by MaxTasks.               *)
(*                                                                         *)
(* An operator X_Bug... is X with a plausible bug; nothing uses it here.   *)
(***************************************************************************)
EXTENDS Integers, FiniteSets, FiniteSetsExt

CONSTANTS
    Guest,       \* guests of the venue
    Worker,      \* Celery workers
    BatchSize,   \* BROADCAST_BATCH_SIZE
    MaxTasks,    \* bound on the messages of the broker
    MaxFaults,   \* bound on crashes, lost messages and repeated messages
    NoGuest      \* no message has been answered

ASSUME BroadcastAssumption ==
    /\ IsFiniteSet(Guest)
    /\ BatchSize \in Nat \ {0}
    /\ MaxTasks \in Nat
    /\ MaxFaults \in Nat
    /\ NoGuest \notin Guest

VARIABLES
    status,     \* BroadcastCampaign.status
    counters,   \* its delivered_count, failed_count and unknown_count
    delivery,   \* BroadcastDelivery.status of a guest, "none" if there is no row
    claim,      \* BroadcastDelivery.claim_token, 0 if never claimed
    claims,     \* the claim tokens made so far
    received,   \* how many messages of the campaign Telegram has delivered
    eligible,   \* the guests marketing messages may go to
    queue,      \* the messages waiting in the broker
    faults,     \* the faults so far
    phase,      \* what a worker does next
    holds,      \* whether its task came from a message (recovery's does not)
    token,      \* its claim token
    batch,      \* the rows it has claimed and not yet rechecked
    skips,      \* those it found no longer eligible
    todo,       \* those it has still to send
    answer,     \* the guest and the answer of Telegram it has not yet recorded
    seen        \* the open statuses _advance_broadcast has read

campaignVars == <<status, counters>>
rowVars == <<delivery, claim, claims>>
taskVars == <<queue, faults>>
memory == <<token, batch, skips, todo, answer, seen>>
vars == <<status, counters, delivery, claim, claims, received, eligible, queue, faults,
          phase, holds, token, batch, skips, todo, answer, seen>>

-----------------------------------------------------------------------------
(* Rows *)

Open     == {"pending", "sending"}
Finished == {"sent", "failed", "skipped", "unknown"}

RowsIn(s) == {g \in Guest : delivery[g] = s}

\* _refresh_broadcast_counters
Count == [sent    |-> Cardinality(RowsIn("sent")),
          failed  |-> Cardinality(RowsIn("failed")),
          unknown |-> Cardinality(RowsIn("unknown"))]

OpenStatuses == {delivery[g] : g \in Guest} \cap Open

NoAnswer == [guest |-> NoGuest, result |-> "none"]

\* What a call to Telegram may come back with, and whether the guest got the
\* message: only a network or server error leaves that open.
Answers == {"sent", "failed", "blocked", "unknown"}
Delivered(result) == CASE result = "sent"    -> {TRUE}
                       [] result = "unknown" -> BOOLEAN
                       [] OTHER              -> {FALSE}

\* A network error counts as a failure.
RowStatus_BugUnknownFailed(result) == IF result = "sent" THEN "sent" ELSE "failed"

\* The row keeps the answer of Telegram, which is no row status.
RowStatus_BugRaw(result) == result

\* The row status record() stores for an answer.
RowStatus(result) == IF result = "blocked" THEN "failed" ELSE result

-----------------------------------------------------------------------------
(* The broker *)

Messages == queue + Cardinality({w \in Worker : holds[w]})

\* A message handed to the broker on commit, or lost.
Enqueue ==
    \/ queue' = queue + 1 /\ UNCHANGED faults
    \/ faults < MaxFaults /\ faults' = faults + 1 /\ UNCHANGED queue

\* A waiting message is lost, or a message is delivered a second time.
BrokerFault ==
    /\ faults < MaxFaults
    /\ \/ queue > 0 /\ queue' = queue - 1
       \/ Messages > 0 /\ Messages < MaxTasks /\ queue' = queue + 1
    /\ faults' = faults + 1
    /\ UNCHANGED <<campaignVars, rowVars, received, eligible, phase, holds, memory>>

\* The task of worker w ends and its message, if any, is acknowledged.
EndTask(w) ==
    /\ phase' = [phase EXCEPT ![w] = "idle"]
    /\ holds' = [holds EXCEPT ![w] = FALSE]

\* The worker dies, or its task raises and is retried: what it had in memory is
\* gone and its message waits again.
Crash(w) ==
    /\ phase[w] # "idle"
    /\ faults < MaxFaults
    /\ faults' = faults + 1
    /\ queue' = IF holds[w] THEN queue + 1 ELSE queue
    /\ EndTask(w)
    /\ token' = [token EXCEPT ![w] = 0]
    /\ batch' = [batch EXCEPT ![w] = {}]
    /\ skips' = [skips EXCEPT ![w] = {}]
    /\ todo' = [todo EXCEPT ![w] = {}]
    /\ answer' = [answer EXCEPT ![w] = NoAnswer]
    /\ seen' = [seen EXCEPT ![w] = {}]
    /\ UNCHANGED <<campaignVars, rowVars, received, eligible>>

-----------------------------------------------------------------------------
(* Sending: send_broadcast_campaign and its task *)

\* A guest subscribes or unsubscribes, blocks the bot or unblocks it.
ChangePreference(g) ==
    /\ eligible' = IF g \in eligible THEN eligible \ {g} ELSE eligible \cup {g}
    /\ UNCHANGED <<campaignVars, rowVars, received, taskVars, phase, holds, memory>>

\* The campaign row is locked while a worker is between the two reads.
CampaignFree == \A w \in Worker : phase[w] # "counting"

\* send_broadcast_campaign, by the admin or at the scheduled time.
QueueCampaign ==
    /\ CampaignFree
    /\ status \in {"draft", "failed"}
    /\ status' = "scheduled"
    /\ Messages < MaxTasks
    /\ Enqueue
    /\ UNCHANGED <<counters, rowVars, received, eligible, phase, holds, memory>>

\* Every row becomes pending again, the finished ones too.
Audience_BugReset ==
    [g \in Guest |-> IF g \in eligible THEN "pending" ELSE delivery[g]]

\* _record_broadcast_audience: a row for every eligible guest that has none.
Audience ==
    [g \in Guest |-> IF g \in eligible /\ delivery[g] = "none" THEN "pending"
                                                               ELSE delivery[g]]

\* A worker takes a message and runs _start_broadcast.
StartBroadcast(w) ==
    /\ phase[w] = "idle" /\ queue > 0
    /\ CampaignFree
    /\ queue' = queue - 1
    /\ \/ /\ status \in {"sent", "failed"}
          /\ UNCHANGED <<campaignVars, delivery, phase, holds>>
       \/ /\ status \notin {"sent", "failed"}
          /\ delivery' = IF status = "sending" THEN delivery ELSE Audience
          /\ \/ /\ \A g \in Guest : delivery'[g] = "none"
                /\ status' = "failed"
                /\ counters' = Count
                /\ UNCHANGED <<phase, holds>>
             \/ /\ \E g \in Guest : delivery'[g] # "none"
                /\ status' = "sending"
                /\ phase' = [phase EXCEPT ![w] = "started"]
                /\ holds' = [holds EXCEPT ![w] = TRUE]
                /\ UNCHANGED counters
    /\ UNCHANGED <<claim, claims, received, eligible, faults, memory>>

\* _fail_broadcast: the venue has no bot that may send.
FailBroadcast(w) ==
    /\ phase[w] = "started"
    /\ CampaignFree
    /\ \/ status = "sending" /\ status' = "failed" /\ counters' = Count
       \/ status # "sending" /\ UNCHANGED campaignVars
    /\ EndTask(w)
    /\ UNCHANGED <<rowVars, received, eligible, taskVars, memory>>

\* Rows that another worker is sending are claimed too.
Claimable_BugSending == RowsIn("pending") \cup RowsIn("sending")

\* The rows a claim may take; those a concurrent claim holds locked are skipped.
Claimable == RowsIn("pending")

\* _claim_broadcast_batch, under a fresh claim token.
ClaimBatch(w) ==
    /\ phase[w] = "started"
    /\ \/ /\ Claimable = {}
          /\ phase' = [phase EXCEPT ![w] = "advancing"]
          /\ UNCHANGED <<rowVars, token, batch>>
       \/ \E gs \in SUBSET Claimable :
             /\ gs # {}
             /\ Cardinality(gs) <= BatchSize
             /\ Cardinality(gs) < BatchSize => gs = Claimable
             /\ delivery' = [g \in Guest |-> IF g \in gs THEN "sending" ELSE delivery[g]]
             /\ claim' = [g \in Guest |-> IF g \in gs THEN claims + 1 ELSE claim[g]]
             /\ claims' = claims + 1
             /\ token' = [token EXCEPT ![w] = claims + 1]
             /\ batch' = [batch EXCEPT ![w] = gs]
             /\ phase' = [phase EXCEPT ![w] = "claimed"]
    /\ UNCHANGED <<campaignVars, received, eligible, taskVars, holds, skips, todo, answer, seen>>

\* The eligibility check right before sending.
Recheck(w) ==
    /\ phase[w] = "claimed"
    /\ todo' = [todo EXCEPT ![w] = batch[w] \cap eligible]
    /\ skips' = [skips EXCEPT ![w] = batch[w] \ eligible]
    /\ batch' = [batch EXCEPT ![w] = {}]
    /\ phase' = [phase EXCEPT ![w] = "sending"]
    /\ UNCHANGED <<campaignVars, rowVars, received, eligible, taskVars, holds, token, answer,
                   seen>>

\* The row is finished whatever became of it meanwhile.
Finishable_BugAnyState(w, g) == TRUE

\* _finish_broadcast_delivery updates a row only while this claim is still open.
Finishable(w, g) == claim[g] = token[w] /\ delivery[g] = "sending"

FinishDelivery(w, g, s) ==
    delivery' = IF Finishable(w, g) THEN [delivery EXCEPT ![g] = s] ELSE delivery

\* A guest who is no longer eligible is skipped.
SkipGuest(w, g) ==
    /\ phase[w] = "sending"
    /\ g \in skips[w]
    /\ skips' = [skips EXCEPT ![w] = @ \ {g}]
    /\ FinishDelivery(w, g, "skipped")
    /\ UNCHANGED <<campaignVars, claim, claims, received, eligible, taskVars, phase, holds,
                   token, batch, todo, answer, seen>>

\* One call to Telegram, with no transaction open.
SendMessage(w, g) ==
    /\ phase[w] = "sending"
    /\ skips[w] = {} /\ answer[w] = NoAnswer
    /\ g \in todo[w]
    /\ todo' = [todo EXCEPT ![w] = @ \ {g}]
    /\ \E result \in Answers :
          /\ answer' = [answer EXCEPT ![w] = [guest |-> g, result |-> result]]
          /\ \E got \in Delivered(result) :
                received' = IF got THEN [received EXCEPT ![g] = @ + 1] ELSE received
    /\ UNCHANGED <<campaignVars, rowVars, eligible, taskVars, phase, holds, token, batch,
                   skips, seen>>

\* record() of the answer; a guest who blocked the bot is marked.
RecordAnswer(w) ==
    /\ answer[w] # NoAnswer
    /\ FinishDelivery(w, answer[w].guest, RowStatus(answer[w].result))
    /\ eligible' = IF answer[w].result = "blocked" THEN eligible \ {answer[w].guest}
                                                   ELSE eligible
    /\ answer' = [answer EXCEPT ![w] = NoAnswer]
    /\ UNCHANGED <<campaignVars, claim, claims, received, taskVars, phase, holds, token,
                   batch, skips, todo, seen>>

\* The batch is done.
FinishBatch(w) ==
    /\ phase[w] = "sending"
    /\ skips[w] = {} /\ todo[w] = {} /\ answer[w] = NoAnswer
    /\ phase' = [phase EXCEPT ![w] = "advancing"]
    /\ token' = [token EXCEPT ![w] = 0]
    /\ UNCHANGED <<campaignVars, rowVars, received, eligible, taskVars, holds, batch, skips,
                   todo, answer, seen>>

\* _advance_broadcast up to its read of the open rows.
ReadOpen(w) ==
    /\ phase[w] = "advancing"
    /\ CampaignFree
    /\ \/ /\ status # "sending"
          /\ EndTask(w)
          /\ UNCHANGED seen
       \/ /\ status = "sending"
          /\ phase' = [phase EXCEPT ![w] = "counting"]
          /\ seen' = [seen EXCEPT ![w] = OpenStatuses]
          /\ UNCHANGED holds
    /\ UNCHANGED <<campaignVars, rowVars, received, eligible, taskVars, token, batch, skips,
                   todo, answer>>

\* Only the pending rows keep a campaign going.
Complete_BugPendingOnly(open) == "pending" \notin open

\* No row is open any more.
Complete(open) == open = {}

\* The rest of _advance_broadcast: the counters, then the next batch or the end.
AdvanceBroadcast(w) ==
    /\ phase[w] = "counting"
    /\ counters' = Count
    /\ \/ /\ Complete(seen[w])
          /\ status' = IF Count.sent = 0 THEN "failed" ELSE "sent"
          /\ UNCHANGED taskVars
       \/ /\ ~Complete(seen[w]) /\ "pending" \in seen[w]
          /\ Enqueue
          /\ UNCHANGED status
       \/ /\ ~Complete(seen[w]) /\ "pending" \notin seen[w]
          /\ UNCHANGED <<status, taskVars>>
    /\ seen' = [seen EXCEPT ![w] = {}]
    /\ EndTask(w)
    /\ UNCHANGED <<rowVars, received, eligible, token, batch, skips, todo, answer>>

-----------------------------------------------------------------------------
(* recover_stalled_broadcast_campaigns *)

\* Only the claims of a running campaign are looked after.
Expirable_BugRunning == IF status = "sending" THEN RowsIn("sending") ELSE {}

\* The claims that expire with time, whatever has become of the campaign.
Expirable == RowsIn("sending")

\* Claims past their lease become unknown, the oldest first; the worker may still
\* be alive and only slow.
ExpireClaims ==
    /\ \E oldest \in 1..claims :
          LET expired == {g \in Expirable : claim[g] <= oldest}
          IN  /\ expired # {}
              /\ delivery' = [g \in Guest |-> IF g \in expired THEN "unknown" ELSE delivery[g]]
    /\ UNCHANGED <<campaignVars, claim, claims, received, eligible, taskVars, phase, holds,
                   memory>>

\* A campaign with nothing left to send is not looked at.
Stalled_BugPending ==
    status = "sending" /\ RowsIn("sending") = {} /\ RowsIn("pending") # {}

\* Nobody is sending; whether the last claim is past its lease is left open.
Stalled == status = "sending" /\ RowsIn("sending") = {}

\* A stalled campaign is advanced: it gets a new task or is finalized.
RecoverCampaign(w) ==
    /\ phase[w] = "idle"
    /\ Stalled
    /\ Messages < MaxTasks
    /\ phase' = [phase EXCEPT ![w] = "advancing"]
    /\ UNCHANGED <<campaignVars, rowVars, received, eligible, taskVars, holds, memory>>

-----------------------------------------------------------------------------

Init ==
    /\ status = "draft"
    /\ counters = [sent |-> 0, failed |-> 0, unknown |-> 0]
    /\ delivery = [g \in Guest |-> "none"]
    /\ claim = [g \in Guest |-> 0]
    /\ claims = 0
    /\ received = [g \in Guest |-> 0]
    /\ eligible \in SUBSET Guest
    /\ queue = 0
    /\ faults = 0
    /\ phase = [w \in Worker |-> "idle"]
    /\ holds = [w \in Worker |-> FALSE]
    /\ token = [w \in Worker |-> 0]
    /\ batch = [w \in Worker |-> {}]
    /\ skips = [w \in Worker |-> {}]
    /\ todo = [w \in Worker |-> {}]
    /\ answer = [w \in Worker |-> NoAnswer]
    /\ seen = [w \in Worker |-> {}]

\* What a running task does next.
WorkerStep(w) ==
    \/ FailBroadcast(w)
    \/ ClaimBatch(w)
    \/ Recheck(w)
    \/ \E g \in Guest : SkipGuest(w, g) \/ SendMessage(w, g)
    \/ RecordAnswer(w)
    \/ FinishBatch(w)
    \/ ReadOpen(w)
    \/ AdvanceBroadcast(w)

Next ==
    \/ QueueCampaign
    \/ \E g \in Guest : ChangePreference(g)
    \/ \E w \in Worker : StartBroadcast(w) \/ WorkerStep(w) \/ Crash(w) \/ RecoverCampaign(w)
    \/ ExpireClaims
    \/ BrokerFault

Spec == Init /\ [][Next]_vars

\* Celery runs every task that waits and every step of one that runs, and the beat
\* schedule runs the recovery again and again.  Nobody has to queue a campaign, and
\* no fault has to happen.
Fairness ==
    /\ \A w \in Worker : /\ WF_vars(StartBroadcast(w))
                         /\ WF_vars(WorkerStep(w))
    /\ WF_vars(ExpireClaims)
    /\ WF_vars(\E w \in Worker : RecoverCampaign(w))

FairSpec == Spec /\ Fairness

-----------------------------------------------------------------------------
(* Properties *)

TypeOK ==
    /\ status \in {"draft", "scheduled", "sending", "sent", "failed"}
    /\ counters \in [sent : Nat, failed : Nat, unknown : Nat]
    /\ delivery \in [Guest -> {"none"} \cup Open \cup Finished]
    /\ claim \in [Guest -> Nat]
    /\ claims \in Nat
    /\ received \in [Guest -> Nat]
    /\ eligible \subseteq Guest
    /\ queue \in Nat
    /\ faults \in Nat
    /\ phase \in [Worker -> {"idle", "started", "claimed", "sending", "advancing", "counting"}]
    /\ holds \in [Worker -> BOOLEAN]
    /\ token \in [Worker -> Nat]
    /\ batch \in [Worker -> SUBSET Guest]
    /\ skips \in [Worker -> SUBSET Guest]
    /\ todo \in [Worker -> SUBSET Guest]
    /\ answer \in [Worker -> [guest : Guest, result : Answers] \cup {NoAnswer}]
    /\ seen \in [Worker -> SUBSET Open]

\* "Every guest receives a campaign at most once", with any number of workers,
\* crashes, repeated tasks, expired claims and restarts of the campaign.
AtMostOnce == \A g \in Guest : received[g] <= 1

\* The outcome a row tells is the truth: a guest whose row says sent has the
\* message, one whose row says failed or skipped has not; only unknown is open.
OutcomesTrue ==
    \A g \in Guest :
        /\ delivery[g] = "sent" => received[g] = 1
        /\ delivery[g] \in {"none", "pending", "failed", "skipped"} => received[g] = 0

\* A campaign that is sent is complete: no guest is left, at least one has the
\* message, and its counters are those of the rows, although they were read
\* while other workers were finishing theirs.
SentIsComplete ==
    status = "sent" => /\ OpenStatuses = {}
                       /\ counters = Count
                       /\ counters.sent > 0

RowsKept ==
    /\ \A g \in Guest :
          /\ delivery[g] \in Finished => delivery'[g] = delivery[g]
          /\ delivery[g] = "sending" => delivery'[g] \in {"sending"} \cup Finished
    /\ counters'.sent >= counters.sent
    /\ counters'.failed >= counters.failed
    /\ counters'.unknown >= counters.unknown

\* What a row has become is final: only open rows change, a claimed row is never
\* pending again, and counters never go down.
RowsFinal == [][RowsKept]_vars

\* A campaign that has started comes to an end, although workers die and tasks
\* are lost: the recovery finds what nobody works on any more.
SendingEnds == status = "sending" ~> status \in {"sent", "failed"}

\* No guest's row stays claimed for ever, not even in a failed campaign.
NoClaimForever == \A g \in Guest : delivery[g] = "sending" ~> delivery[g] \in Finished

-----------------------------------------------------------------------------
(* Why the safety properties hold: conjuncts of the inductive invariant. *)

\* The rows a worker has still to bring to an end.
Work(w) == batch[w] \cup skips[w] \cup todo[w]

\* A worker has something in hand only between its claim and the end of its batch,
\* and a row in one place only.
MemoryInv ==
    \A w \in Worker :
        /\ phase[w] \notin {"claimed", "sending"} =>
              Work(w) = {} /\ answer[w] = NoAnswer /\ token[w] = 0
        /\ phase[w] = "claimed" => skips[w] \cup todo[w] = {} /\ answer[w] = NoAnswer
        /\ phase[w] = "sending" => batch[w] = {}
        /\ skips[w] \cap todo[w] = {}
        /\ answer[w].guest \notin Work(w)

\* Claim tokens are fresh, so that no two workers hold the same.
TokenInv ==
    /\ \A g \in Guest : claim[g] <= claims
    /\ \A w \in Worker : token[w] <= claims
    /\ \A v, w \in Worker : v # w /\ token[v] = token[w] => token[w] = 0

\* A row in the hands of a worker is claimed by it, and no message went to its guest
\* yet; only its own worker or the end of the lease may have changed it.
WorkInv ==
    \A w \in Worker : \A g \in Work(w) :
        /\ claim[g] = token[w]
        /\ token[w] # 0
        /\ delivery[g] \in {"sending", "unknown"}
        /\ received[g] = 0

\* The same of an answer that is not recorded yet, which tells the truth.
AnswerInv ==
    \A w \in Worker : answer[w] # NoAnswer =>
        /\ claim[answer[w].guest] = token[w]
        /\ token[w] # 0
        /\ delivery[answer[w].guest] \in {"sending", "unknown"}
        /\ answer[w].result = "sent" => received[answer[w].guest] = 1
        /\ answer[w].result \in {"failed", "blocked"} => received[answer[w].guest] = 0

\* Whoever is between the two reads of _advance_broadcast holds the campaign row,
\* and if it saw no open row there still is none.
CountingInv ==
    /\ \A w \in Worker : phase[w] = "counting" =>
          status = "sending" /\ (seen[w] = {} => OpenStatuses = {})
    /\ \A v, w \in Worker : phase[v] = "counting" /\ phase[w] = "counting" => v = w

\* The counters never run ahead of the rows.
CountersInv ==
    /\ counters.sent <= Count.sent
    /\ counters.failed <= Count.failed
    /\ counters.unknown <= Count.unknown

IInv ==
    /\ TypeOK
    /\ MemoryInv
    /\ TokenInv
    /\ WorkInv
    /\ AnswerInv
    /\ AtMostOnce
    /\ OutcomesTrue
    /\ CountingInv
    /\ CountersInv
    /\ SentIsComplete

-----------------------------------------------------------------------------
(* What a broadcast promises, see Mailing. *)

Promise == INSTANCE Mailing WITH
        outcome <- [g \in Guest |-> IF delivery[g] \in Finished THEN delivery[g] ELSE "none"]

\* The campaign implements Mailing: whoever sends, each guest gets at most one message,
\* and no message after an outcome that says there was none.
ImplementsMailing == Promise!Spec
=============================================================================
