--------------------------- MODULE BroadcastProofs ---------------------------
(***************************************************************************)
(* The safety of Broadcast for any number of guests and workers, any batch *)
(* size and any number of crashes, losses and repetitions.                 *)
(*                                                                         *)
(* The argument: a row is claimed once, under a fresh token, so that its   *)
(* guest is in the hands of one worker (TokenInv, WorkInv); a message      *)
(* leaves those hands as it is sent (MemoryInv, AnswerInv); and what is    *)
(* stored afterwards only closes the row of that very claim.               *)
(***************************************************************************)
EXTENDS Broadcast, FiniteSetTheorems, TLAPS

-----------------------------------------------------------------------------
(* Rows and counters *)

\* Any set of rows is finite, and the counters computed from the rows are numbers.
LEMMA CountType ==
    /\ \A s : IsFiniteSet(RowsIn(s)) /\ Cardinality(RowsIn(s)) \in Nat
    /\ Count \in [sent : Nat, failed : Nat, unknown : Nat]
    /\ Count.sent = Cardinality(RowsIn("sent"))
    /\ Count.failed = Cardinality(RowsIn("failed"))
    /\ Count.unknown = Cardinality(RowsIn("unknown"))
<1>1. \A s : IsFiniteSet(RowsIn(s)) /\ Cardinality(RowsIn(s)) \in Nat
  <2> TAKE s
  <2>1. RowsIn(s) \subseteq Guest
    BY DEF RowsIn
  <2>2. IsFiniteSet(RowsIn(s))
    BY <2>1, FS_Subset, BroadcastAssumption
  <2> QED BY <2>2, FS_CardinalityType
<1> QED BY <1>1 DEF Count

LEMMA CountTypeNext == Count' \in [sent : Nat, failed : Nat, unknown : Nat]
<1>1. \A s : Cardinality(RowsIn(s))' \in Nat
  <2> TAKE s
  <2>1. RowsIn(s)' \subseteq Guest
    BY DEF RowsIn
  <2>2. IsFiniteSet(RowsIn(s)')
    BY <2>1, FS_Subset, BroadcastAssumption
  <2> QED BY <2>2, FS_CardinalityType
<1> QED BY <1>1 DEF Count, RowsIn

\* As long as finished rows stay as they are, the counts of the rows only grow.
LEMMA CountGrows ==
    ASSUME \A g \in Guest : delivery[g] \in Finished => delivery'[g] = delivery[g]
    PROVE  /\ Count.sent <= Count'.sent
           /\ Count.failed <= Count'.failed
           /\ Count.unknown <= Count'.unknown
<1>1. ASSUME NEW s \in {"sent", "failed", "unknown"}
      PROVE  Cardinality(RowsIn(s)) <= Cardinality(RowsIn(s))'
  <2>1. RowsIn(s) \subseteq RowsIn(s)'
    BY DEF RowsIn, Finished
  <2>2. RowsIn(s)' \subseteq Guest
    BY DEF RowsIn
  <2>3. IsFiniteSet(RowsIn(s)')
    BY <2>2, FS_Subset, BroadcastAssumption
  <2> QED BY <2>1, <2>3, FS_Subset, FS_CardinalityType
<1>2. /\ Count'.sent = Cardinality(RowsIn("sent")')
      /\ Count'.failed = Cardinality(RowsIn("failed")')
      /\ Count'.unknown = Cardinality(RowsIn("unknown")')
  BY DEF Count, RowsIn
<1> QED BY <1>1, <1>2, CountType

\* The counts are those of the rows.
LEMMA CountKept ==
    ASSUME UNCHANGED delivery
    PROVE  Count' = Count /\ OpenStatuses' = OpenStatuses
BY DEF Count, RowsIn, OpenStatuses

-----------------------------------------------------------------------------
(* Types *)

\* Handing a message to the broker keeps the types of the broker's variables.
LEMMA EnqueueType ==
    ASSUME TypeOK, Enqueue
    PROVE  queue' \in Nat /\ faults' \in Nat
BY DEF TypeOK, Enqueue

\* Every step keeps the types.
LEMMA TypeStep == TypeOK /\ [Next]_vars => TypeOK'
<1> SUFFICES ASSUME TypeOK, [Next]_vars PROVE TypeOK'
  OBVIOUS
<1> USE DEF TypeOK
<1>1. CASE QueueCampaign
  BY <1>1, EnqueueType DEF QueueCampaign, rowVars, memory
<1>2. ASSUME NEW g \in Guest, ChangePreference(g) PROVE TypeOK'
  BY <1>2 DEF ChangePreference, campaignVars, rowVars, taskVars, memory
<1>3. ASSUME NEW w \in Worker, StartBroadcast(w) PROVE TypeOK'
  <2>1. UNCHANGED <<claim, claims, received, eligible, faults, memory>> /\ queue' \in Nat
    BY <1>3 DEF StartBroadcast
  <2>2. Audience \in [Guest -> {"none"} \cup Open \cup Finished]
    BY DEF Audience, Open
  <2>3. delivery' \in [Guest -> {"none"} \cup Open \cup Finished]
    BY <1>3, <2>2 DEF StartBroadcast
  <2>4. counters' \in [sent : Nat, failed : Nat, unknown : Nat]
    BY <1>3, CountType DEF StartBroadcast, campaignVars
  <2>5. /\ phase' \in [Worker -> {"idle", "started", "claimed", "sending", "advancing",
                                  "counting"}]
        /\ holds' \in [Worker -> BOOLEAN]
        /\ status' \in {"draft", "scheduled", "sending", "sent", "failed"}
    BY <1>3 DEF StartBroadcast, campaignVars
  <2> QED BY <2>1, <2>3, <2>4, <2>5 DEF memory
<1>4. ASSUME NEW w \in Worker, FailBroadcast(w) PROVE TypeOK'
  <2>1. counters' \in [sent : Nat, failed : Nat, unknown : Nat]
    BY <1>4, CountType DEF FailBroadcast, campaignVars
  <2> QED
    BY <1>4, <2>1 DEF FailBroadcast, EndTask, campaignVars, rowVars, taskVars, memory
<1>5. ASSUME NEW w \in Worker, ClaimBatch(w) PROVE TypeOK'
  BY <1>5 DEF ClaimBatch, Claimable, RowsIn, Open, campaignVars, rowVars, taskVars
<1>6. ASSUME NEW w \in Worker, Recheck(w) PROVE TypeOK'
  BY <1>6 DEF Recheck, campaignVars, rowVars, taskVars
<1>7. ASSUME NEW w \in Worker, NEW g \in Guest, SkipGuest(w, g) PROVE TypeOK'
  BY <1>7 DEF SkipGuest, FinishDelivery, Finished, campaignVars, taskVars
<1>8. ASSUME NEW w \in Worker, NEW g \in Guest, SendMessage(w, g) PROVE TypeOK'
  <2>1. PICK result \in Answers :
           /\ answer' = [answer EXCEPT ![w] = [guest |-> g, result |-> result]]
           /\ \E got \in Delivered(result) :
                 received' = IF got THEN [received EXCEPT ![g] = @ + 1] ELSE received
    BY <1>8 DEF SendMessage
  <2>2. received' \in [Guest -> Nat]
    BY <2>1
  <2> QED
    BY <1>8, <2>1, <2>2 DEF SendMessage, campaignVars, rowVars, taskVars
<1>9. ASSUME NEW w \in Worker, RecordAnswer(w) PROVE TypeOK'
  <2>1. answer[w].guest \in Guest /\ answer[w].result \in Answers
    BY <1>9 DEF RecordAnswer
  <2>2. delivery' \in [Guest -> {"none"} \cup Open \cup Finished]
    BY <1>9, <2>1 DEF RecordAnswer, FinishDelivery, RowStatus, Answers, Finished
  <2> QED
    BY <1>9, <2>2 DEF RecordAnswer, campaignVars, taskVars
<1>10. ASSUME NEW w \in Worker, FinishBatch(w) PROVE TypeOK'
  BY <1>10 DEF FinishBatch, campaignVars, rowVars, taskVars
<1>11. ASSUME NEW w \in Worker, ReadOpen(w) PROVE TypeOK'
  <2>1. OpenStatuses \subseteq Open
    BY DEF OpenStatuses
  <2> QED
    BY <1>11, <2>1 DEF ReadOpen, EndTask, campaignVars, rowVars, taskVars
<1>12. ASSUME NEW w \in Worker, AdvanceBroadcast(w) PROVE TypeOK'
  <2>1. counters' \in [sent : Nat, failed : Nat, unknown : Nat]
    BY <1>12, CountType DEF AdvanceBroadcast
  <2>2. queue' \in Nat /\ faults' \in Nat
    BY <1>12, EnqueueType DEF AdvanceBroadcast, taskVars
  <2> QED
    BY <1>12, <2>1, <2>2 DEF AdvanceBroadcast, EndTask, rowVars
<1>13. ASSUME NEW w \in Worker, Crash(w) PROVE TypeOK'
  BY <1>13 DEF Crash, EndTask, campaignVars, rowVars
<1>14. ASSUME NEW w \in Worker, RecoverCampaign(w) PROVE TypeOK'
  BY <1>14 DEF RecoverCampaign, campaignVars, rowVars, taskVars, memory
<1>15. CASE ExpireClaims
  BY <1>15 DEF ExpireClaims, Finished, campaignVars, taskVars, memory
<1>16. CASE BrokerFault
  BY <1>16 DEF BrokerFault, campaignVars, rowVars, memory
<1>17. CASE UNCHANGED vars
  BY <1>17 DEF vars
<1> QED
  BY <1>1, <1>2, <1>3, <1>4, <1>5, <1>6, <1>7, <1>8, <1>9, <1>10, <1>11, <1>12, <1>13,
     <1>14, <1>15, <1>16, <1>17 DEF Next, WorkerStep
-----------------------------------------------------------------------------
(* The memory of the workers *)

\* A row stays in one place of the memory of a worker.
LEMMA MemoryStep == TypeOK /\ MemoryInv /\ [Next]_vars => MemoryInv'
<1> SUFFICES ASSUME TypeOK, MemoryInv, [Next]_vars PROVE MemoryInv'
  OBVIOUS
<1> USE DEF TypeOK, MemoryInv, Work, NoAnswer
<1>1. CASE QueueCampaign
  BY <1>1 DEF QueueCampaign, rowVars, memory
<1>2. ASSUME NEW g \in Guest, ChangePreference(g) PROVE MemoryInv'
  BY <1>2 DEF ChangePreference, campaignVars, rowVars, taskVars, memory
<1>3. ASSUME NEW w \in Worker, StartBroadcast(w) PROVE MemoryInv'
  BY <1>3 DEF StartBroadcast, campaignVars, memory
<1>4. ASSUME NEW w \in Worker, FailBroadcast(w) PROVE MemoryInv'
  BY <1>4 DEF FailBroadcast, EndTask, campaignVars, rowVars, taskVars, memory
<1>5. ASSUME NEW w \in Worker, ClaimBatch(w) PROVE MemoryInv'
  <2>1. CASE UNCHANGED <<rowVars, token, batch>> /\ phase' = [phase EXCEPT ![w] = "advancing"]
    BY <1>5, <2>1 DEF ClaimBatch, rowVars
  <2>2. CASE \E gs \in SUBSET Claimable :
                /\ claim' = [g \in Guest |-> IF g \in gs THEN claims + 1 ELSE claim[g]]
                /\ claims' = claims + 1
                /\ token' = [token EXCEPT ![w] = claims + 1]
                /\ batch' = [batch EXCEPT ![w] = gs]
                /\ phase' = [phase EXCEPT ![w] = "claimed"]
    <3>1. UNCHANGED <<skips, todo, answer>>
      BY <1>5 DEF ClaimBatch
    <3>2. PICK gs \in SUBSET Claimable : /\ batch' = [batch EXCEPT ![w] = gs]
                                        /\ phase' = [phase EXCEPT ![w] = "claimed"]
                                        /\ token' = [token EXCEPT ![w] = claims + 1]
      BY <2>2
    <3>3. phase[w] = "started" /\ gs \subseteq Guest
      BY <1>5 DEF ClaimBatch, Claimable, RowsIn
    <3> QED BY <3>1, <3>2, <3>3, BroadcastAssumption
  <2> QED
    BY <1>5, <2>1, <2>2 DEF ClaimBatch
<1>6. ASSUME NEW w \in Worker, Recheck(w) PROVE MemoryInv'
  BY <1>6 DEF Recheck, campaignVars, rowVars, taskVars
<1>7. ASSUME NEW w \in Worker, NEW g \in Guest, SkipGuest(w, g) PROVE MemoryInv'
  BY <1>7 DEF SkipGuest, campaignVars, taskVars
<1>8. ASSUME NEW w \in Worker, NEW g \in Guest, SendMessage(w, g) PROVE MemoryInv'
  BY <1>8, BroadcastAssumption DEF SendMessage, campaignVars, rowVars, taskVars
<1>9. ASSUME NEW w \in Worker, RecordAnswer(w) PROVE MemoryInv'
  BY <1>9, BroadcastAssumption DEF RecordAnswer, campaignVars, taskVars
<1>10. ASSUME NEW w \in Worker, FinishBatch(w) PROVE MemoryInv'
  BY <1>10 DEF FinishBatch, campaignVars, rowVars, taskVars
<1>11. ASSUME NEW w \in Worker, ReadOpen(w) PROVE MemoryInv'
  BY <1>11 DEF ReadOpen, EndTask, campaignVars, rowVars, taskVars
<1>12. ASSUME NEW w \in Worker, AdvanceBroadcast(w) PROVE MemoryInv'
  BY <1>12 DEF AdvanceBroadcast, EndTask, rowVars, taskVars
<1>13. ASSUME NEW w \in Worker, Crash(w) PROVE MemoryInv'
  BY <1>13 DEF Crash, EndTask, campaignVars, rowVars
<1>14. ASSUME NEW w \in Worker, RecoverCampaign(w) PROVE MemoryInv'
  BY <1>14 DEF RecoverCampaign, campaignVars, rowVars, taskVars, memory
<1>15. CASE ExpireClaims
  BY <1>15 DEF ExpireClaims, campaignVars, taskVars, memory
<1>16. CASE BrokerFault
  BY <1>16 DEF BrokerFault, campaignVars, rowVars, memory
<1>17. CASE UNCHANGED vars
  BY <1>17 DEF vars
<1> QED
  BY <1>1, <1>2, <1>3, <1>4, <1>5, <1>6, <1>7, <1>8, <1>9, <1>10, <1>11, <1>12, <1>13,
     <1>14, <1>15, <1>16, <1>17 DEF Next, WorkerStep

\* Claim tokens stay fresh.
LEMMA TokenStep == TypeOK /\ MemoryInv /\ TokenInv /\ [Next]_vars => TokenInv'
<1> SUFFICES ASSUME TypeOK, MemoryInv, TokenInv, [Next]_vars PROVE TokenInv'
  OBVIOUS
<1> USE DEF TypeOK, MemoryInv, TokenInv
<1>1. CASE QueueCampaign
  BY <1>1 DEF QueueCampaign, rowVars, memory
<1>2. ASSUME NEW g \in Guest, ChangePreference(g) PROVE TokenInv'
  BY <1>2 DEF ChangePreference, campaignVars, rowVars, taskVars, memory
<1>3. ASSUME NEW w \in Worker, StartBroadcast(w) PROVE TokenInv'
  BY <1>3 DEF StartBroadcast, campaignVars, memory
<1>4. ASSUME NEW w \in Worker, FailBroadcast(w) PROVE TokenInv'
  BY <1>4 DEF FailBroadcast, EndTask, campaignVars, rowVars, taskVars, memory
<1>5. ASSUME NEW w \in Worker, ClaimBatch(w) PROVE TokenInv'
  <2>1. CASE UNCHANGED <<rowVars, token, batch>> /\ phase' = [phase EXCEPT ![w] = "advancing"]
    BY <1>5, <2>1 DEF ClaimBatch, rowVars
  <2>2. CASE \E gs \in SUBSET Claimable :
                /\ claim' = [g \in Guest |-> IF g \in gs THEN claims + 1 ELSE claim[g]]
                /\ claims' = claims + 1
                /\ token' = [token EXCEPT ![w] = claims + 1]
                /\ batch' = [batch EXCEPT ![w] = gs]
                /\ phase' = [phase EXCEPT ![w] = "claimed"]
    <3>1. claims' = claims + 1 /\ token' = [token EXCEPT ![w] = claims + 1]
      BY <2>2
    <3>2. \A g \in Guest : claim'[g] = claims + 1 \/ claim'[g] = claim[g]
      BY <2>2
    <3>3. \A g \in Guest : claim'[g] <= claims'
      BY <3>1, <3>2
    <3>4. \A v \in Worker : v # w => token'[v] = token[v] /\ token'[v] < token'[w]
      BY <3>1
    <3>5. token'[w] = claims'
      BY <3>1
    <3> QED BY <3>1, <3>3, <3>4, <3>5
  <2> QED
    BY <1>5, <2>1, <2>2 DEF ClaimBatch
<1>6. ASSUME NEW w \in Worker, Recheck(w) PROVE TokenInv'
  BY <1>6 DEF Recheck, campaignVars, rowVars, taskVars
<1>7. ASSUME NEW w \in Worker, NEW g \in Guest, SkipGuest(w, g) PROVE TokenInv'
  BY <1>7 DEF SkipGuest, campaignVars, taskVars
<1>8. ASSUME NEW w \in Worker, NEW g \in Guest, SendMessage(w, g) PROVE TokenInv'
  BY <1>8 DEF SendMessage, campaignVars, rowVars, taskVars
<1>9. ASSUME NEW w \in Worker, RecordAnswer(w) PROVE TokenInv'
  BY <1>9 DEF RecordAnswer, campaignVars, taskVars
<1>10. ASSUME NEW w \in Worker, FinishBatch(w) PROVE TokenInv'
  BY <1>10 DEF FinishBatch, campaignVars, rowVars, taskVars
<1>11. ASSUME NEW w \in Worker, ReadOpen(w) PROVE TokenInv'
  BY <1>11 DEF ReadOpen, EndTask, campaignVars, rowVars, taskVars
<1>12. ASSUME NEW w \in Worker, AdvanceBroadcast(w) PROVE TokenInv'
  BY <1>12 DEF AdvanceBroadcast, EndTask, rowVars, taskVars
<1>13. ASSUME NEW w \in Worker, Crash(w) PROVE TokenInv'
  BY <1>13 DEF Crash, EndTask, campaignVars, rowVars
<1>14. ASSUME NEW w \in Worker, RecoverCampaign(w) PROVE TokenInv'
  BY <1>14 DEF RecoverCampaign, campaignVars, rowVars, taskVars, memory
<1>15. CASE ExpireClaims
  BY <1>15 DEF ExpireClaims, campaignVars, taskVars, memory
<1>16. CASE BrokerFault
  BY <1>16 DEF BrokerFault, campaignVars, rowVars, memory
<1>17. CASE UNCHANGED vars
  BY <1>17 DEF vars
<1> QED
  BY <1>1, <1>2, <1>3, <1>4, <1>5, <1>6, <1>7, <1>8, <1>9, <1>10, <1>11, <1>12, <1>13,
     <1>14, <1>15, <1>16, <1>17 DEF Next, WorkerStep
-----------------------------------------------------------------------------
(* Claims, messages and outcomes *)

\* A guest is in the hands of one worker only, and is answered for by one only.
LEMMA HandsApart ==
    ASSUME TokenInv, WorkInv, AnswerInv, NEW v \in Worker, NEW w \in Worker, v # w
    PROVE  /\ Work(v) \cap Work(w) = {}
           /\ answer[v] # NoAnswer => answer[v].guest \notin Work(w)
           /\ answer[v] # NoAnswer /\ answer[w] # NoAnswer => answer[v].guest # answer[w].guest
BY DEF TokenInv, WorkInv, AnswerInv, Work, TypeOK

\* What a call to Telegram finds and what it leaves.
LEMMA SendFacts ==
    ASSUME TypeOK, WorkInv, NEW w \in Worker, NEW g \in Guest, SendMessage(w, g)
    PROVE  /\ claim[g] = token[w] /\ token[w] # 0
           /\ delivery[g] \in {"sending", "unknown"}
           /\ received[g] = 0
           /\ UNCHANGED <<delivery, claim, token, batch, skips, phase>>
           /\ todo' = [todo EXCEPT ![w] = @ \ {g}]
           /\ \E result \in Answers :
                 /\ answer' = [answer EXCEPT ![w] = [guest |-> g, result |-> result]]
                 /\ received'[g] \in {0, 1}
                 /\ result = "sent" => received'[g] = 1
                 /\ result \in {"failed", "blocked"} => received'[g] = 0
           /\ \A h \in Guest : h # g => received'[h] = received[h]
<1>1. g \in Work(w)
  BY DEF SendMessage, Work
<1>2. received[g] = 0
  BY <1>1 DEF WorkInv
<1>3. PICK result \in Answers :
         /\ answer' = [answer EXCEPT ![w] = [guest |-> g, result |-> result]]
         /\ \E got \in Delivered(result) :
               received' = IF got THEN [received EXCEPT ![g] = @ + 1] ELSE received
  BY DEF SendMessage
<1>4. PICK got \in Delivered(result) :
         received' = IF got THEN [received EXCEPT ![g] = @ + 1] ELSE received
  BY <1>3
<1>5. /\ got \in BOOLEAN
      /\ result = "sent" => got
      /\ result \in {"failed", "blocked"} => ~got
  BY <1>3, <1>4 DEF Delivered, Answers
<1>6. received' \in [Guest -> Nat] /\ received'[g] = IF got THEN 1 ELSE 0
  BY <1>2, <1>4, <1>5 DEF TypeOK
<1>7. \A h \in Guest : h # g => received'[h] = received[h]
  BY <1>4, <1>5 DEF TypeOK
<1> QED
  BY <1>1, <1>2, <1>3, <1>5, <1>6, <1>7 DEF WorkInv, SendMessage, rowVars

\* Rows in the hands of a worker stay claimed by it and without a message.
LEMMA WorkStep == IInv /\ [Next]_vars => WorkInv'
<1> SUFFICES ASSUME IInv, [Next]_vars PROVE WorkInv'
  OBVIOUS
<1> TypeOK /\ MemoryInv /\ TokenInv /\ WorkInv /\ AnswerInv /\ AtMostOnce /\ OutcomesTrue
  BY DEF IInv
<1> USE DEF TypeOK, MemoryInv, WorkInv, Work, NoAnswer
<1>1. CASE QueueCampaign
  BY <1>1 DEF QueueCampaign, rowVars, memory
<1>2. ASSUME NEW g \in Guest, ChangePreference(g) PROVE WorkInv'
  BY <1>2 DEF ChangePreference, campaignVars, rowVars, taskVars, memory
<1>3. ASSUME NEW w \in Worker, StartBroadcast(w) PROVE WorkInv'
  BY <1>3 DEF StartBroadcast, Audience, campaignVars, memory
<1>4. ASSUME NEW w \in Worker, FailBroadcast(w) PROVE WorkInv'
  BY <1>4 DEF FailBroadcast, EndTask, campaignVars, rowVars, taskVars, memory
<1>5. ASSUME NEW w \in Worker, ClaimBatch(w) PROVE WorkInv'
  <2>1. UNCHANGED <<skips, todo, received>> /\ phase[w] = "started"
    BY <1>5 DEF ClaimBatch
  <2>2. CASE UNCHANGED <<rowVars, token, batch>>
    BY <2>1, <2>2 DEF rowVars
  <2>3. CASE \E gs \in SUBSET Claimable :
                /\ delivery' = [g \in Guest |-> IF g \in gs THEN "sending" ELSE delivery[g]]
                /\ claim' = [g \in Guest |-> IF g \in gs THEN claims + 1 ELSE claim[g]]
                /\ token' = [token EXCEPT ![w] = claims + 1]
                /\ batch' = [batch EXCEPT ![w] = gs]
    <3>1. PICK gs \in SUBSET Claimable :
             /\ delivery' = [g \in Guest |-> IF g \in gs THEN "sending" ELSE delivery[g]]
             /\ claim' = [g \in Guest |-> IF g \in gs THEN claims + 1 ELSE claim[g]]
             /\ token' = [token EXCEPT ![w] = claims + 1]
             /\ batch' = [batch EXCEPT ![w] = gs]
      BY <2>3
    <3>2. \A g \in gs : g \in Guest /\ delivery[g] = "pending" /\ received[g] = 0
      BY DEF Claimable, RowsIn, OutcomesTrue
    <3>3. ASSUME NEW g \in Work(w)'
          PROVE  /\ claim'[g] = token'[w] /\ token'[w] # 0
                 /\ delivery'[g] \in {"sending", "unknown"} /\ received'[g] = 0
      <4>1. g \in gs
        BY <2>1, <3>1, <3>3
      <4> QED BY <2>1, <3>1, <3>2, <4>1
    <3>4. ASSUME NEW v \in Worker, v # w, NEW g \in Work(v)'
          PROVE  /\ claim'[g] = token'[v] /\ token'[v] # 0
                 /\ delivery'[g] \in {"sending", "unknown"} /\ received'[g] = 0
      <4>1. g \in Work(v) /\ g \notin gs /\ g \in Guest
        BY <2>1, <3>1, <3>2, <3>4
      <4> QED BY <2>1, <3>1, <3>4, <4>1
    <3> QED BY <3>3, <3>4
  <2> QED
    BY <1>5, <2>2, <2>3 DEF ClaimBatch
<1>6. ASSUME NEW w \in Worker, Recheck(w) PROVE WorkInv'
  BY <1>6 DEF Recheck, campaignVars, rowVars, taskVars
<1>7. ASSUME NEW w \in Worker, NEW g \in Guest, SkipGuest(w, g) PROVE WorkInv'
  BY <1>7, HandsApart, BroadcastAssumption
     DEF SkipGuest, FinishDelivery, Finishable, campaignVars, taskVars
<1>8. ASSUME NEW w \in Worker, NEW g \in Guest, SendMessage(w, g) PROVE WorkInv'
  BY <1>8, HandsApart, BroadcastAssumption
     DEF SendMessage, Answers, Delivered, campaignVars, rowVars, taskVars
<1>9. ASSUME NEW w \in Worker, RecordAnswer(w) PROVE WorkInv'
  BY <1>9, HandsApart, BroadcastAssumption
     DEF RecordAnswer, FinishDelivery, Finishable, RowStatus, campaignVars, taskVars
<1>10. ASSUME NEW w \in Worker, FinishBatch(w) PROVE WorkInv'
  BY <1>10 DEF FinishBatch, campaignVars, rowVars, taskVars
<1>11. ASSUME NEW w \in Worker, ReadOpen(w) PROVE WorkInv'
  BY <1>11 DEF ReadOpen, EndTask, campaignVars, rowVars, taskVars
<1>12. ASSUME NEW w \in Worker, AdvanceBroadcast(w) PROVE WorkInv'
  BY <1>12 DEF AdvanceBroadcast, EndTask, rowVars, taskVars
<1>13. ASSUME NEW w \in Worker, Crash(w) PROVE WorkInv'
  BY <1>13 DEF Crash, EndTask, campaignVars, rowVars
<1>14. ASSUME NEW w \in Worker, RecoverCampaign(w) PROVE WorkInv'
  BY <1>14 DEF RecoverCampaign, campaignVars, rowVars, taskVars, memory
<1>15. CASE ExpireClaims
  BY <1>15 DEF ExpireClaims, Expirable, RowsIn, campaignVars, taskVars, memory
<1>16. CASE BrokerFault
  BY <1>16 DEF BrokerFault, campaignVars, rowVars, memory
<1>17. CASE UNCHANGED vars
  BY <1>17 DEF vars
<1> QED
  BY <1>1, <1>2, <1>3, <1>4, <1>5, <1>6, <1>7, <1>8, <1>9, <1>10, <1>11, <1>12, <1>13,
     <1>14, <1>15, <1>16, <1>17 DEF Next, WorkerStep

\* Answers that wait to be recorded stay true.
LEMMA AnswerStep == IInv /\ [Next]_vars => AnswerInv'
<1> SUFFICES ASSUME IInv, [Next]_vars PROVE AnswerInv'
  OBVIOUS
<1> TypeOK /\ MemoryInv /\ TokenInv /\ WorkInv /\ AnswerInv /\ AtMostOnce /\ OutcomesTrue
  BY DEF IInv
<1> USE DEF TypeOK, MemoryInv, AnswerInv, Work, NoAnswer
<1>1. CASE QueueCampaign
  BY <1>1 DEF QueueCampaign, rowVars, memory
<1>2. ASSUME NEW g \in Guest, ChangePreference(g) PROVE AnswerInv'
  BY <1>2 DEF ChangePreference, campaignVars, rowVars, taskVars, memory
<1>3. ASSUME NEW w \in Worker, StartBroadcast(w) PROVE AnswerInv'
  BY <1>3 DEF StartBroadcast, Audience, campaignVars, memory
<1>4. ASSUME NEW w \in Worker, FailBroadcast(w) PROVE AnswerInv'
  BY <1>4 DEF FailBroadcast, EndTask, campaignVars, rowVars, taskVars, memory
<1>5. ASSUME NEW w \in Worker, ClaimBatch(w) PROVE AnswerInv'
  BY <1>5 DEF ClaimBatch, Claimable, RowsIn, campaignVars, rowVars, taskVars
<1>6. ASSUME NEW w \in Worker, Recheck(w) PROVE AnswerInv'
  BY <1>6 DEF Recheck, campaignVars, rowVars, taskVars
<1>7. ASSUME NEW w \in Worker, NEW g \in Guest, SkipGuest(w, g) PROVE AnswerInv'
  BY <1>7, HandsApart, BroadcastAssumption
     DEF SkipGuest, FinishDelivery, Finishable, campaignVars, taskVars
<1>8. ASSUME NEW w \in Worker, NEW g \in Guest, SendMessage(w, g) PROVE AnswerInv'
  <2> PICK result \in Answers :
        /\ answer' = [answer EXCEPT ![w] = [guest |-> g, result |-> result]]
        /\ result = "sent" => received'[g] = 1
        /\ result \in {"failed", "blocked"} => received'[g] = 0
    BY <1>8, SendFacts
  <2>1. ASSUME NEW v \in Worker, v # w, answer'[v] # NoAnswer
        PROVE  answer'[v] = answer[v] /\ answer[v].guest \in Guest /\ answer[v].guest # g
    <3>1. answer'[v] = answer[v] /\ answer[v].guest \in Guest
      BY <2>1
    <3>2. g \in Work(w)
      BY <1>8 DEF SendMessage
    <3> QED BY <2>1, <3>1, <3>2, HandsApart
  <2> QED BY <1>8, <2>1, SendFacts
<1>9. ASSUME NEW w \in Worker, RecordAnswer(w) PROVE AnswerInv'
  BY <1>9, HandsApart, BroadcastAssumption
     DEF RecordAnswer, FinishDelivery, Finishable, RowStatus, campaignVars, taskVars
<1>10. ASSUME NEW w \in Worker, FinishBatch(w) PROVE AnswerInv'
  BY <1>10 DEF FinishBatch, campaignVars, rowVars, taskVars
<1>11. ASSUME NEW w \in Worker, ReadOpen(w) PROVE AnswerInv'
  BY <1>11 DEF ReadOpen, EndTask, campaignVars, rowVars, taskVars
<1>12. ASSUME NEW w \in Worker, AdvanceBroadcast(w) PROVE AnswerInv'
  BY <1>12 DEF AdvanceBroadcast, EndTask, rowVars, taskVars
<1>13. ASSUME NEW w \in Worker, Crash(w) PROVE AnswerInv'
  BY <1>13 DEF Crash, EndTask, campaignVars, rowVars
<1>14. ASSUME NEW w \in Worker, RecoverCampaign(w) PROVE AnswerInv'
  BY <1>14 DEF RecoverCampaign, campaignVars, rowVars, taskVars, memory
<1>15. CASE ExpireClaims
  BY <1>15 DEF ExpireClaims, Expirable, RowsIn, campaignVars, taskVars, memory
<1>16. CASE BrokerFault
  BY <1>16 DEF BrokerFault, campaignVars, rowVars, memory
<1>17. CASE UNCHANGED vars
  BY <1>17 DEF vars
<1> QED
  BY <1>1, <1>2, <1>3, <1>4, <1>5, <1>6, <1>7, <1>8, <1>9, <1>10, <1>11, <1>12, <1>13,
     <1>14, <1>15, <1>16, <1>17 DEF Next, WorkerStep

\* No second message is sent.
LEMMA OnceStep == IInv /\ [Next]_vars => AtMostOnce'
<1> SUFFICES ASSUME IInv, [Next]_vars PROVE AtMostOnce'
  OBVIOUS
<1> TypeOK /\ MemoryInv /\ TokenInv /\ WorkInv /\ AnswerInv /\ AtMostOnce /\ OutcomesTrue
  BY DEF IInv
<1> USE DEF TypeOK, MemoryInv, AtMostOnce, Work
<1>1. CASE QueueCampaign
  BY <1>1 DEF QueueCampaign, rowVars, memory
<1>2. ASSUME NEW g \in Guest, ChangePreference(g) PROVE AtMostOnce'
  BY <1>2 DEF ChangePreference, campaignVars, rowVars, taskVars, memory
<1>3. ASSUME NEW w \in Worker, StartBroadcast(w) PROVE AtMostOnce'
  BY <1>3 DEF StartBroadcast, Audience, campaignVars, memory
<1>4. ASSUME NEW w \in Worker, FailBroadcast(w) PROVE AtMostOnce'
  BY <1>4 DEF FailBroadcast, EndTask, campaignVars, rowVars, taskVars, memory
<1>5. ASSUME NEW w \in Worker, ClaimBatch(w) PROVE AtMostOnce'
  BY <1>5 DEF ClaimBatch, Claimable, RowsIn, campaignVars, rowVars, taskVars
<1>6. ASSUME NEW w \in Worker, Recheck(w) PROVE AtMostOnce'
  BY <1>6 DEF Recheck, campaignVars, rowVars, taskVars
<1>7. ASSUME NEW w \in Worker, NEW g \in Guest, SkipGuest(w, g) PROVE AtMostOnce'
  BY <1>7, HandsApart, BroadcastAssumption
     DEF SkipGuest, FinishDelivery, Finishable, campaignVars, taskVars
<1>8. ASSUME NEW w \in Worker, NEW g \in Guest, SendMessage(w, g) PROVE AtMostOnce'
  <2>1. \A h \in Guest : h # g => received'[h] = received[h]
    BY <1>8, SendFacts
  <2>2. received'[g] \in {0, 1}
    BY <1>8, SendFacts
  <2> QED BY <2>1, <2>2
<1>9. ASSUME NEW w \in Worker, RecordAnswer(w) PROVE AtMostOnce'
  BY <1>9, HandsApart, BroadcastAssumption
     DEF RecordAnswer, FinishDelivery, Finishable, RowStatus, campaignVars, taskVars
<1>10. ASSUME NEW w \in Worker, FinishBatch(w) PROVE AtMostOnce'
  BY <1>10 DEF FinishBatch, campaignVars, rowVars, taskVars
<1>11. ASSUME NEW w \in Worker, ReadOpen(w) PROVE AtMostOnce'
  BY <1>11 DEF ReadOpen, EndTask, campaignVars, rowVars, taskVars
<1>12. ASSUME NEW w \in Worker, AdvanceBroadcast(w) PROVE AtMostOnce'
  BY <1>12 DEF AdvanceBroadcast, EndTask, rowVars, taskVars
<1>13. ASSUME NEW w \in Worker, Crash(w) PROVE AtMostOnce'
  BY <1>13 DEF Crash, EndTask, campaignVars, rowVars
<1>14. ASSUME NEW w \in Worker, RecoverCampaign(w) PROVE AtMostOnce'
  BY <1>14 DEF RecoverCampaign, campaignVars, rowVars, taskVars, memory
<1>15. CASE ExpireClaims
  BY <1>15 DEF ExpireClaims, Expirable, RowsIn, campaignVars, taskVars, memory
<1>16. CASE BrokerFault
  BY <1>16 DEF BrokerFault, campaignVars, rowVars, memory
<1>17. CASE UNCHANGED vars
  BY <1>17 DEF vars
<1> QED
  BY <1>1, <1>2, <1>3, <1>4, <1>5, <1>6, <1>7, <1>8, <1>9, <1>10, <1>11, <1>12, <1>13,
     <1>14, <1>15, <1>16, <1>17 DEF Next, WorkerStep

\* Recorded outcomes stay true.
LEMMA OutcomeStep == IInv /\ [Next]_vars => OutcomesTrue'
<1> SUFFICES ASSUME IInv, [Next]_vars PROVE OutcomesTrue'
  OBVIOUS
<1> TypeOK /\ MemoryInv /\ TokenInv /\ WorkInv /\ AnswerInv /\ AtMostOnce /\ OutcomesTrue
  BY DEF IInv
<1> USE DEF TypeOK, MemoryInv, OutcomesTrue
<1>1. CASE QueueCampaign
  BY <1>1 DEF QueueCampaign, rowVars, memory
<1>2. ASSUME NEW g \in Guest, ChangePreference(g) PROVE OutcomesTrue'
  BY <1>2 DEF ChangePreference, campaignVars, rowVars, taskVars, memory
<1>3. ASSUME NEW w \in Worker, StartBroadcast(w) PROVE OutcomesTrue'
  BY <1>3 DEF StartBroadcast, Audience, campaignVars, memory
<1>4. ASSUME NEW w \in Worker, FailBroadcast(w) PROVE OutcomesTrue'
  BY <1>4 DEF FailBroadcast, EndTask, campaignVars, rowVars, taskVars, memory
<1>5. ASSUME NEW w \in Worker, ClaimBatch(w) PROVE OutcomesTrue'
  BY <1>5 DEF ClaimBatch, Claimable, RowsIn, campaignVars, rowVars, taskVars
<1>6. ASSUME NEW w \in Worker, Recheck(w) PROVE OutcomesTrue'
  BY <1>6 DEF Recheck, campaignVars, rowVars, taskVars
<1>7. ASSUME NEW w \in Worker, NEW g \in Guest, SkipGuest(w, g) PROVE OutcomesTrue'
  <2>1. received[g] = 0
    BY <1>7 DEF SkipGuest, WorkInv, Work
  <2> QED BY <1>7, <2>1 DEF SkipGuest, FinishDelivery
<1>8. ASSUME NEW w \in Worker, NEW g \in Guest, SendMessage(w, g) PROVE OutcomesTrue'
  <2>1. delivery' = delivery /\ \A h \in Guest : h # g => received'[h] = received[h]
    BY <1>8, SendFacts
  <2>2. delivery[g] \in {"sending", "unknown"}
    BY <1>8, SendFacts
  <2> QED BY <2>1, <2>2
<1>9. ASSUME NEW w \in Worker, RecordAnswer(w) PROVE OutcomesTrue'
  <2> DEFINE a == answer[w]
  <2>1. a.guest \in Guest /\ a.result \in Answers
    BY <1>9 DEF RecordAnswer
  <2>2. /\ a.result = "sent" => received[a.guest] = 1
        /\ a.result \in {"failed", "blocked"} => received[a.guest] = 0
    BY <1>9 DEF RecordAnswer, AnswerInv
  <2>3. /\ received' = received
        /\ delivery' = delivery
             \/ delivery' = [delivery EXCEPT ![a.guest] = RowStatus(a.result)]
    BY <1>9 DEF RecordAnswer, FinishDelivery
  <2>4. /\ RowStatus(a.result) = "sent" => received[a.guest] = 1
        /\ RowStatus(a.result) = "failed" => received[a.guest] = 0
        /\ RowStatus(a.result) \in {"sent", "failed", "unknown"}
    BY <2>1, <2>2 DEF RowStatus, Answers
  <2> QED BY <2>1, <2>3, <2>4
<1>10. ASSUME NEW w \in Worker, FinishBatch(w) PROVE OutcomesTrue'
  BY <1>10 DEF FinishBatch, campaignVars, rowVars, taskVars
<1>11. ASSUME NEW w \in Worker, ReadOpen(w) PROVE OutcomesTrue'
  BY <1>11 DEF ReadOpen, EndTask, campaignVars, rowVars, taskVars
<1>12. ASSUME NEW w \in Worker, AdvanceBroadcast(w) PROVE OutcomesTrue'
  BY <1>12 DEF AdvanceBroadcast, EndTask, rowVars, taskVars
<1>13. ASSUME NEW w \in Worker, Crash(w) PROVE OutcomesTrue'
  BY <1>13 DEF Crash, EndTask, campaignVars, rowVars
<1>14. ASSUME NEW w \in Worker, RecoverCampaign(w) PROVE OutcomesTrue'
  BY <1>14 DEF RecoverCampaign, campaignVars, rowVars, taskVars, memory
<1>15. CASE ExpireClaims
  BY <1>15 DEF ExpireClaims, Expirable, RowsIn, campaignVars, taskVars, memory
<1>16. CASE BrokerFault
  BY <1>16 DEF BrokerFault, campaignVars, rowVars, memory
<1>17. CASE UNCHANGED vars
  BY <1>17 DEF vars
<1> QED
  BY <1>1, <1>2, <1>3, <1>4, <1>5, <1>6, <1>7, <1>8, <1>9, <1>10, <1>11, <1>12, <1>13,
     <1>14, <1>15, <1>16, <1>17 DEF Next, WorkerStep
-----------------------------------------------------------------------------
(* The course of the rows and of the campaign *)

\* What may become of the rows in a step.
RowCourse ==
    \A g \in Guest :
        /\ delivery[g] \in Finished => delivery'[g] = delivery[g]
        /\ delivery[g] = "sending" => delivery'[g] \in {"sending"} \cup Finished
        /\ delivery[g] = "pending" => delivery'[g] # "none"

\* Rows go from none over pending and sending to an outcome, and stay there.
LEMMA CourseStep == TypeOK /\ [Next]_vars => RowCourse
<1> SUFFICES ASSUME TypeOK, [Next]_vars PROVE RowCourse
  OBVIOUS
<1> USE DEF TypeOK, RowCourse, Finished, Open
<1>1. CASE QueueCampaign
  BY <1>1 DEF QueueCampaign, rowVars, memory
<1>2. ASSUME NEW g \in Guest, ChangePreference(g) PROVE RowCourse
  BY <1>2 DEF ChangePreference, campaignVars, rowVars, taskVars, memory
<1>3. ASSUME NEW w \in Worker, StartBroadcast(w) PROVE RowCourse
  BY <1>3 DEF StartBroadcast, Audience, campaignVars, memory
<1>4. ASSUME NEW w \in Worker, FailBroadcast(w) PROVE RowCourse
  BY <1>4 DEF FailBroadcast, EndTask, campaignVars, rowVars, taskVars, memory
<1>5. ASSUME NEW w \in Worker, ClaimBatch(w) PROVE RowCourse
  BY <1>5 DEF ClaimBatch, Claimable, RowsIn, campaignVars, rowVars, taskVars
<1>6. ASSUME NEW w \in Worker, Recheck(w) PROVE RowCourse
  BY <1>6 DEF Recheck, campaignVars, rowVars, taskVars
<1>7. ASSUME NEW w \in Worker, NEW g \in Guest, SkipGuest(w, g) PROVE RowCourse
  BY <1>7 DEF SkipGuest, FinishDelivery, Finishable, campaignVars, taskVars
<1>8. ASSUME NEW w \in Worker, NEW g \in Guest, SendMessage(w, g) PROVE RowCourse
  BY <1>8 DEF SendMessage, campaignVars, rowVars, taskVars
<1>9. ASSUME NEW w \in Worker, RecordAnswer(w) PROVE RowCourse
  BY <1>9
     DEF RecordAnswer, FinishDelivery, Finishable, RowStatus, Answers, NoAnswer, campaignVars,
         taskVars
<1>10. ASSUME NEW w \in Worker, FinishBatch(w) PROVE RowCourse
  BY <1>10 DEF FinishBatch, campaignVars, rowVars, taskVars
<1>11. ASSUME NEW w \in Worker, ReadOpen(w) PROVE RowCourse
  BY <1>11 DEF ReadOpen, EndTask, campaignVars, rowVars, taskVars
<1>12. ASSUME NEW w \in Worker, AdvanceBroadcast(w) PROVE RowCourse
  BY <1>12 DEF AdvanceBroadcast, EndTask, rowVars, taskVars
<1>13. ASSUME NEW w \in Worker, Crash(w) PROVE RowCourse
  BY <1>13 DEF Crash, EndTask, campaignVars, rowVars
<1>14. ASSUME NEW w \in Worker, RecoverCampaign(w) PROVE RowCourse
  BY <1>14 DEF RecoverCampaign, campaignVars, rowVars, taskVars, memory
<1>15. CASE ExpireClaims
  BY <1>15 DEF ExpireClaims, Expirable, RowsIn, campaignVars, taskVars, memory
<1>16. CASE BrokerFault
  BY <1>16 DEF BrokerFault, campaignVars, rowVars, memory
<1>17. CASE UNCHANGED vars
  BY <1>17 DEF vars
<1> QED
  BY <1>1, <1>2, <1>3, <1>4, <1>5, <1>6, <1>7, <1>8, <1>9, <1>10, <1>11, <1>12, <1>13,
     <1>14, <1>15, <1>16, <1>17 DEF Next, WorkerStep

\* Whoever is between the two reads is not disturbed by a step.
Undisturbed ==
    /\ \A w \in Worker : phase'[w] = "counting" =>
          phase[w] = "counting" /\ seen'[w] = seen[w] /\ status' = status
    /\ (\E w \in Worker : phase[w] = "counting") =>
          \A g \in Guest : delivery[g] = "none" => delivery'[g] = "none"

LEMMA UndisturbedKeeps ==
    ASSUME TypeOK, TypeOK', RowCourse, CountingInv, Undisturbed
    PROVE  CountingInv'
<1>1. ASSUME NEW w \in Worker, phase'[w] = "counting"
      PROVE  status' = "sending" /\ (seen'[w] = {} => OpenStatuses' = {})
  <2>1. phase[w] = "counting" /\ seen'[w] = seen[w] /\ status' = status
    BY <1>1 DEF Undisturbed
  <2>2. \A g \in Guest : delivery[g] = "none" => delivery'[g] = "none"
    BY <2>1 DEF Undisturbed
  <2>3. status = "sending" /\ (seen[w] = {} => OpenStatuses = {})
    BY <2>1 DEF CountingInv
  <2>4. ASSUME OpenStatuses = {}, NEW g \in Guest PROVE delivery'[g] \notin Open
    <3>1. delivery[g] \notin Open
      BY <2>4 DEF OpenStatuses
    <3>2. delivery[g] = "none" \/ delivery[g] \in Finished
      BY <3>1 DEF TypeOK
    <3> QED BY <2>2, <3>1, <3>2 DEF RowCourse, Open
  <2>5. OpenStatuses = {} => OpenStatuses' = {}
    BY <2>4 DEF OpenStatuses
  <2> QED BY <2>1, <2>3, <2>5
<1>2. \A v, w \in Worker : phase'[v] = "counting" /\ phase'[w] = "counting" => v = w
  BY DEF Undisturbed, CountingInv
<1> QED BY <1>1, <1>2 DEF CountingInv

\* The campaign row belongs to the worker that reads it twice, and no row opens meanwhile.
LEMMA CountingStep == TypeOK /\ CountingInv /\ [Next]_vars => CountingInv'
<1> SUFFICES ASSUME TypeOK, CountingInv, [Next]_vars PROVE CountingInv'
  OBVIOUS
<1>0. TypeOK' /\ RowCourse
  BY TypeStep, CourseStep
<1>1. ASSUME QueueCampaign PROVE Undisturbed
  BY <1>1 DEF TypeOK, Undisturbed, QueueCampaign, CampaignFree, rowVars, memory
<1>2. ASSUME NEW g \in Guest, ChangePreference(g) PROVE Undisturbed
  BY <1>2 DEF TypeOK, Undisturbed, ChangePreference, campaignVars, rowVars, taskVars, memory
<1>3. ASSUME NEW w \in Worker, StartBroadcast(w) PROVE Undisturbed
  BY <1>3 DEF TypeOK, Undisturbed, StartBroadcast, Audience, CampaignFree, campaignVars, memory
<1>4. ASSUME NEW w \in Worker, FailBroadcast(w) PROVE Undisturbed
  BY <1>4
     DEF TypeOK, Undisturbed, FailBroadcast, EndTask, CampaignFree, campaignVars, rowVars,
         taskVars, memory
<1>5. ASSUME NEW w \in Worker, ClaimBatch(w) PROVE Undisturbed
  BY <1>5
     DEF TypeOK, Undisturbed, ClaimBatch, Claimable, RowsIn, campaignVars, rowVars, taskVars
<1>6. ASSUME NEW w \in Worker, Recheck(w) PROVE Undisturbed
  BY <1>6 DEF TypeOK, Undisturbed, Recheck, campaignVars, rowVars, taskVars
<1>7. ASSUME NEW w \in Worker, NEW g \in Guest, SkipGuest(w, g) PROVE Undisturbed
  BY <1>7
     DEF TypeOK, Undisturbed, SkipGuest, FinishDelivery, Finishable, campaignVars, taskVars
<1>8. ASSUME NEW w \in Worker, NEW g \in Guest, SendMessage(w, g) PROVE Undisturbed
  BY <1>8 DEF TypeOK, Undisturbed, SendMessage, campaignVars, rowVars, taskVars
<1>9. ASSUME NEW w \in Worker, RecordAnswer(w) PROVE Undisturbed
  BY <1>9
     DEF TypeOK, Undisturbed, RecordAnswer, FinishDelivery, Finishable, RowStatus, Answers,
         NoAnswer, campaignVars, taskVars
<1>10. ASSUME NEW w \in Worker, FinishBatch(w) PROVE Undisturbed
  BY <1>10 DEF TypeOK, Undisturbed, FinishBatch, campaignVars, rowVars, taskVars
<1>11. ASSUME NEW w \in Worker, ReadOpen(w) PROVE CountingInv'
  <2>1. CASE EndTask(w) /\ UNCHANGED seen /\ UNCHANGED campaignVars /\ UNCHANGED delivery
    <3>1. Undisturbed
      BY <2>1 DEF TypeOK, Undisturbed, EndTask, campaignVars
    <3> QED BY <1>0, <3>1, UndisturbedKeeps
  <2>2. CASE /\ CampaignFree /\ status = "sending" /\ status' = status /\ delivery' = delivery
             /\ phase' = [phase EXCEPT ![w] = "counting"]
             /\ seen' = [seen EXCEPT ![w] = OpenStatuses]
    <3>1. \A v \in Worker : phase'[v] = "counting" => v = w
      BY <2>2 DEF CampaignFree, TypeOK
    <3>2. OpenStatuses' = OpenStatuses /\ seen'[w] = OpenStatuses
      BY <2>2, CountKept DEF TypeOK
    <3> QED BY <2>2, <3>1, <3>2 DEF CountingInv
  <2> QED
    BY <1>11, <2>1, <2>2 DEF ReadOpen, campaignVars, rowVars
<1>12. ASSUME NEW w \in Worker, AdvanceBroadcast(w) PROVE Undisturbed
  BY <1>12 DEF TypeOK, Undisturbed, CountingInv, AdvanceBroadcast, EndTask, rowVars, taskVars
<1>13. ASSUME NEW w \in Worker, Crash(w) PROVE Undisturbed
  BY <1>13 DEF TypeOK, Undisturbed, Crash, EndTask, campaignVars, rowVars
<1>14. ASSUME NEW w \in Worker, RecoverCampaign(w) PROVE Undisturbed
  BY <1>14 DEF TypeOK, Undisturbed, RecoverCampaign, campaignVars, rowVars, taskVars, memory
<1>15. ASSUME ExpireClaims PROVE Undisturbed
  BY <1>15
     DEF TypeOK, Undisturbed, ExpireClaims, Expirable, RowsIn, campaignVars, taskVars, memory
<1>16. ASSUME BrokerFault PROVE Undisturbed
  BY <1>16 DEF TypeOK, Undisturbed, BrokerFault, campaignVars, rowVars, memory
<1>17. ASSUME UNCHANGED vars PROVE Undisturbed
  BY <1>17 DEF TypeOK, Undisturbed, vars
<1> QED
  BY <1>0, <1>1, <1>2, <1>3, <1>4, <1>5, <1>6, <1>7, <1>8, <1>9, <1>10, <1>11, <1>12,
     <1>13, <1>14, <1>15, <1>16, <1>17, UndisturbedKeeps DEF Next, WorkerStep

\* The counters of a campaign are only ever written from its rows.
LEMMA CountersWritten == [Next]_vars => counters' = counters \/ counters' = Count
BY DEF Next, vars, WorkerStep, QueueCampaign, ChangePreference, StartBroadcast, FailBroadcast,
       ClaimBatch, Recheck, SkipGuest, SendMessage, RecordAnswer, FinishBatch, ReadOpen,
       AdvanceBroadcast, Crash, RecoverCampaign, ExpireClaims, BrokerFault, campaignVars

\* The counters stay behind the rows.
LEMMA CountersStep == TypeOK /\ CountersInv /\ [Next]_vars => CountersInv'
<1> SUFFICES ASSUME TypeOK, CountersInv, [Next]_vars PROVE CountersInv'
  OBVIOUS
<1>1. /\ Count.sent <= Count'.sent
      /\ Count.failed <= Count'.failed
      /\ Count.unknown <= Count'.unknown
  BY CourseStep, CountGrows DEF RowCourse
<1>2. TypeOK' /\ Count \in [sent : Nat, failed : Nat, unknown : Nat]
              /\ Count' \in [sent : Nat, failed : Nat, unknown : Nat]
  BY TypeStep, CountType, CountTypeNext
<1>3. /\ counters'.sent <= Count.sent
      /\ counters'.failed <= Count.failed
      /\ counters'.unknown <= Count.unknown
  BY <1>2, CountersWritten DEF CountersInv, TypeOK
<1> QED
  BY <1>1, <1>2, <1>3 DEF CountersInv, TypeOK

\* A campaign that is sent has no open row, and its counters are right.
LEMMA SentStep == TypeOK /\ CountingInv /\ SentIsComplete /\ [Next]_vars => SentIsComplete'
<1> SUFFICES ASSUME TypeOK, CountingInv, SentIsComplete, [Next]_vars, status' = "sent"
             PROVE  OpenStatuses' = {} /\ counters' = Count' /\ counters'.sent > 0
  BY DEF SentIsComplete
<1>1. ASSUME NEW w \in Worker, AdvanceBroadcast(w)
      PROVE  OpenStatuses' = {} /\ counters' = Count' /\ counters'.sent > 0
  <2>1. status = "sending" /\ (seen[w] = {} => OpenStatuses = {})
    BY <1>1 DEF AdvanceBroadcast, CountingInv
  <2>2. seen[w] = {} /\ Count.sent # 0
    BY <1>1, <2>1 DEF AdvanceBroadcast, Complete
  <2>3. counters' = Count /\ Count' = Count /\ OpenStatuses' = OpenStatuses
    BY <1>1, CountKept DEF AdvanceBroadcast, rowVars
  <2> QED BY <2>1, <2>2, <2>3, CountType
<1>2. ASSUME \A w \in Worker : ~AdvanceBroadcast(w)
      PROVE  OpenStatuses' = {} /\ counters' = Count' /\ counters'.sent > 0
  <2>1. status = "sent" /\ counters' = counters
    BY <1>2 DEF Next, vars, WorkerStep, QueueCampaign, ChangePreference, StartBroadcast,
       FailBroadcast, ClaimBatch, Recheck, SkipGuest, SendMessage, RecordAnswer, FinishBatch,
       ReadOpen, Crash, RecoverCampaign, ExpireClaims, BrokerFault, campaignVars
  <2>2. OpenStatuses = {} /\ counters = Count /\ counters.sent > 0
    BY <2>1 DEF SentIsComplete
  <2>3. \A g \in Guest : delivery[g] \notin Open
    BY <2>2 DEF OpenStatuses
  <2>4. delivery' = delivery
    <3>1. \A g \in Guest : delivery[g] = "none" \/ delivery[g] \in Finished
      BY <2>3 DEF TypeOK
    <3>2. \A g \in Guest : delivery[g] = "none" => delivery'[g] = "none"
      BY <1>2, <2>1, <2>3 DEF TypeOK, Open, Next, vars, WorkerStep, QueueCampaign,
       ChangePreference, StartBroadcast, FailBroadcast, ClaimBatch, Claimable, RowsIn, Recheck,
       SkipGuest, FinishDelivery, Finishable, SendMessage, RecordAnswer, FinishBatch,
       ReadOpen, Crash, RecoverCampaign, ExpireClaims, Expirable, BrokerFault, campaignVars, rowVars
    <3>3. \A g \in Guest : delivery'[g] = delivery[g]
      BY <3>1, <3>2, CourseStep DEF RowCourse
    <3> QED BY <3>3, TypeStep DEF TypeOK
  <2> QED BY <2>1, <2>2, <2>4, CountKept
<1> QED BY <1>1, <1>2
-----------------------------------------------------------------------------
(* The theorems *)

\* The invariant holds initially.
LEMMA InitInvariant == Init => IInv
<1> SUFFICES ASSUME Init PROVE IInv
  OBVIOUS
<1> USE DEF Init
<1>1. TypeOK
  BY DEF TypeOK, NoAnswer
<1>2. MemoryInv /\ WorkInv /\ TokenInv
  BY BroadcastAssumption DEF MemoryInv, WorkInv, TokenInv, Work, NoAnswer
<1>3. AnswerInv /\ AtMostOnce /\ OutcomesTrue /\ CountingInv /\ SentIsComplete
  BY DEF AnswerInv, AtMostOnce, OutcomesTrue, CountingInv, SentIsComplete
<1>4. CountersInv
  BY CountType DEF CountersInv
<1> QED
  BY <1>1, <1>2, <1>3, <1>4 DEF IInv

\* The inductive invariant: types, the hands a guest is in, outcomes, the campaign row.
THEOREM InvariantHolds == Spec => []IInv
<1>1. IInv /\ [Next]_vars => IInv'
  BY TypeStep, MemoryStep, TokenStep, WorkStep, AnswerStep, OnceStep, OutcomeStep,
     CountingStep, CountersStep, SentStep DEF IInv
<1> QED
  BY <1>1, InitInvariant, PTL DEF Spec

\* Every reachable state is well typed.
THEOREM TypeCorrect == Spec => []TypeOK
BY InvariantHolds, PTL DEF IInv

\* No guest receives a campaign twice, for any number of guests, workers, crashes,
\* repeated tasks and expired claims.
THEOREM MessagesAtMostOnce == Spec => []AtMostOnce
BY InvariantHolds, PTL DEF IInv

\* A row never tells an outcome that is not so.
THEOREM OutcomesCorrect == Spec => []OutcomesTrue
BY InvariantHolds, PTL DEF IInv

\* A campaign marked sent has no open row, and its counters are those of the rows.
THEOREM SentCorrect == Spec => []SentIsComplete
BY InvariantHolds, PTL DEF IInv

\* Outcomes are final, claimed rows never return to pending and counters never fall.
THEOREM RowsAreFinal == Spec => RowsFinal
<1>1. IInv /\ [Next]_vars => [RowsKept]_vars
  <2> SUFFICES ASSUME IInv, [Next]_vars PROVE RowsKept
    OBVIOUS
  <2>1. RowCourse
    BY CourseStep DEF IInv
  <2>2. /\ counters' = counters \/ counters' = Count
        /\ counters \in [sent : Nat, failed : Nat, unknown : Nat]
        /\ counters.sent <= Count.sent
        /\ counters.failed <= Count.failed
        /\ counters.unknown <= Count.unknown
    BY CountersWritten DEF IInv, CountersInv, TypeOK
  <2> QED
    BY <2>1, <2>2, CountType DEF RowsKept, RowCourse
<1> QED
  BY <1>1, InvariantHolds, PTL DEF Spec, RowsFinal

-----------------------------------------------------------------------------
(* The refinement *)

\* What the rows tell of the guests.
Outcome == [g \in Guest |-> IF delivery[g] \in Finished THEN delivery[g] ELSE "none"]

\* A step that closes the rows of some guests with one outcome, truly, tells it.
LEMMA Told ==
    ASSUME TypeOK, NEW gs \in SUBSET Guest, NEW s \in Finished,
           delivery' = [g \in Guest |-> IF g \in gs THEN s ELSE delivery[g]],
           \A g \in gs : delivery[g] = "sending",
           \A g \in gs : /\ s = "sent" => received[g] = 1
                         /\ s \in {"failed", "skipped"} => received[g] = 0,
           UNCHANGED received
    PROVE  Promise!Tell(gs, s)
<1>1. \A g \in gs : Outcome[g] = "none"
  BY DEF Outcome, Finished
<1>2. Outcome' = [g \in Guest |-> IF g \in gs THEN s ELSE Outcome[g]]
  BY DEF Outcome, Finished
<1> QED BY <1>1, <1>2 DEF Promise!Tell, Outcome

\* A step that opens rows or claims them tells nothing.
LEMMA Untold ==
    ASSUME UNCHANGED received,
           \A g \in Guest : delivery'[g] = delivery[g]
              \/ (delivery[g] \notin Finished /\ delivery'[g] \notin Finished)
    PROVE  UNCHANGED Promise!mvars
<1>1. Outcome' = Outcome
  BY DEF Outcome
<1> QED BY <1>1 DEF Promise!mvars, Outcome

\* The campaign implements Mailing for all guests and workers.
THEOREM BroadcastImplementsMailing == Spec => ImplementsMailing
<1>1. Init => Promise!Init
  BY DEF Init, Promise!Init, Finished
<1>2. IInv /\ [Next]_vars => [Promise!Next]_(Promise!mvars)
  <2> SUFFICES ASSUME IInv, [Next]_vars
               PROVE  Promise!Next \/ UNCHANGED Promise!mvars
    OBVIOUS
  <2> USE DEF IInv
  <2>1. ASSUME NEW w \in Worker, StartBroadcast(w) PROVE UNCHANGED Promise!mvars
    <3>1. received' = received
      BY <2>1 DEF StartBroadcast
    <3>2. delivery' = delivery \/ delivery' = Audience
      BY <2>1 DEF StartBroadcast
    <3>3. \A g \in Guest : \/ delivery'[g] = delivery[g]
                           \/ (delivery[g] \notin Finished /\ delivery'[g] \notin Finished)
      BY <3>2 DEF Audience, Finished
    <3> QED BY <3>1, <3>3, Untold
  <2>2. ASSUME NEW w \in Worker, ClaimBatch(w) PROVE UNCHANGED Promise!mvars
    <3>1. received' = received
      BY <2>2 DEF ClaimBatch
    <3>2. \A g \in Guest : \/ delivery'[g] = delivery[g]
                           \/ (delivery[g] \notin Finished /\ delivery'[g] \notin Finished)
      BY <2>2 DEF ClaimBatch, Claimable, RowsIn, Finished, rowVars
    <3> QED BY <3>1, <3>2, Untold
  <2>3. ASSUME NEW w \in Worker, NEW g \in Guest, SkipGuest(w, g)
        PROVE  Promise!Next \/ UNCHANGED Promise!mvars
    <3>1. received[g] = 0 /\ received' = received
      BY <2>3 DEF SkipGuest, WorkInv, Work
    <3>2. CASE Finishable(w, g)
      <4>1. /\ delivery' = [h \in Guest |-> IF h \in {g} THEN "skipped" ELSE delivery[h]]
            /\ delivery[g] = "sending"
        BY <2>3, <3>2 DEF SkipGuest, FinishDelivery, Finishable, TypeOK
      <4>2. Promise!Tell({g}, "skipped")
        BY <3>1, <4>1, Told DEF Finished
      <4> QED BY <4>2 DEF Promise!Next
    <3>3. CASE ~Finishable(w, g)
      <4>1. delivery' = delivery
        BY <2>3, <3>3 DEF SkipGuest, FinishDelivery
      <4> QED BY <3>1, <4>1, Untold
    <3> QED BY <3>2, <3>3
  <2>4. ASSUME NEW w \in Worker, NEW g \in Guest, SendMessage(w, g)
        PROVE  Promise!Next \/ UNCHANGED Promise!mvars
    <3>1. /\ delivery' = delivery /\ received[g] = 0 /\ received'[g] \in {0, 1}
          /\ delivery[g] \in {"sending", "unknown"}
          /\ \A h \in Guest : h # g => received'[h] = received[h]
      BY <2>4, SendFacts
    <3>2. received' \in [Guest -> Nat] /\ received \in [Guest -> Nat]
      BY TypeStep DEF TypeOK
    <3>3. CASE received'[g] = 1
      <4>1. received' = [received EXCEPT ![g] = 1]
        BY <3>1, <3>2, <3>3
      <4>2. Promise!Deliver(g)
        BY <3>1, <4>1 DEF Promise!Deliver, Finished
      <4> QED BY <4>2 DEF Promise!Next
    <3>4. CASE received'[g] = 0
      <4>1. received' = received
        BY <3>1, <3>2, <3>4
      <4> QED BY <3>1, <4>1, Untold
    <3> QED BY <3>1, <3>3, <3>4
  <2>5. ASSUME NEW w \in Worker, RecordAnswer(w)
        PROVE  Promise!Next \/ UNCHANGED Promise!mvars
    <3>1. /\ answer[w].guest \in Guest /\ answer[w].result \in Answers
          /\ answer[w] # NoAnswer
      BY <2>5 DEF RecordAnswer, TypeOK
    <3>2. PICK g \in Guest : g = answer[w].guest
      BY <3>1
    <3>3. PICK s \in {"sent", "failed", "unknown"} : s = RowStatus(answer[w].result)
      BY <3>1 DEF RowStatus, Answers
    <3>4. /\ received' = received
          /\ s = "sent" => received[g] = 1
          /\ s \in {"failed", "skipped"} => received[g] = 0
      BY <2>5, <3>1, <3>2, <3>3 DEF RecordAnswer, RowStatus, Answers, AnswerInv
    <3>5. CASE Finishable(w, g)
      <4>1. /\ delivery' = [h \in Guest |-> IF h \in {g} THEN s ELSE delivery[h]]
            /\ delivery[g] = "sending"
        BY <2>5, <3>2, <3>3, <3>5 DEF RecordAnswer, FinishDelivery, Finishable, TypeOK
      <4>2. Promise!Tell({g}, s)
        BY <3>4, <4>1, Told DEF Finished
      <4> QED BY <4>2 DEF Promise!Next
    <3>6. CASE ~Finishable(w, g)
      <4>1. delivery' = delivery
        BY <2>5, <3>2, <3>6 DEF RecordAnswer, FinishDelivery
      <4> QED BY <3>4, <4>1, Untold
    <3> QED BY <3>5, <3>6
  <2>6. CASE ExpireClaims
    <3>1. PICK oldest \in 1..claims :
             delivery' = [g \in Guest |-> IF g \in {h \in Expirable : claim[h] <= oldest}
                                           THEN "unknown" ELSE delivery[g]]
      BY <2>6 DEF ExpireClaims
    <3> DEFINE gs == {h \in Expirable : claim[h] <= oldest}
    <3>2. gs \in SUBSET Guest /\ \A g \in gs : delivery[g] = "sending"
      BY DEF Expirable, RowsIn
    <3>3. received' = received
      BY <2>6 DEF ExpireClaims
    <3>4. Promise!Tell(gs, "unknown")
      BY <3>1, <3>2, <3>3, Told DEF Finished
    <3> QED BY <3>2, <3>4 DEF Promise!Next
  <2>7. ASSUME UNCHANGED <<delivery, received>> PROVE UNCHANGED Promise!mvars
    <3>1. received' = received /\ delivery' = delivery
      BY <2>7
    <3> QED BY <3>1, Untold
  <2> QED
    BY <2>1, <2>2, <2>3, <2>4, <2>5, <2>6, <2>7
    DEF Next, vars, WorkerStep, QueueCampaign, ChangePreference, FailBroadcast, Recheck,
        FinishBatch, ReadOpen, AdvanceBroadcast, Crash, RecoverCampaign, BrokerFault, rowVars
<1> QED
  BY <1>1, <1>2, InvariantHolds, PTL DEF Spec, ImplementsMailing, Promise!Spec
=============================================================================
