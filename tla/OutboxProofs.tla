---------------------------- MODULE OutboxProofs ----------------------------
(***************************************************************************)
(* Theorems about Outbox, for every set of bookings, requests and replicas *)
(* and for every limit.                                                    *)
(***************************************************************************)
EXTENDS Outbox, TLAPS

LEMMA KeyTypes ==
  ASSUME NEW b \in Booking
  PROVE  /\ \A op \in Op : KeyOf(op, b) \in Key /\ KeyOf(op, b)[1] = b
                           /\ KeyOf(op, b)[2] # "booking_reminder"
         /\ \A t \in Template : <<b, t>> \in Key
BY DEF KeyOf, Key, Template

LEMMA RowTypes ==
  /\ Fresh \in MessageRow
  /\ Fresh # NoMessage /\ Fresh.status = "pending"
  /\ NoMessage.status = "none"
  /\ \A row \in MessageRow : row # NoMessage /\ row.status \in {"pending", "sent", "failed"}
  /\ \A row \in MessageRow :
       row.status = "pending" => row.attempts \in 0 .. MaxAttempts - 1
BY OutboxAssumption DEF Fresh, MessageRow, NoMessage

LEMMA AnsweredType ==
  ASSUME NEW n \in 0 .. MaxAttempts - 1, NEW answer \in SendResult
  PROVE  /\ Answered(n + 1, answer) \in MessageRow
         /\ Answered(n + 1, answer).status = "sent" <=> answer = "ok"
         /\ Answered(n + 1, answer).status = "pending" => Answered(n + 1, answer).attempts = n + 1
<1>1. CASE answer = "ok"
  BY <1>1 DEF Answered, MessageRow
<1>2. CASE answer = "retry" /\ n + 1 < MaxAttempts
  BY <1>2, OutboxAssumption DEF Answered, MessageRow
<1>3. CASE answer # "ok" /\ ~(answer = "retry" /\ n + 1 < MaxAttempts)
  BY <1>3 DEF Answered, MessageRow
<1>4. QED
  BY <1>1, <1>2, <1>3

\* What a request, a delivery and a reminder run hold.
LEMMA TxnTypes ==
  ASSUME OutboxTypeOK, NEW s \in Session
  PROVE  /\ Open(s) => txn[s].op \in Op /\ txn[s].booking \in Booking
         /\ Ready(s) => /\ Open(s)
                        /\ txn[s].to \in {"confirmed", "cancelled", "same"}
                        /\ txn[s].queue \in Queue
         /\ txn[s].phase = "read" => Open(s)
BY DEF OutboxTypeOK, Open, Ready, Txn, NoTxn, Op

LEMMA RunTypes ==
  ASSUME OutboxTypeOK, NEW q \in Replica, run[q].phase = "working"
  PROVE  /\ run[q] \in Run
         /\ run[q].todo \in SUBSET Key
         /\ run[q].seen \in [Key -> 0 .. MaxAttempts - 1]
         /\ run[q].rows \in [Key -> MessageRow \cup {NoMessage}]
BY DEF OutboxTypeOK, Run, NoRun

LEMMA RemindTypes ==
  ASSUME OutboxTypeOK, remind.phase = "working"
  PROVE  remind \in Remind /\ remind.todo \in SUBSET Booking /\ remind.queued \in SUBSET Booking
BY DEF OutboxTypeOK, Remind, NoRemind

\* A request that reads, writes or rolls back moves nothing but itself.
LEMMA WriteType ==
  ASSUME OutboxTypeOK, NEW s \in Session, NEW op \in Op, NEW b \in Booking,
         NEW to \in {"confirmed", "cancelled", "same"}, WriteAndQueue(s, op, b, to)
  PROVE  OutboxTypeOK'
<1>1. PICK queue \in Queue :
        txn' = [txn EXCEPT ![s] =
                  [phase |-> "queued", op |-> op, booking |-> b, to |-> to, queue |-> queue]]
  BY DEF WriteAndQueue
<1>2. [phase |-> "queued", op |-> op, booking |-> b, to |-> to, queue |-> queue] \in Txn
  BY DEF Txn
<1>3. txn' \in [Session -> Txn \cup {NoTxn}]
  BY <1>1, <1>2 DEF OutboxTypeOK
<1>4. QED
  BY <1>3 DEF OutboxTypeOK, WriteAndQueue, desk, worker

LEMMA OutboxTypeStep == OutboxTypeOK /\ [OutboxNext]_outboxVars => OutboxTypeOK'
<1> SUFFICES ASSUME OutboxTypeOK, [OutboxNext]_outboxVars PROVE OutboxTypeOK'
  OBVIOUS
<1>1. ASSUME NEW s \in Session, NEW b \in Booking, Book(s, b) \/ ConfirmHold(s, b)
      PROVE  OutboxTypeOK'
  BY <1>1, WriteType DEF Book, ConfirmHold, Op
<1>2. ASSUME NEW s \in Session, NEW op \in {"pay", "cancel"}, NEW b \in Booking,
             ReadBooking(s, op, b)
      PROVE  OutboxTypeOK'
  <2>1. [phase |-> "read", op |-> op, booking |-> b] \in Txn
    BY DEF Txn
  <2>2. QED
    BY <1>2, <2>1 DEF ReadBooking, OutboxTypeOK, desk, worker
<1>3. ASSUME NEW s \in Session, WritePaid(s) \/ WriteCancelled(s) PROVE OutboxTypeOK'
  <2>1. txn[s].booking \in Booking
    BY <1>3, TxnTypes DEF WritePaid, WriteCancelled
  <2>2. QED
    BY <1>3, <2>1, WriteType DEF WritePaid, WriteCancelled, Op
<1>4. ASSUME NEW s \in Session, CommitRequest(s) PROVE OutboxTypeOK'
  <2>1. /\ txn[s].booking \in Booking
        /\ txn[s].to \in {"confirmed", "cancelled", "same"}
        /\ KeyOf(txn[s].op, txn[s].booking) \in Key
    BY <1>4, TxnTypes, KeyTypes DEF CommitRequest
  <2>2. booking' \in [Booking -> {"none", "held", "confirmed", "cancelled", "gone", "lost"}]
    BY <1>4, <2>1 DEF CommitRequest, OutboxTypeOK
  <2>3. message' \in [Key -> MessageRow \cup {NoMessage}]
    BY <1>4, <2>1, RowTypes DEF CommitRequest, OutboxTypeOK
  <2>4. txn' \in [Session -> Txn \cup {NoTxn}] /\ excused' \in SUBSET Booking
    BY <1>4, <2>1 DEF CommitRequest, OutboxTypeOK
  <2>5. QED
    BY <1>4, <2>2, <2>3, <2>4 DEF CommitRequest, OutboxTypeOK, worker
<1>5. ASSUME NEW s \in Session, RollBack(s) PROVE OutboxTypeOK'
  BY <1>5 DEF RollBack, OutboxTypeOK, desk, worker
<1>6. ASSUME NEW b \in Booking, Hold(b) \/ HoldLapses(b) \/ SweptLate(b) \/ BookWithoutWord(b) \/ Begins(b)
      PROVE  OutboxTypeOK'
  BY <1>6 DEF Hold, HoldLapses, SweptLate, BookWithoutWord, Begins, OutboxTypeOK, worker
<1>7. CASE setMessagePreferences
  BY <1>7 DEF setMessagePreferences, OutboxTypeOK, worker
<1>8. ASSUME NEW q \in Replica, NEW T \in Batch(DueKeys, BatchSize), deliverDue(q, T)
      PROVE  OutboxTypeOK'
  <2>1. T \in SUBSET Key /\ \A k \in T : message[k].status = "pending"
    BY DEF Batch, DueKeys
  <2>2. \A k \in T : message[k].attempts \in 0 .. MaxAttempts - 1
    BY <2>1, RowTypes DEF OutboxTypeOK
  <2> DEFINE first == [phase |-> "working", todo |-> T,
                       seen |-> [k \in Key |-> IF k \in T THEN message[k].attempts ELSE 0],
                       rows |-> [k \in Key |-> NoMessage]]
  <2>3. first \in Run
    BY <2>1, <2>2, OutboxAssumption DEF Run
  <2>4. run' = [run EXCEPT ![q] = first]
    BY <1>8 DEF deliverDue
  <2> HIDE DEF first
  <2>5. run' \in [Replica -> Run \cup {NoRun}]
    BY <2>3, <2>4 DEF OutboxTypeOK
  <2>6. QED
    BY <1>8, <2>5 DEF deliverDue, OutboxTypeOK, desk
<1>9. ASSUME NEW q \in Replica, NEW k \in Key, NEW answer \in SendResult,
             NEW taken \in BOOLEAN, Send(q, k, answer, taken)
      PROVE  OutboxTypeOK'
  <2>1. run[q].phase = "working" /\ run[q].seen[k] \in 0 .. MaxAttempts - 1
    BY <1>9, RunTypes DEF Send
  <2>2. Answered(run[q].seen[k] + 1, answer) \in MessageRow
    BY <2>1, AnsweredType
  <2> DEFINE next == [run[q] EXCEPT !.todo = @ \ {k},
                                    !.rows[k] = Answered(run[q].seen[k] + 1, answer)]
  <2>3. next \in Run
    BY <2>1, <2>2, RunTypes DEF Run
  <2>4. run' = [run EXCEPT ![q] = next]
    BY <1>9, <2>1 DEF Send, OutboxTypeOK
  <2> HIDE DEF next
  <2>5. run' \in [Replica -> Run \cup {NoRun}]
    BY <2>3, <2>4 DEF OutboxTypeOK
  <2>6. told' \in [Key -> Nat] /\ unheard' \in [Key -> Nat]
    BY <1>9 DEF Send, OutboxTypeOK
  <2>7. mishaps' \in 0 .. MaxMishaps
    BY <1>9, OutboxAssumption DEF Send, OutboxTypeOK
  <2>8. QED
    BY <1>9, <2>5, <2>6, <2>7 DEF Send, OutboxTypeOK, desk
<1>10. ASSUME NEW q \in Replica, CommitRun(q) PROVE OutboxTypeOK'
  <2>1. run[q].rows \in [Key -> MessageRow \cup {NoMessage}]
    BY <1>10, RunTypes DEF CommitRun
  <2>2. QED
    BY <1>10, <2>1 DEF CommitRun, OutboxTypeOK, desk
<1>11. ASSUME NEW q \in Replica, RunDies(q) PROVE OutboxTypeOK'
  <2>1. mishaps' \in 0 .. MaxMishaps /\ unheard' \in [Key -> Nat]
    BY <1>11, OutboxAssumption DEF RunDies, OutboxTypeOK
  <2>2. QED
    BY <1>11, <2>1 DEF RunDies, OutboxTypeOK, desk
<1>12. ASSUME NEW k \in Key, purgeOld(k) PROVE OutboxTypeOK'
  <2>1. k[1] \in Booking
    BY DEF Key
  <2>2. QED
    BY <1>12, <2>1 DEF purgeOld, OutboxTypeOK, desk
<1>13. CASE ListReminders
  <2>1. PICK T \in Batch(RemindDue, ReminderBatch) :
          remind' = [phase |-> "working", todo |-> T, queued |-> {}]
    BY <1>13 DEF ListReminders
  <2>2. remind' \in Remind
    BY <2>1 DEF Batch, RemindDue, Remind
  <2>3. QED
    BY <1>13, <2>2 DEF ListReminders, OutboxTypeOK, desk, worker
<1>14. ASSUME NEW b \in Booking, QueueReminder(b) PROVE OutboxTypeOK'
  <2>1. remind' \in Remind
    BY <1>14, RemindTypes DEF QueueReminder, Remind
  <2>2. QED
    BY <1>14, <2>1 DEF QueueReminder, OutboxTypeOK, desk, worker
<1>15. CASE CommitReminders
  BY <1>15, RowTypes DEF CommitReminders, OutboxTypeOK, desk, worker
<1>16. CASE RemindersDie
  BY <1>16, OutboxAssumption DEF RemindersDie, OutboxTypeOK, desk
<1>17. CASE UNCHANGED outboxVars
  BY <1>17 DEF outboxVars, desk, worker, OutboxTypeOK
<1>18. CASE Requests
  BY <1>1, <1>2, <1>3, <1>4, <1>5, <1>6, <1>7, <1>18 DEF Requests
<1>19. CASE Deliveries
  BY <1>8, <1>9, <1>10, <1>11, <1>12, <1>19 DEF Deliveries
<1>20. CASE Reminders
  BY <1>13, <1>14, <1>15, <1>16, <1>20 DEF Reminders
<1>21. QED
  BY <1>17, <1>18, <1>19, <1>20 DEF OutboxNext

LEMMA OutboxTypeInit == OutboxInit => OutboxTypeOK
<1> SUFFICES ASSUME OutboxInit PROVE OutboxTypeOK
  OBVIOUS
<1>1. mishaps \in 0 .. MaxMishaps
  BY OutboxAssumption DEF OutboxInit
<1>2. /\ txn \in [Session -> Txn \cup {NoTxn}]
      /\ run \in [Replica -> Run \cup {NoRun}]
      /\ remind \in Remind \cup {NoRemind}
      /\ message \in [Key -> MessageRow \cup {NoMessage}]
  BY DEF OutboxInit
<1>3. QED
  BY <1>1, <1>2 DEF OutboxInit, OutboxTypeOK

\* Every variable keeps its type: bookings, table, transactions and runs.
THEOREM OutboxTypeCorrect == OutboxSpec => []OutboxTypeOK
<1>1. QED
  BY OutboxTypeInit, OutboxTypeStep, PTL DEF OutboxSpec

---------------------------------------------------------------------------
\* Told once.

\* One run at a time delivers, and only what is pending; what it has answered
\* it has not to do, and it has not lowered the attempts.
RunsAreAlone ==
  \A q, r \in Replica : run[q].phase = "working" /\ run[r].phase = "working" => q = r

RunsHoldPending ==
  \A q \in Replica, k \in Key : run[q].phase = "working" =>
    /\ k \in run[q].todo => message[k].status = "pending" /\ run[q].rows[k] = NoMessage
    /\ run[q].rows[k] # NoMessage =>
         /\ message[k].status = "pending"
         /\ run[q].rows[k].status = "pending" => run[q].rows[k].attempts >= message[k].attempts

Inserts(s) == Ready(s) /\ txn[s].queue = "insert"
TxnKey(s) == KeyOf(txn[s].op, txn[s].booking)
ReminderKey(b) == <<b, "booking_reminder">>

\* A key on its way into the table is not there yet, and no other transaction
\* is bringing it.
InsertsAreNew ==
  /\ \A s \in Session : Inserts(s) => message[TxnKey(s)] = NoMessage
  /\ \A s, r \in Session : Inserts(s) /\ Inserts(r) /\ TxnKey(s) = TxnKey(r) => s = r

RemindersAreNew ==
  remind.phase = "working" => \A b \in remind.queued : message[ReminderKey(b)] = NoMessage

\* What is told is on record, on its way there, unheard, or a reminder that
\* was purged and cannot be queued again.
Taken(k) ==
  \/ message[k].status = "sent"
  \/ \E q \in Replica : run[q].phase = "working" /\ run[q].rows[k].status = "sent"
Spent(k) ==
  /\ k[2] = "booking_reminder" /\ k[1] \in begun /\ message[k] = NoMessage
  /\ remind.phase = "working" => k[1] \notin remind.todo \cup remind.queued
TalliesAgree ==
  \A k \in Key : /\ told[k] <= unheard[k] + 1
                 /\ told[k] > unheard[k] => Taken(k) \/ Spent(k)

DeliveryInv == RunsAreAlone /\ RunsHoldPending /\ InsertsAreNew /\ RemindersAreNew /\ TalliesAgree

\* A step of a request or a reminder run before it commits.
LEMMA BeforeCommit ==
  ASSUME DeliveryInv, UNCHANGED <<message, run, told, unheard>>, begun \subseteq begun',
         InsertsAreNew', RemindersAreNew',
         \A k \in Key : Spent(k) => Spent(k)'
  PROVE  DeliveryInv'
<1>1. RunsAreAlone' /\ RunsHoldPending'
  BY DEF DeliveryInv, RunsAreAlone, RunsHoldPending
<1>2. \A k \in Key : Taken(k)' <=> Taken(k)
  BY DEF Taken
<1>3. TalliesAgree'
  BY <1>2 DEF DeliveryInv, TalliesAgree
<1>4. QED
  BY <1>1, <1>3 DEF DeliveryInv

\* A commit that brings new messages.
LEMMA MessagesArrive ==
  ASSUME OutboxTypeOK, DeliveryInv, UNCHANGED <<run, told, unheard, begun>>,
         InsertsAreNew', RemindersAreNew',
         \A k \in Key :
           \/ message'[k] = message[k] /\ (Spent(k) => Spent(k)')
           \/ message[k] = NoMessage /\ message'[k] = Fresh /\ ~Spent(k)
  PROVE  DeliveryInv'
<1>1. RunsAreAlone'
  BY DEF DeliveryInv, RunsAreAlone
<1>2. RunsHoldPending'
  BY RowTypes DEF DeliveryInv, RunsHoldPending
<1>3. ASSUME NEW k \in Key, told[k] > unheard[k] PROVE Taken(k)' \/ Spent(k)'
  <2>1. Taken(k) \/ Spent(k)
    BY <1>3 DEF DeliveryInv, TalliesAgree
  <2>2. message'[k] = message[k]
    <3>1. CASE message[k] = NoMessage /\ ~Spent(k)
      <4>1. PICK q \in Replica : run[q].phase = "working" /\ run[q].rows[k].status = "sent"
        BY <2>1, <3>1, RowTypes DEF Taken
      <4>2. run[q].rows[k] # NoMessage
        BY <4>1, RowTypes
      <4>3. QED
        BY <3>1, <4>1, <4>2, RowTypes DEF DeliveryInv, RunsHoldPending
    <3>2. QED
      BY <3>1
  <2>3. QED
    BY <2>1, <2>2, RowTypes DEF Taken
<1>4. TalliesAgree'
  BY <1>3 DEF DeliveryInv, TalliesAgree
<1>5. QED
  BY <1>1, <1>2, <1>4 DEF DeliveryInv

\* A request's writes.
LEMMA WriteDelivers ==
  ASSUME OutboxTypeOK, DeliveryInv, NEW s \in Session, NEW op \in Op, NEW b \in Booking,
         NEW to \in {"confirmed", "cancelled", "same"}, ~Ready(s), WriteAndQueue(s, op, b, to)
  PROVE  DeliveryInv'
<1>1. PICK queue \in Queue :
        /\ enqueue(KeyOf(op, b), queue)
        /\ txn' = [txn EXCEPT ![s] =
                     [phase |-> "queued", op |-> op, booking |-> b, to |-> to, queue |-> queue]]
  BY DEF WriteAndQueue
<1>2. UNCHANGED <<message, run, told, unheard, begun, remind>>
  BY DEF WriteAndQueue, desk, worker
<1>3. /\ TxnKey(s)' = KeyOf(op, b)
      /\ Inserts(s)' => queue = "insert"
      /\ \A r \in Session \ {s} : /\ Inserts(r)' <=> Inserts(r)
                                  /\ TxnKey(r)' = TxnKey(r)
  BY <1>1 DEF OutboxTypeOK, TxnKey, Inserts, Ready
<1>4. queue = "insert" =>
        /\ message[KeyOf(op, b)] = NoMessage
        /\ \A r \in Session : Inserts(r) => TxnKey(r) # KeyOf(op, b)
  BY <1>1 DEF enqueue, Inserts, TxnKey
<1>5. InsertsAreNew'
  BY <1>2, <1>3, <1>4 DEF DeliveryInv, InsertsAreNew
<1>6. RemindersAreNew' /\ \A k \in Key : Spent(k) => Spent(k)'
  BY <1>2 DEF DeliveryInv, RemindersAreNew, Spent
<1>7. QED
  BY <1>2, <1>5, <1>6, BeforeCommit

\* A step that leaves the table, the runs and the transactions alone, or only
\* ends a transaction.
LEMMA RequestAside ==
  ASSUME OutboxTypeOK, DeliveryInv, UNCHANGED <<message, run, told, unheard, remind>>,
         begun \subseteq begun',
         \A s \in Session : Inserts(s)' => txn'[s] = txn[s]
  PROVE  DeliveryInv'
<1>1. \A s \in Session : Inserts(s)' => Inserts(s) /\ TxnKey(s)' = TxnKey(s)
  BY DEF Inserts, Ready, TxnKey
<1>2. InsertsAreNew'
  BY <1>1 DEF DeliveryInv, InsertsAreNew
<1>3. RemindersAreNew' /\ \A k \in Key : Spent(k) => Spent(k)'
  BY DEF DeliveryInv, RemindersAreNew, Spent
<1>4. QED
  BY <1>2, <1>3, BeforeCommit

LEMMA DeliveryStep == OutboxTypeOK /\ DeliveryInv /\ [OutboxNext]_outboxVars => DeliveryInv'
<1> SUFFICES ASSUME OutboxTypeOK, DeliveryInv, [OutboxNext]_outboxVars PROVE DeliveryInv'
  OBVIOUS
<1>0. OutboxTypeOK'
  BY OutboxTypeStep
<1>1. ASSUME NEW s \in Session, NEW b \in Booking, Book(s, b) \/ ConfirmHold(s, b)
      PROVE  DeliveryInv'
  BY <1>1, WriteDelivers, TxnTypes DEF Book, ConfirmHold, Op
<1>2. ASSUME NEW s \in Session, NEW op \in {"pay", "cancel"}, NEW b \in Booking,
             ReadBooking(s, op, b)
      PROVE  DeliveryInv'
  <2>1. \A r \in Session : Inserts(r)' => txn'[r] = txn[r]
    BY <1>2 DEF ReadBooking, Inserts, Ready, OutboxTypeOK
  <2>2. QED
    BY <1>2, <2>1, RequestAside DEF ReadBooking, desk, worker
<1>3. ASSUME NEW s \in Session, WritePaid(s) \/ WriteCancelled(s) PROVE DeliveryInv'
  <2>1. txn[s].booking \in Booking /\ ~Ready(s)
    BY <1>3, TxnTypes DEF WritePaid, WriteCancelled, Ready
  <2>2. QED
    BY <1>3, <2>1, WriteDelivers DEF WritePaid, WriteCancelled, Op
<1>4. ASSUME NEW s \in Session, CommitRequest(s) PROVE DeliveryInv'
  <2>1. /\ TxnKey(s) \in Key /\ TxnKey(s)[2] # "booking_reminder"
        /\ txn' = [txn EXCEPT ![s] = NoTxn]
        /\ message' = IF Inserts(s) THEN [message EXCEPT ![TxnKey(s)] = Fresh] ELSE message
        /\ UNCHANGED <<run, told, unheard, begun, remind>>
    BY <1>4, TxnTypes, KeyTypes DEF CommitRequest, TxnKey, Inserts, worker
  <2>2. Inserts(s) => message[TxnKey(s)] = NoMessage
    BY DEF DeliveryInv, InsertsAreNew
  <2>3. \A r \in Session : Inserts(r)' => r # s /\ Inserts(r) /\ TxnKey(r)' = TxnKey(r)
    BY <2>1 DEF OutboxTypeOK, Inserts, Ready, TxnKey, NoTxn
  <2>4. \A r \in Session : Inserts(r)' => message'[TxnKey(r)] = NoMessage
    <3>1. SUFFICES ASSUME NEW r \in Session, Inserts(r)' PROVE message'[TxnKey(r)] = NoMessage
      OBVIOUS
    <3>2. message[TxnKey(r)] = NoMessage /\ (Inserts(s) => TxnKey(r) # TxnKey(s))
      BY <2>3, <3>1 DEF DeliveryInv, InsertsAreNew
    <3>3. QED
      BY <2>1, <3>2 DEF OutboxTypeOK
  <2>5. InsertsAreNew'
    BY <2>3, <2>4 DEF DeliveryInv, InsertsAreNew
  <2>6. \A k \in Key : \/ message'[k] = message[k]
                       \/ k = TxnKey(s) /\ message[k] = NoMessage /\ message'[k] = Fresh
    BY <2>1, <2>2 DEF OutboxTypeOK
  <2>7. RemindersAreNew'
    <3>1. SUFFICES ASSUME remind.phase = "working", NEW b \in remind.queued
                   PROVE  message'[ReminderKey(b)] = NoMessage
      BY <2>1 DEF RemindersAreNew
    <3>2. ReminderKey(b) \in Key /\ ReminderKey(b) # TxnKey(s)
      <4>1. b \in Booking
        BY <3>1, RemindTypes
      <4>2. ReminderKey(b) \in Key /\ ReminderKey(b)[2] = "booking_reminder"
        BY <4>1, KeyTypes DEF ReminderKey, Template
      <4>3. QED
        BY <2>1, <4>2
    <3>3. QED
      BY <2>6, <3>1, <3>2 DEF DeliveryInv, RemindersAreNew
  <2>8. \A k \in Key : \/ message'[k] = message[k] /\ (Spent(k) => Spent(k)')
                       \/ message[k] = NoMessage /\ message'[k] = Fresh /\ ~Spent(k)
    BY <2>1, <2>6 DEF Spent
  <2>9. QED
    BY <2>1, <2>5, <2>7, <2>8, MessagesArrive
<1>5. ASSUME NEW s \in Session, RollBack(s) PROVE DeliveryInv'
  <2>1. \A r \in Session : Inserts(r)' => txn'[r] = txn[r]
    BY <1>5 DEF RollBack, Inserts, Ready, NoTxn, OutboxTypeOK
  <2>2. QED
    BY <1>5, <2>1, RequestAside DEF RollBack, desk, worker
<1>6. ASSUME NEW b \in Booking, Hold(b) \/ HoldLapses(b) \/ SweptLate(b) \/ BookWithoutWord(b) \/ Begins(b)
      PROVE  DeliveryInv'
  BY <1>6, RequestAside DEF Hold, HoldLapses, SweptLate, BookWithoutWord, Begins, worker
<1>7. CASE setMessagePreferences
  BY <1>7, RequestAside DEF setMessagePreferences, worker
<1>8. ASSUME NEW q \in Replica, NEW T \in Batch(DueKeys, BatchSize), deliverDue(q, T)
      PROVE  DeliveryInv'
  <2>1. T \in SUBSET Key /\ \A k \in T : message[k].status = "pending"
    BY DEF Batch, DueKeys
  <2>2. /\ \A r \in Replica : run[r].phase = "idle"
        /\ \A r \in Replica \ {q} : run'[r] = run[r]
        /\ run'[q].phase = "working" /\ run'[q].todo = T
        /\ \A k \in Key : run'[q].rows[k] = NoMessage
        /\ UNCHANGED <<message, txn, remind, told, unheard, begun>>
    BY <1>8 DEF deliverDue, LockFree, OutboxTypeOK, desk
  <2>3. RunsAreAlone'
    BY <2>2 DEF RunsAreAlone
  <2>4. RunsHoldPending'
    BY <2>1, <2>2 DEF RunsHoldPending
  <2>5. \A k \in Key : (Taken(k)' <=> Taken(k)) /\ (Spent(k)' <=> Spent(k))
    BY <2>2, RowTypes DEF Taken, Spent
  <2>6. TalliesAgree'
    BY <2>2, <2>5 DEF DeliveryInv, TalliesAgree
  <2>7. InsertsAreNew' /\ RemindersAreNew'
    BY <2>2 DEF DeliveryInv, InsertsAreNew, RemindersAreNew, Inserts, Ready, TxnKey
  <2>8. QED
    BY <2>3, <2>4, <2>6, <2>7 DEF DeliveryInv
<1>9. ASSUME NEW q \in Replica, NEW k \in Key, NEW answer \in SendResult,
             NEW taken \in BOOLEAN, Send(q, k, answer, taken)
      PROVE  DeliveryInv'
  <2> DEFINE row == Answered(run[q].seen[k] + 1, answer)
  <2>1. /\ run[q].phase = "working" /\ k \in run[q].todo
        /\ run[q].seen[k] \in 0 .. MaxAttempts - 1
        /\ message[k].status = "pending" /\ message[k].attempts = run[q].seen[k]
        /\ run[q].rows[k] = NoMessage
    BY <1>9, RunTypes DEF Send, DeliveryInv, RunsHoldPending
  <2>2. /\ row # NoMessage
        /\ row.status = "sent" <=> answer = "ok"
        /\ row.status = "pending" => row.attempts = run[q].seen[k] + 1
    BY <2>1, AnsweredType, RowTypes
  <2>3. run' = [run EXCEPT ![q] = [run[q] EXCEPT !.todo = @ \ {k}, !.rows[k] = row]]
    BY <1>9, <2>1 DEF Send, OutboxTypeOK
  <2>4. /\ UNCHANGED <<message, txn, remind, begun>>
        /\ told' = [told EXCEPT ![k] = IF taken THEN @ + 1 ELSE @]
        /\ unheard' = [unheard EXCEPT ![k] = IF taken /\ answer = "retry" THEN @ + 1 ELSE @]
        /\ answer = "ok" => taken
        /\ answer = "refused" => ~taken
    BY <1>9 DEF Send, desk
  <2> HIDE DEF row
  <2>5. /\ \A r \in Replica \ {q} : run'[r] = run[r] /\ run[r].phase # "working"
        /\ run'[q].phase = "working" /\ run'[q].todo = run[q].todo \ {k}
        /\ run'[q].rows[k] = row
        /\ \A j \in Key \ {k} : run'[q].rows[j] = run[q].rows[j]
    BY <2>1, <2>3, RunTypes DEF OutboxTypeOK, Run, DeliveryInv, RunsAreAlone
  <2>6. RunsAreAlone'
    BY <2>5 DEF RunsAreAlone
  <2>7. RunsHoldPending'
    <3>1. row.status = "pending" => row.attempts >= message[k].attempts
      BY <2>1, <2>2, OutboxAssumption
    <3>2. QED
      BY <2>1, <2>4, <2>5, <3>1 DEF DeliveryInv, RunsHoldPending
  <2>8. ~Taken(k) /\ ~Spent(k) /\ told[k] <= unheard[k]
    <3>1. ~Taken(k)
      BY <2>1, <2>5, RowTypes DEF Taken
    <3>2. ~Spent(k)
      BY <2>1, RowTypes DEF Spent
    <3>3. told[k] \in Nat /\ unheard[k] \in Nat
      BY DEF OutboxTypeOK
    <3>4. QED
      BY <3>1, <3>2, <3>3 DEF DeliveryInv, TalliesAgree
  <2>9. \A j \in Key \ {k} : /\ Taken(j) => Taken(j)'
                             /\ Spent(j) => Spent(j)'
                             /\ told'[j] = told[j] /\ unheard'[j] = unheard[j]
    BY <2>4, <2>5 DEF Taken, Spent, OutboxTypeOK
  <2>10. answer = "ok" => Taken(k)'
    BY <2>2, <2>5 DEF Taken
  <2>11. told'[k] <= unheard'[k] + 1 /\ (told'[k] > unheard'[k] => answer = "ok")
    <3>1. told[k] \in Nat /\ unheard[k] \in Nat
      BY DEF OutboxTypeOK
    <3>2. CASE answer = "ok"
      BY <2>4, <2>8, <3>1, <3>2 DEF OutboxTypeOK
    <3>3. CASE answer = "refused"
      BY <2>4, <2>8, <3>1, <3>3 DEF OutboxTypeOK
    <3>4. CASE answer = "retry"
      BY <2>4, <2>8, <3>1, <3>4 DEF OutboxTypeOK
    <3>5. QED
      BY <3>2, <3>3, <3>4 DEF SendResult
  <2>12. TalliesAgree'
    BY <2>9, <2>10, <2>11 DEF DeliveryInv, TalliesAgree
  <2>13. InsertsAreNew' /\ RemindersAreNew'
    BY <2>4 DEF DeliveryInv, InsertsAreNew, RemindersAreNew, Inserts, Ready, TxnKey
  <2>14. QED
    BY <2>6, <2>7, <2>12, <2>13 DEF DeliveryInv
<1>10. ASSUME NEW q \in Replica, CommitRun(q) PROVE DeliveryInv'
  <2>1. /\ run[q].phase = "working"
        /\ UNCHANGED <<txn, remind, begun, told, unheard>>
        /\ \A r \in Replica \ {q} : run'[r] = run[r] /\ run[r].phase # "working"
        /\ run'[q].phase = "idle"
    BY <1>10 DEF CommitRun, DeliveryInv, RunsAreAlone, OutboxTypeOK, NoRun, desk
  <2>2. \A k \in Key :
          message'[k] = IF run[q].rows[k] = NoMessage THEN message[k] ELSE run[q].rows[k]
    BY <1>10 DEF CommitRun
  <2>3. \A k \in Key : run[q].rows[k] # NoMessage => message[k].status = "pending"
    BY <2>1 DEF DeliveryInv, RunsHoldPending
  <2>4. \A k \in Key : message[k] = NoMessage => message'[k] = NoMessage
    BY <2>2, <2>3, RowTypes
  <2>5. \A k \in Key : (Taken(k) => Taken(k)') /\ (Spent(k) => Spent(k)')
    BY <2>1, <2>2, <2>3, <2>4, RowTypes DEF Taken, Spent
  <2>6. TalliesAgree'
    BY <2>1, <2>5 DEF DeliveryInv, TalliesAgree
  <2>7. RunsAreAlone' /\ RunsHoldPending'
    BY <2>1 DEF RunsAreAlone, RunsHoldPending
  <2>8. InsertsAreNew'
    <3>1. \A s \in Session : Inserts(s) => TxnKey(s) \in Key
      BY TxnTypes, KeyTypes DEF Inserts, TxnKey
    <3>2. QED
      BY <2>1, <2>4, <3>1 DEF DeliveryInv, InsertsAreNew, Inserts, Ready, TxnKey
  <2>9. RemindersAreNew'
    <3>1. remind.phase = "working" => \A b \in remind.queued : ReminderKey(b) \in Key
      BY RemindTypes, KeyTypes DEF ReminderKey, Template
    <3>2. QED
      BY <2>1, <2>4, <3>1 DEF DeliveryInv, RemindersAreNew
  <2>10. QED
    BY <2>6, <2>7, <2>8, <2>9 DEF DeliveryInv
<1>11. ASSUME NEW q \in Replica, RunDies(q) PROVE DeliveryInv'
  <2>1. /\ run[q].phase = "working"
        /\ UNCHANGED <<message, txn, remind, begun, told>>
        /\ \A r \in Replica \ {q} : run'[r] = run[r] /\ run[r].phase # "working"
        /\ run'[q].phase = "idle"
    BY <1>11 DEF RunDies, DeliveryInv, RunsAreAlone, OutboxTypeOK, NoRun, desk
  <2>2. \A k \in Key : unheard'[k] = IF run[q].rows[k].status = "sent" THEN unheard[k] + 1
                                     ELSE unheard[k]
    BY <1>11 DEF RunDies
  <2>3. \A k \in Key : Taken(k) => Taken(k)' \/ run[q].rows[k].status = "sent"
    BY <2>1 DEF Taken
  <2>4. \A k \in Key : Spent(k) => Spent(k)'
    BY <2>1 DEF Spent
  <2>5. \A k \in Key : told[k] \in Nat /\ unheard[k] \in Nat
    BY DEF OutboxTypeOK
  <2>6. TalliesAgree'
    BY <2>1, <2>2, <2>3, <2>4, <2>5 DEF DeliveryInv, TalliesAgree
  <2>7. RunsAreAlone' /\ RunsHoldPending'
    BY <2>1 DEF RunsAreAlone, RunsHoldPending
  <2>8. InsertsAreNew' /\ RemindersAreNew'
    BY <2>1 DEF DeliveryInv, InsertsAreNew, RemindersAreNew, Inserts, Ready, TxnKey
  <2>9. QED
    BY <2>6, <2>7, <2>8 DEF DeliveryInv
<1>12. ASSUME NEW k \in Key, purgeOld(k) PROVE DeliveryInv'
  <2>1. /\ message[k].status = "sent"
        /\ message' = [message EXCEPT ![k] = NoMessage]
        /\ k[2] = "booking_reminder" => k[1] \in begun /\ remind = NoRemind
        /\ UNCHANGED <<txn, remind, begun, run>>
        /\ told' = [told EXCEPT ![k] = IF k[2] = "booking_reminder" THEN @ ELSE 0]
        /\ unheard' = [unheard EXCEPT ![k] = IF k[2] = "booking_reminder" THEN @ ELSE 0]
    BY <1>12 DEF purgeOld, desk
  <2>2. /\ message'[k] = NoMessage
        /\ \A j \in Key \ {k} : /\ message'[j] = message[j]
                                /\ told'[j] = told[j] /\ unheard'[j] = unheard[j]
    BY <2>1 DEF OutboxTypeOK
  <2>3. RunsAreAlone'
    BY <2>1 DEF DeliveryInv, RunsAreAlone
  <2>4. RunsHoldPending'
    BY <2>1, <2>2 DEF DeliveryInv, RunsHoldPending
  <2>5. InsertsAreNew'
    <3>1. \A s \in Session : Inserts(s) => TxnKey(s) \in Key
      BY TxnTypes, KeyTypes DEF Inserts, TxnKey
    <3>2. QED
      BY <2>1, <2>2, <3>1 DEF DeliveryInv, InsertsAreNew, Inserts, Ready, TxnKey
  <2>6. RemindersAreNew'
    <3>1. remind.phase = "working" => \A b \in remind.queued : ReminderKey(b) \in Key
      BY RemindTypes, KeyTypes DEF ReminderKey, Template
    <3>2. QED
      BY <2>1, <2>2, <3>1 DEF DeliveryInv, RemindersAreNew
  <2>7. \A j \in Key \ {k} : (Taken(j) => Taken(j)') /\ (Spent(j) => Spent(j)')
    BY <2>1, <2>2 DEF Taken, Spent
  <2>8. CASE k[2] = "booking_reminder"
    <3>1. Spent(k)'
      BY <2>1, <2>2, <2>8 DEF Spent, NoRemind
    <3>2. told'[k] = told[k] /\ unheard'[k] = unheard[k]
      BY <2>1, <2>8 DEF OutboxTypeOK
    <3>3. TalliesAgree'
      BY <2>2, <2>7, <3>1, <3>2 DEF DeliveryInv, TalliesAgree
    <3>4. QED
      BY <2>3, <2>4, <2>5, <2>6, <3>3 DEF DeliveryInv
  <2>9. CASE k[2] # "booking_reminder"
    <3>1. told'[k] = 0 /\ unheard'[k] = 0
      BY <2>1, <2>9 DEF OutboxTypeOK
    <3>2. TalliesAgree'
      BY <2>2, <2>7, <3>1 DEF DeliveryInv, TalliesAgree
    <3>3. QED
      BY <2>3, <2>4, <2>5, <2>6, <3>2 DEF DeliveryInv
  <2>10. QED
    BY <2>8, <2>9
<1>13. CASE ListReminders
  <2>1. PICK T \in SUBSET RemindDue : remind' = [phase |-> "working", todo |-> T, queued |-> {}]
    BY <1>13 DEF ListReminders, Batch
  <2>2. UNCHANGED <<message, run, told, unheard, begun, txn>>
    BY <1>13 DEF ListReminders, desk, worker
  <2>3. InsertsAreNew' /\ RemindersAreNew'
    BY <2>1, <2>2 DEF DeliveryInv, InsertsAreNew, RemindersAreNew, Inserts, Ready, TxnKey
  <2>4. \A k \in Key : Spent(k) => Spent(k)'
    BY <2>1, <2>2 DEF Spent, RemindDue
  <2>5. QED
    BY <2>2, <2>3, <2>4, BeforeCommit
<1>14. ASSUME NEW b \in Booking, QueueReminder(b) PROVE DeliveryInv'
  <2>1. /\ remind.phase = "working" /\ b \in remind.todo
        /\ remind'.phase = "working"
        /\ remind'.todo = remind.todo \ {b}
        /\ \A c \in remind'.queued : \/ c \in remind.queued
                                     \/ c = b /\ message[ReminderKey(b)] = NoMessage
        /\ UNCHANGED <<message, run, told, unheard, begun, txn>>
    <3>1. remind \in Remind /\ remind.phase = "working" /\ b \in remind.todo
      BY <1>14, RemindTypes DEF QueueReminder
    <3>2. remind' = [remind EXCEPT
            !.todo = @ \ {b},
            !.queued = IF Reachable /\ booking[b] # "lost" /\ message[ReminderKey(b)] = NoMessage
                       THEN @ \cup {b} ELSE @]
      BY <1>14 DEF QueueReminder, ReminderKey
    <3>3. UNCHANGED <<message, run, told, unheard, begun, txn>>
      BY <1>14 DEF QueueReminder, desk, worker
    <3>4. /\ remind'.phase = "working" /\ remind'.todo = remind.todo \ {b}
          /\ remind'.queued = IF Reachable /\ booking[b] # "lost" /\ message[ReminderKey(b)] = NoMessage
                             THEN remind.queued \cup {b} ELSE remind.queued
      BY <3>1, <3>2 DEF Remind
    <3>5. CASE message[ReminderKey(b)] = NoMessage
      BY <3>1, <3>3, <3>4, <3>5
    <3>6. CASE message[ReminderKey(b)] # NoMessage
      BY <3>1, <3>3, <3>4, <3>6
    <3>7. QED
      BY <3>5, <3>6
  <2>2. InsertsAreNew' /\ RemindersAreNew'
    BY <2>1 DEF DeliveryInv, InsertsAreNew, RemindersAreNew, Inserts, Ready, TxnKey
  <2>3. \A k \in Key : Spent(k) => Spent(k)'
    BY <2>1 DEF Spent
  <2>4. QED
    BY <2>1, <2>2, <2>3, BeforeCommit
<1>15. CASE CommitReminders
  <2>1. /\ remind.phase = "working" /\ remind' = NoRemind
        /\ UNCHANGED <<run, told, unheard, begun, txn>>
        /\ \A k \in Key : message'[k] = IF k[2] = "booking_reminder" /\ k[1] \in remind.queued
                                        THEN Fresh ELSE message[k]
    BY <1>15 DEF CommitReminders, desk, worker
  <2>2. RemindersAreNew'
    BY <2>1 DEF RemindersAreNew, NoRemind
  <2>3. InsertsAreNew'
    <3>1. \A s \in Session : Inserts(s) => TxnKey(s) \in Key /\ TxnKey(s)[2] # "booking_reminder"
      BY TxnTypes, KeyTypes DEF Inserts, TxnKey
    <3>2. QED
      BY <2>1, <3>1 DEF DeliveryInv, InsertsAreNew, Inserts, Ready, TxnKey
  <2>4. ASSUME NEW k \in Key, k[2] = "booking_reminder", k[1] \in remind.queued
        PROVE  message[k] = NoMessage /\ ~Spent(k)
    <3>1. k = ReminderKey(k[1])
      BY <2>4 DEF Key, ReminderKey
    <3>2. QED
      BY <2>1, <2>4, <3>1 DEF DeliveryInv, RemindersAreNew, Spent
  <2>5. \A k \in Key : \/ message'[k] = message[k] /\ (Spent(k) => Spent(k)')
                       \/ message[k] = NoMessage /\ message'[k] = Fresh /\ ~Spent(k)
    BY <2>1, <2>4 DEF Spent, NoRemind
  <2>6. QED
    BY <2>1, <2>2, <2>3, <2>5, MessagesArrive
<1>16. CASE RemindersDie
  <2>1. remind' = NoRemind /\ UNCHANGED <<message, run, told, unheard, begun, txn>>
    BY <1>16 DEF RemindersDie, desk
  <2>2. InsertsAreNew' /\ RemindersAreNew'
    BY <2>1 DEF DeliveryInv, InsertsAreNew, RemindersAreNew, Inserts, Ready, TxnKey, NoRemind
  <2>3. \A k \in Key : Spent(k) => Spent(k)'
    BY <2>1 DEF Spent, NoRemind
  <2>4. QED
    BY <2>1, <2>2, <2>3, BeforeCommit
<1>17. CASE UNCHANGED outboxVars
  BY <1>17, RequestAside DEF outboxVars, desk, worker
<1>18. CASE Requests
  BY <1>1, <1>2, <1>3, <1>4, <1>5, <1>6, <1>7, <1>18 DEF Requests
<1>19. CASE Deliveries
  BY <1>8, <1>9, <1>10, <1>11, <1>12, <1>19 DEF Deliveries
<1>20. CASE Reminders
  BY <1>13, <1>14, <1>15, <1>16, <1>20 DEF Reminders
<1>21. QED
  BY <1>17, <1>18, <1>19, <1>20 DEF OutboxNext

LEMMA DeliveryInit == OutboxInit => DeliveryInv
<1> SUFFICES ASSUME OutboxInit PROVE DeliveryInv
  OBVIOUS
<1>1. RunsAreAlone /\ RunsHoldPending /\ RemindersAreNew
  BY DEF OutboxInit, RunsAreAlone, RunsHoldPending, RemindersAreNew, NoRun, NoRemind
<1>2. InsertsAreNew
  BY DEF OutboxInit, InsertsAreNew, Inserts, Ready, NoTxn
<1>3. TalliesAgree
  BY DEF OutboxInit, TalliesAgree
<1>4. QED
  BY <1>1, <1>2, <1>3 DEF DeliveryInv

\* Nobody is told twice but for a message the system never heard was taken,
\* however many requests, replicas, retries and purges there are.
THEOREM MessagesAreToldOnce == OutboxSpec => []ToldOnce
<1>1. OutboxTypeOK /\ DeliveryInv => ToldOnce
  BY DEF DeliveryInv, TalliesAgree, ToldOnce
<1>2. OutboxTypeOK /\ DeliveryInv /\ [OutboxNext]_outboxVars => (OutboxTypeOK /\ DeliveryInv)'
  BY OutboxTypeStep, DeliveryStep
<1>3. QED
  BY <1>1, <1>2, OutboxTypeInit, DeliveryInit, PTL DEF OutboxSpec

\* An answer that was written down stands.
THEOREM AnswersAreKept == OutboxSpec => AnswersStand
<1> DEFINE Stands(k) ==
      /\ message[k].status = "failed" => message'[k] = message[k]
      /\ message[k].status = "sent" => message'[k] \in {message[k], NoMessage}
      /\ message[k].status = "pending" =>
           \/ message'[k].status \in {"sent", "failed"}
           \/ message'[k].status = "pending" /\ message'[k].attempts >= message[k].attempts
<1>1. ASSUME OutboxTypeOK, DeliveryInv, [OutboxNext]_outboxVars, NEW k \in Key
      PROVE  Stands(k)
  <2>1. CASE message'[k] = message[k]
    <3>1. message[k].status = "pending" => message[k].attempts \in 0 .. MaxAttempts - 1
      BY <1>1, RowTypes DEF OutboxTypeOK
    <3>2. QED
      BY <1>1, <2>1, <3>1, RowTypes, OutboxAssumption
  <2>2. CASE message[k] = NoMessage
    BY <1>1, <2>2, RowTypes
  <2>3. ASSUME NEW q \in Replica, CommitRun(q) PROVE Stands(k)
    <3>1. CASE run[q].rows[k] = NoMessage
      BY <1>1, <2>1, <2>3, <3>1 DEF CommitRun
    <3>2. CASE run[q].rows[k] # NoMessage
      <4>1. message'[k] = run[q].rows[k] /\ message[k].status = "pending"
        BY <1>1, <2>3, <3>2 DEF CommitRun, DeliveryInv, RunsHoldPending
      <4>2. run[q].rows[k] \in MessageRow
        BY <1>1, <2>3, <3>2, RunTypes DEF CommitRun
      <4>3. QED
        BY <1>1, <2>3, <3>2, <4>1, <4>2, RowTypes DEF CommitRun, DeliveryInv, RunsHoldPending
    <3>3. QED
      BY <1>1, <3>1, <3>2
  <2>4. ASSUME NEW s \in Session, CommitRequest(s) PROVE message'[k] = message[k] \/ message[k] = NoMessage
    BY <1>1, <2>4 DEF CommitRequest, DeliveryInv, InsertsAreNew, Inserts, TxnKey, Ready, OutboxTypeOK
  <2>5. ASSUME CommitReminders PROVE message'[k] = message[k] \/ message[k] = NoMessage
    <3>1. CASE k[2] = "booking_reminder" /\ k[1] \in remind.queued
      <4>1. k = ReminderKey(k[1])
        BY <1>1, <3>1 DEF Key, ReminderKey
      <4>2. QED
        BY <1>1, <2>5, <3>1, <4>1 DEF CommitReminders, DeliveryInv, RemindersAreNew
    <3>2. QED
      BY <1>1, <2>5, <3>1 DEF CommitReminders
  <2>6. ASSUME NEW j \in Key, purgeOld(j) PROVE Stands(k)
    <3>1. CASE k = j
      BY <1>1, <2>6, <3>1 DEF purgeOld, OutboxTypeOK
    <3>2. CASE k # j
      BY <1>1, <2>1, <2>6, <3>2 DEF purgeOld, OutboxTypeOK
    <3>3. QED
      BY <1>1, <3>1, <3>2
  <2> HIDE DEF Stands
  <2>7. CASE Requests
    <3>1. CASE \E s \in Session : CommitRequest(s)
      BY <2>1, <2>2, <2>4, <3>1
    <3>2. CASE UNCHANGED message
      BY <2>1, <3>2
    <3>3. QED
      BY <2>7, <3>1, <3>2
         DEF Requests, Book, ConfirmHold, ReadBooking, WritePaid, WriteCancelled, WriteAndQueue,
             RollBack, Hold, HoldLapses, SweptLate, BookWithoutWord, Begins, setMessagePreferences
  <2>8. CASE Deliveries
    <3>1. CASE UNCHANGED message
      BY <2>1, <3>1
    <3>2. ASSUME NEW q \in Replica, NEW T, deliverDue(q, T) PROVE Stands(k)
      BY <3>1, <3>2 DEF deliverDue
    <3>3. ASSUME NEW q \in Replica, RunDies(q) PROVE Stands(k)
      BY <3>1, <3>3 DEF RunDies
    <3>4. ASSUME NEW q \in Replica, NEW j \in Key, NEW answer, NEW taken, Send(q, j, answer, taken)
          PROVE  Stands(k)
      BY <3>1, <3>4 DEF Send
    <3>5. QED
      BY <2>3, <2>6, <2>8, <3>2, <3>3, <3>4 DEF Deliveries
  <2>9. CASE Reminders
    <3>1. CASE UNCHANGED message
      BY <2>1, <3>1
    <3>2. QED
      BY <2>1, <2>2, <2>5, <2>9, <3>1
         DEF Reminders, ListReminders, RemindersDie, QueueReminder
  <2>10. CASE UNCHANGED outboxVars
    BY <2>1, <2>10 DEF outboxVars
  <2>11. QED
    BY <1>1, <2>7, <2>8, <2>9, <2>10 DEF OutboxNext
<1>2. OutboxTypeOK /\ DeliveryInv /\ [OutboxNext]_outboxVars
        => [\A k \in Key : Stands(k)]_outboxVars
  BY <1>1
<1>3. OutboxTypeOK /\ DeliveryInv /\ [OutboxNext]_outboxVars => (OutboxTypeOK /\ DeliveryInv)'
  BY OutboxTypeStep, DeliveryStep
<1>4. QED
  BY <1>2, <1>3, OutboxTypeInit, DeliveryInit, PTL DEF OutboxSpec, AnswersStand

---------------------------------------------------------------------------
\* What is said is so.

\* What a request has read or written fits the booking it will commit to: the
\* row it wrote is locked, and a booking never becomes new again.
RequestFits(s) ==
  LET now == booking[txn[s].booking]
  IN  /\ txn[s].phase = "read" => now # "none"
      /\ Ready(s) =>
           /\ txn[s].to = "confirmed" => now \in {"none", "held"}
           /\ txn[s].to = "same" => now \in {"confirmed", "cancelled"}
           /\ txn[s].to = "cancelled" => now \in {"held", "confirmed", "cancelled"}
           /\ txn[s].op = "cancel" <=> txn[s].to = "cancelled"
RequestsFit == \A s \in Session : RequestFits(s)

Writes(s) == Ready(s) /\ txn[s].to # "same"
OneWriter ==
  \A s, r \in Session :
    Writes(s) /\ Writes(r) /\ txn[s].booking = txn[r].booking => s = r

RemindersFit ==
  remind.phase = "working" =>
    \A b \in remind.todo \cup remind.queued : booking[b] \in {"confirmed", "cancelled", "lost"}

SaidInv == RequestsFit /\ OneWriter /\ RemindersFit /\ SaidIsSo

\* A step that changes no booking and brings no message, and no request but s.
LEMMA SaidAside ==
  ASSUME SaidInv, UNCHANGED booking,
         \A k \in Key : message[k] = NoMessage => message'[k] = NoMessage,
         \A s \in Session : txn'[s] = txn[s] \/ txn'[s] = NoTxn,
         RemindersFit'
  PROVE  SaidInv'
<1>1. RequestsFit' /\ OneWriter'
  BY DEF SaidInv, RequestsFit, RequestFits, OneWriter, Writes, Ready, NoTxn
<1>2. SaidIsSo'
  BY KeyTypes DEF SaidInv, SaidIsSo, Template
<1>3. QED
  BY <1>1, <1>2 DEF SaidInv

LEMMA SaidWrite ==
  ASSUME OutboxTypeOK, SaidInv, NEW s \in Session, NEW op \in Op, NEW b \in Booking,
         NEW to \in {"confirmed", "cancelled", "same"}, WriteAndQueue(s, op, b, to),
         to = "confirmed" => booking[b] \in {"none", "held"},
         to = "same" => booking[b] \in {"confirmed", "cancelled"},
         to = "cancelled" => booking[b] \in {"held", "confirmed", "cancelled"},
         op = "cancel" <=> to = "cancelled"
  PROVE  SaidInv'
<1>1. /\ txn'[s].phase = "queued" /\ txn'[s].op = op /\ txn'[s].booking = b /\ txn'[s].to = to
      /\ \A r \in Session \ {s} : txn'[r] = txn[r]
      /\ UNCHANGED <<booking, message, remind>>
  BY DEF WriteAndQueue, OutboxTypeOK, desk
<1>2. to # "same" => \A r \in Session : ~(Writes(r) /\ txn[r].booking = b)
  BY DEF WriteAndQueue, RowLocked, Writes
<1>3. RequestsFit'
  BY <1>1 DEF SaidInv, RequestsFit, RequestFits, Ready
<1>4. OneWriter'
  BY <1>1, <1>2 DEF SaidInv, OneWriter, Writes, Ready
<1>5. RemindersFit' /\ SaidIsSo'
  BY <1>1 DEF SaidInv, RemindersFit, SaidIsSo
<1>6. QED
  BY <1>3, <1>4, <1>5 DEF SaidInv

LEMMA SaidStep ==
  OutboxTypeOK /\ DeliveryInv /\ SaidInv /\ [OutboxNext]_outboxVars => SaidInv'
<1> SUFFICES ASSUME OutboxTypeOK, DeliveryInv, SaidInv, [OutboxNext]_outboxVars PROVE SaidInv'
  OBVIOUS
<1>1. ASSUME NEW s \in Session, NEW b \in Booking, Book(s, b) \/ ConfirmHold(s, b)
      PROVE  SaidInv'
  BY <1>1, SaidWrite DEF Book, ConfirmHold, Op
<1>2. ASSUME NEW s \in Session, NEW op \in {"pay", "cancel"}, NEW b \in Booking,
             ReadBooking(s, op, b)
      PROVE  SaidInv'
  <2>1. /\ txn'[s].phase = "read" /\ txn'[s].booking = b /\ booking[b] \in {"held", "confirmed"}
        /\ \A r \in Session \ {s} : txn'[r] = txn[r]
        /\ UNCHANGED <<booking, message, remind>>
    BY <1>2 DEF ReadBooking, OutboxTypeOK, desk
  <2>2. RequestsFit' /\ OneWriter'
    BY <2>1 DEF SaidInv, RequestsFit, RequestFits, OneWriter, Writes, Ready
  <2>3. QED
    BY <2>1, <2>2 DEF SaidInv, RemindersFit, SaidIsSo
<1>3. ASSUME NEW s \in Session, WritePaid(s) PROVE SaidInv'
  <2>1. txn[s].booking \in Booking /\ booking[txn[s].booking] \notin {"none", "gone", "lost"}
    BY <1>3, TxnTypes DEF WritePaid, SaidInv, RequestsFit, RequestFits
  <2>2. booking[txn[s].booking] \in {"held", "confirmed", "cancelled"}
    BY <2>1 DEF OutboxTypeOK
  <2>3. QED
    BY <1>3, <2>1, <2>2, SaidWrite DEF WritePaid, Op
<1>4. ASSUME NEW s \in Session, WriteCancelled(s) PROVE SaidInv'
  <2>1. txn[s].booking \in Booking /\ booking[txn[s].booking] \notin {"none", "gone", "lost"}
    BY <1>4, TxnTypes DEF WriteCancelled, SaidInv, RequestsFit, RequestFits
  <2>2. booking[txn[s].booking] \in {"held", "confirmed", "cancelled"}
    BY <2>1 DEF OutboxTypeOK
  <2>3. QED
    BY <1>4, <2>1, <2>2, SaidWrite DEF WriteCancelled, Op
<1>5. ASSUME NEW s \in Session, CommitRequest(s) PROVE SaidInv'
  <2> DEFINE b == txn[s].booking
             to == txn[s].to
  <2>1. /\ Ready(s) /\ b \in Booking /\ to \in {"confirmed", "cancelled", "same"} /\ RequestFits(s)
        /\ txn'[s] = NoTxn /\ \A r \in Session \ {s} : txn'[r] = txn[r]
        /\ UNCHANGED remind
    BY <1>5, TxnTypes DEF CommitRequest, SaidInv, RequestsFit, OutboxTypeOK
  <2>2. /\ to # "same" => booking'[b] = to
        /\ to = "same" => booking'[b] = booking[b]
        /\ \A c \in Booking \ {b} : booking'[c] = booking[c]
    BY <1>5, <2>1 DEF CommitRequest, OutboxTypeOK
  <2>3. \A k \in Key : message'[k] # NoMessage => message[k] # NoMessage \/ k = TxnKey(s)
    BY <1>5 DEF CommitRequest, TxnKey, OutboxTypeOK
  <2>4. /\ booking'[b] \in {"confirmed", "cancelled"}
        /\ booking'[b] = "confirmed" => booking[b] \in {"none", "held", "confirmed"}
        /\ booking[b] = "cancelled" => booking'[b] = "cancelled"
        /\ txn[s].op = "cancel" => booking'[b] = "cancelled"
    BY <2>1, <2>2 DEF RequestFits
  <2> HIDE DEF b, to
  <2>5. ASSUME NEW r \in Session \ {s} PROVE RequestFits(r)'
    <3>1. RequestFits(r) /\ txn'[r] = txn[r] /\ (Open(r) => txn[r].booking \in Booking)
      BY <2>1, TxnTypes DEF SaidInv, RequestsFit
    <3>2. Ready(r) /\ txn[r].to = "confirmed" => txn[r].booking # b \/ to = "same"
      BY <2>1, <2>5 DEF b, to, SaidInv, OneWriter, Writes
    <3>3. CASE txn[r].phase = "read"
      BY <2>2, <2>4, <3>1, <3>3 DEF RequestFits, Ready, Open
    <3>4. CASE Ready(r)
      <4>1. txn[r].booking \in Booking
        BY <3>1, <3>4 DEF Ready, Open
      <4>2. CASE txn[r].booking # b
        BY <2>2, <3>1, <3>4, <4>1, <4>2 DEF RequestFits, Ready
      <4>3. CASE txn[r].booking = b
        BY <2>2, <2>4, <3>1, <3>2, <3>4, <4>1, <4>3 DEF RequestFits, Ready
      <4>4. QED
        BY <4>2, <4>3
    <3>5. QED
      BY <3>1, <3>3, <3>4 DEF RequestFits, Ready
  <2>6. RequestsFit' /\ OneWriter'
    <3>1. RequestFits(s)'
      BY <2>1 DEF RequestFits, Ready, NoTxn
    <3>2. OneWriter'
      BY <2>1 DEF SaidInv, OneWriter, Writes, Ready, NoTxn
    <3>3. QED
      BY <2>5, <3>1, <3>2 DEF RequestsFit
  <2>7. RemindersFit'
    BY <2>1, <2>2, <2>4, RemindTypes DEF SaidInv, RemindersFit
  <2>8. SaidIsSo'
    <3>1. \A t \in Template : message'[<<b, t>>] # NoMessage =>
            message[<<b, t>>] # NoMessage \/ <<b, t>> = TxnKey(s)
      BY <2>1, <2>3, KeyTypes
    <3>2. \A c \in Booking \ {b}, t \in Template :
            message'[<<c, t>>] # NoMessage => message[<<c, t>>] # NoMessage
      BY <2>1, <2>3, KeyTypes DEF TxnKey, KeyOf, b
    <3>3. \A c \in Booking \ {b} :
            /\ message'[<<c, "booking_confirmed">>] # NoMessage => booking'[c] \in {"confirmed", "cancelled", "lost"}
            /\ message'[<<c, "booking_reminder">>] # NoMessage => booking'[c] \in {"confirmed", "cancelled", "lost"}
            /\ message'[<<c, "booking_cancelled">>] # NoMessage => booking'[c] \in {"cancelled", "lost"}
      BY <2>2, <3>2 DEF SaidInv, SaidIsSo, Template
    <3>4. <<b, "booking_cancelled">> = TxnKey(s) => txn[s].op = "cancel"
      BY DEF TxnKey, KeyOf
    <3>5. message'[<<b, "booking_cancelled">>] # NoMessage => booking'[b] = "cancelled"
      BY <2>1, <2>4, <3>1, <3>4 DEF SaidInv, SaidIsSo, Template
    <3>6. QED
      BY <2>4, <3>3, <3>5 DEF SaidIsSo
  <2>9. QED
    BY <2>6, <2>7, <2>8 DEF SaidInv
<1>6. ASSUME NEW s \in Session, RollBack(s) PROVE SaidInv'
  <2>1. UNCHANGED <<booking, message, remind>> /\ \A r \in Session : txn'[r] = txn[r] \/ txn'[r] = NoTxn
    BY <1>6 DEF RollBack, OutboxTypeOK, desk
  <2>2. QED
    BY <2>1, SaidAside DEF SaidInv, RemindersFit
<1>7. ASSUME NEW b \in Booking, Hold(b) \/ HoldLapses(b) \/ BookWithoutWord(b)
      PROVE  SaidInv'
  <2>1. /\ booking[b] \in {"none", "held"} /\ ~RowLocked(b)
        /\ \A c \in Booking \ {b} : booking'[c] = booking[c]
        /\ booking'[b] # "none"
        /\ UNCHANGED <<message, txn, remind>>
    BY <1>7 DEF Hold, HoldLapses, SweptLate, BookWithoutWord, OutboxTypeOK
  <2>2. ASSUME NEW s \in Session PROVE RequestFits(s)'
    <3>1. RequestFits(s) /\ (Open(s) => txn[s].booking \in Booking) /\ (Ready(s) => Open(s))
          /\ (Ready(s) => txn[s].to \in {"confirmed", "cancelled", "same"})
      BY TxnTypes DEF SaidInv, RequestsFit
    <3>2. Ready(s) => txn[s].booking # b \/ txn[s].to = "same"
      BY <2>1 DEF RowLocked
    <3>3. Ready(s) => txn[s].booking # b
      BY <2>1, <3>1, <3>2 DEF RequestFits
    <3>4. CASE Open(s)
      BY <2>1, <3>1, <3>3, <3>4 DEF RequestFits, Ready
    <3>5. CASE ~Open(s)
      BY <2>1, <3>5 DEF RequestFits, Ready, Open
    <3>6. QED
      BY <3>4, <3>5
  <2>3. OneWriter'
    BY <2>1 DEF SaidInv, OneWriter, Writes, Ready
  <2>4. RemindersFit' /\ SaidIsSo'
    BY <2>1, RemindTypes DEF SaidInv, RemindersFit, SaidIsSo
  <2>5. QED
    BY <2>2, <2>3, <2>4 DEF SaidInv, RequestsFit
<1>8. ASSUME NEW b \in Booking, SweptLate(b) PROVE SaidInv'
  <2>1. /\ booking[b] \in {"confirmed", "cancelled"} /\ booking'[b] = "lost"
        /\ \A s \in Session : Ready(s) => txn[s].booking # b
        /\ \A c \in Booking \ {b} : booking'[c] = booking[c]
        /\ UNCHANGED <<message, txn, remind>>
    BY <1>8 DEF SweptLate, OutboxTypeOK
  <2>2. ASSUME NEW s \in Session PROVE RequestFits(s)'
    <3>1. RequestFits(s) /\ (Open(s) => txn[s].booking \in Booking) /\ (Ready(s) => Open(s))
      BY TxnTypes DEF SaidInv, RequestsFit
    <3>2. CASE Open(s)
      BY <2>1, <3>1, <3>2 DEF RequestFits, Ready
    <3>3. CASE ~Open(s)
      BY <2>1, <3>3 DEF RequestFits, Ready, Open
    <3>4. QED
      BY <3>2, <3>3
  <2>3. OneWriter'
    BY <2>1 DEF SaidInv, OneWriter, Writes, Ready
  <2>4. RemindersFit' /\ SaidIsSo'
    BY <2>1, RemindTypes DEF SaidInv, RemindersFit, SaidIsSo
  <2>5. QED
    BY <2>2, <2>3, <2>4 DEF SaidInv, RequestsFit
<1>9. ASSUME UNCHANGED <<booking, message, txn, remind>> PROVE SaidInv'
  BY <1>9, SaidAside DEF SaidInv, RemindersFit
<1>10. ASSUME NEW q \in Replica, CommitRun(q) PROVE SaidInv'
  <2>1. \A k \in Key : message[k] = NoMessage => message'[k] = NoMessage
    BY <1>10, RowTypes DEF CommitRun, DeliveryInv, RunsHoldPending
  <2>2. QED
    BY <1>10, <2>1, SaidAside DEF CommitRun, desk, SaidInv, RemindersFit
<1>11. ASSUME NEW k \in Key, purgeOld(k) PROVE SaidInv'
  <2>1. \A j \in Key : message[j] = NoMessage => message'[j] = NoMessage
    BY <1>11 DEF purgeOld, OutboxTypeOK
  <2>2. QED
    BY <1>11, <2>1, SaidAside DEF purgeOld, desk, SaidInv, RemindersFit
<1>12. CASE ListReminders
  <2>1. PICK T \in SUBSET RemindDue : remind' = [phase |-> "working", todo |-> T, queued |-> {}]
    BY <1>12 DEF ListReminders, Batch
  <2>2. RemindersFit'
    BY <1>12, <2>1 DEF ListReminders, desk, RemindersFit, RemindDue
  <2>3. QED
    BY <1>12, <2>2, SaidAside DEF ListReminders, desk
<1>13. ASSUME NEW b \in Booking, QueueReminder(b) PROVE SaidInv'
  <2>1. remind \in Remind /\ remind.phase = "working" /\ b \in remind.todo
    BY <1>13, RemindTypes DEF QueueReminder
  <2>2. remind'.todo \cup remind'.queued \subseteq remind.todo \cup remind.queued
    <3>1. CASE remind' = [remind EXCEPT !.todo = @ \ {b}, !.queued = @ \cup {b}]
      BY <2>1, <3>1 DEF Remind
    <3>2. CASE remind' = [remind EXCEPT !.todo = @ \ {b}, !.queued = @]
      BY <2>1, <3>2 DEF Remind
    <3>3. QED
      BY <1>13, <3>1, <3>2 DEF QueueReminder
  <2>3. RemindersFit'
    BY <1>13, <2>1, <2>2 DEF QueueReminder, desk, SaidInv, RemindersFit
  <2>4. QED
    BY <1>13, <2>3, SaidAside DEF QueueReminder, desk
<1>14. CASE CommitReminders
  <2>1. /\ remind.phase = "working" /\ remind' = NoRemind /\ UNCHANGED <<booking, txn>>
        /\ \A k \in Key : message'[k] # NoMessage =>
              message[k] # NoMessage \/ (k[2] = "booking_reminder" /\ k[1] \in remind.queued)
    BY <1>14 DEF CommitReminders, desk
  <2>2. RequestsFit' /\ OneWriter' /\ RemindersFit'
    BY <2>1 DEF SaidInv, RequestsFit, RequestFits, OneWriter, Writes, Ready, RemindersFit, NoRemind
  <2>3. SaidIsSo'
    <3>1. SUFFICES ASSUME NEW b \in Booking
                   PROVE  /\ message'[<<b, "booking_confirmed">>] # NoMessage =>
                                booking[b] \in {"confirmed", "cancelled", "lost"}
                          /\ message'[<<b, "booking_reminder">>] # NoMessage =>
                                booking[b] \in {"confirmed", "cancelled", "lost"}
                          /\ message'[<<b, "booking_cancelled">>] # NoMessage =>
                                booking[b] \in {"cancelled", "lost"}
      BY <2>1 DEF SaidIsSo
    <3>2. \A t \in Template : message'[<<b, t>>] # NoMessage =>
            message[<<b, t>>] # NoMessage \/ (t = "booking_reminder" /\ b \in remind.queued)
      BY <2>1, KeyTypes
    <3>3. b \in remind.queued => booking[b] \in {"confirmed", "cancelled", "lost"}
      BY <2>1 DEF SaidInv, RemindersFit
    <3>4. QED
      BY <3>2, <3>3 DEF SaidInv, SaidIsSo, Template
  <2>4. QED
    BY <2>2, <2>3 DEF SaidInv
<1>15. CASE RemindersDie
  BY <1>15, SaidAside DEF RemindersDie, desk, RemindersFit, NoRemind
<1>16. CASE Requests
  <2>1. ASSUME setMessagePreferences \/ \E b \in Booking : Begins(b) PROVE SaidInv'
    BY <1>9, <2>1 DEF Begins, setMessagePreferences
  <2>2. QED
    BY <1>1, <1>2, <1>3, <1>4, <1>5, <1>6, <1>7, <1>8, <1>16, <2>1 DEF Requests
<1>17. CASE Deliveries
  <2>1. ASSUME NEW q \in Replica, NEW T, deliverDue(q, T) PROVE SaidInv'
    BY <1>9, <2>1 DEF deliverDue, desk
  <2>2. ASSUME NEW q \in Replica, RunDies(q) PROVE SaidInv'
    BY <1>9, <2>2 DEF RunDies, desk
  <2>3. ASSUME NEW q \in Replica, NEW j \in Key, NEW answer, NEW taken, Send(q, j, answer, taken)
        PROVE  SaidInv'
    BY <1>9, <2>3 DEF Send, desk
  <2>4. QED
    BY <1>10, <1>11, <1>17, <2>1, <2>2, <2>3 DEF Deliveries
<1>18. CASE Reminders
  BY <1>12, <1>13, <1>14, <1>15, <1>18 DEF Reminders
<1>19. CASE UNCHANGED outboxVars
  BY <1>9, <1>19 DEF outboxVars, desk
<1>20. QED
  BY <1>16, <1>17, <1>18, <1>19 DEF OutboxNext

LEMMA SaidInit == OutboxInit => SaidInv
<1> SUFFICES ASSUME OutboxInit PROVE SaidInv
  OBVIOUS
<1>1. RequestsFit /\ OneWriter /\ RemindersFit
  BY DEF OutboxInit, RequestsFit, RequestFits, OneWriter, Writes, Ready, RemindersFit, NoTxn, NoRemind
<1>2. SaidIsSo
  BY KeyTypes DEF OutboxInit, SaidIsSo, Template
<1>3. QED
  BY <1>1, <1>2 DEF SaidInv

\* No message is about a booking that was not made or a cancellation that did
\* not happen.
THEOREM MessagesAreTrue == OutboxSpec => []SaidIsSo
<1> DEFINE Inv == OutboxTypeOK /\ DeliveryInv /\ SaidInv
<1>1. Inv /\ [OutboxNext]_outboxVars => Inv'
  BY OutboxTypeStep, DeliveryStep, SaidStep
<1>2. OutboxInit => Inv
  BY OutboxTypeInit, DeliveryInit, SaidInit
<1>3. Inv => SaidIsSo
  BY DEF SaidInv
<1>4. QED
  BY <1>1, <1>2, <1>3, PTL DEF OutboxSpec

---------------------------------------------------------------------------
\* Every booking is said.

Said(b) == message[<<b, "booking_confirmed">>] # NoMessage \/ b \in excused

\* The row a request found on the table has not gone, or it was purged.
KnownIsSaid ==
  \A s \in Session :
    Ready(s) /\ txn[s].op # "cancel" /\ txn[s].queue = "known" => Said(txn[s].booking)

BookingsInv == EveryBookingIsSaid /\ KnownIsSaid

LEMMA StaysSaid ==
  ASSUME OutboxTypeOK, [OutboxNext]_outboxVars, NEW b \in Booking, Said(b)
  PROVE  Said(b)'
<1> DEFINE k == <<b, "booking_confirmed">>
<1>1. k \in Key
  BY KeyTypes DEF Template
<1>2. ASSUME excused \subseteq excused', message[k] # NoMessage => message'[k] # NoMessage
      PROVE  Said(b)'
  BY <1>2 DEF Said
<1>3. ASSUME NEW s \in Session, CommitRequest(s) PROVE Said(b)'
  <2>1. excused \subseteq excused' /\ (message[k] # NoMessage => message'[k] # NoMessage)
    BY <1>1, <1>3, RowTypes DEF CommitRequest, OutboxTypeOK
  <2>2. QED
    BY <1>2, <2>1
<1>4. ASSUME NEW q \in Replica, CommitRun(q) PROVE Said(b)'
  BY <1>1, <1>2, <1>4 DEF CommitRun
<1>5. CASE CommitReminders
  BY <1>1, <1>2, <1>5, RowTypes DEF CommitReminders
<1>6. ASSUME NEW j \in Key, purgeOld(j) PROVE Said(b)'
  <2>1. CASE j = k
    BY <1>6, <2>1 DEF purgeOld, Said
  <2>2. CASE j # k
    BY <1>1, <1>2, <1>6, <2>2 DEF purgeOld, OutboxTypeOK
  <2>3. QED
    BY <2>1, <2>2
<1>7. ASSUME UNCHANGED <<message, excused>> PROVE Said(b)'
  BY <1>2, <1>7
<1> HIDE DEF k
<1>8. CASE Requests
  <2>1. ASSUME NEW s \in Session, NEW op, NEW c, NEW to, WriteAndQueue(s, op, c, to) PROVE Said(b)'
    BY <1>7, <2>1 DEF WriteAndQueue
  <2>2. ASSUME NEW s \in Session, NEW c, Book(s, c) \/ ConfirmHold(s, c) PROVE Said(b)'
    BY <2>1, <2>2 DEF Book, ConfirmHold
  <2>3. ASSUME NEW s \in Session, WritePaid(s) \/ WriteCancelled(s) PROVE Said(b)'
    BY <2>1, <2>3 DEF WritePaid, WriteCancelled
  <2>4. ASSUME NEW s \in Session, NEW op, NEW c, ReadBooking(s, op, c) \/ RollBack(s) PROVE Said(b)'
    BY <1>7, <2>4 DEF ReadBooking, RollBack
  <2>5. ASSUME NEW c, BookWithoutWord(c) PROVE Said(b)'
    BY <1>2, <2>5 DEF BookWithoutWord
  <2>6. ASSUME NEW c, setMessagePreferences \/ Hold(c) \/ HoldLapses(c) \/ SweptLate(c) \/ Begins(c) PROVE Said(b)'
    BY <1>7, <2>6 DEF setMessagePreferences, Hold, HoldLapses, SweptLate, Begins
  <2>7. QED
    BY <1>3, <1>8, <2>2, <2>3, <2>4, <2>5, <2>6 DEF Requests
<1>9. CASE Deliveries
  <2>1. ASSUME NEW q \in Replica, NEW T, RunDies(q) \/ deliverDue(q, T) PROVE Said(b)'
    BY <1>7, <2>1 DEF RunDies, deliverDue
  <2>2. ASSUME NEW q \in Replica, NEW j, NEW answer, NEW taken, Send(q, j, answer, taken) PROVE Said(b)'
    BY <1>7, <2>2 DEF Send
  <2>3. QED
    BY <1>4, <1>6, <1>9, <2>1, <2>2 DEF Deliveries
<1>10. CASE Reminders
  <2>1. ASSUME NEW c, ListReminders \/ RemindersDie \/ QueueReminder(c) PROVE Said(b)'
    BY <1>7, <2>1 DEF ListReminders, RemindersDie, QueueReminder
  <2>2. QED
    BY <1>5, <1>10, <2>1 DEF Reminders
<1>11. CASE UNCHANGED outboxVars
  BY <1>7, <1>11 DEF outboxVars
<1>12. QED
  BY <1>8, <1>9, <1>10, <1>11 DEF OutboxNext

\* A step that confirms no booking, with no new request that has written.
LEMMA BookingsAside ==
  ASSUME OutboxTypeOK, BookingsInv, [OutboxNext]_outboxVars,
         \A b \in Booking : booking'[b] = "confirmed" => booking[b] = "confirmed",
         \A s \in Session : txn'[s] = txn[s] \/ txn'[s].phase # "queued"
  PROVE  BookingsInv'
<1>1. EveryBookingIsSaid'
  BY StaysSaid DEF BookingsInv, EveryBookingIsSaid, Said
<1>2. ASSUME NEW s \in Session, Ready(s)', txn'[s].op # "cancel", txn'[s].queue = "known"
      PROVE  Said(txn[s].booking)' /\ txn'[s] = txn[s]
  <2>1. txn'[s] = txn[s] /\ Ready(s)
    BY <1>2 DEF Ready
  <2>2. Said(txn[s].booking) /\ txn[s].booking \in Booking
    BY <1>2, <2>1, TxnTypes DEF BookingsInv, KnownIsSaid
  <2>3. QED
    BY <2>1, <2>2, StaysSaid DEF Said
<1>3. KnownIsSaid'
  BY <1>2 DEF KnownIsSaid, Said
<1>4. QED
  BY <1>1, <1>3 DEF BookingsInv

LEMMA BookingsWrite ==
  ASSUME OutboxTypeOK, BookingsInv, NEW s \in Session, NEW op \in Op, NEW b \in Booking,
         NEW to, WriteAndQueue(s, op, b, to)
  PROVE  BookingsInv'
<1>1. PICK queue \in Queue :
        /\ enqueue(KeyOf(op, b), queue)
        /\ txn' = [txn EXCEPT ![s] =
                    [phase |-> "queued", op |-> op, booking |-> b, to |-> to, queue |-> queue]]
  BY DEF WriteAndQueue
<1>2. UNCHANGED <<booking, message, excused>>
  BY DEF WriteAndQueue, desk
<1>3. txn'[s].op # "cancel" /\ txn'[s].queue = "known" => Said(txn'[s].booking)
  BY <1>1 DEF OutboxTypeOK, enqueue, KeyOf, Said
<1>4. \A r \in Session \ {s} : txn'[r] = txn[r]
  BY <1>1 DEF OutboxTypeOK
<1>5. KnownIsSaid'
  BY <1>2, <1>3, <1>4 DEF BookingsInv, KnownIsSaid, Ready, Said
<1>6. QED
  BY <1>2, <1>5 DEF BookingsInv, EveryBookingIsSaid

LEMMA BookingsCommit ==
  ASSUME OutboxTypeOK, SaidInv, BookingsInv, [OutboxNext]_outboxVars,
         NEW s \in Session, CommitRequest(s)
  PROVE  BookingsInv'
<1>1. /\ Ready(s) /\ txn[s].booking \in Booking /\ txn[s].op \in Op /\ txn[s].queue \in Queue
      /\ txn[s].to = "confirmed" => txn[s].op # "cancel"
      /\ txn'[s] = NoTxn /\ \A r \in Session \ {s} : txn'[r] = txn[r]
  BY TxnTypes DEF CommitRequest, SaidInv, RequestsFit, RequestFits, OutboxTypeOK
<1> PICK b \in Booking : b = txn[s].booking
  BY <1>1
<1>2. txn[s].op # "cancel" => Said(b)'
  <2>1. CASE txn[s].queue = "insert"
    <3>1. ASSUME txn[s].op # "cancel" PROVE KeyOf(txn[s].op, b) = <<b, "booking_confirmed">>
      BY <3>1 DEF KeyOf
    <3>2. <<b, "booking_confirmed">> \in Key
      BY <1>1, KeyTypes DEF Template
    <3>3. txn[s].op # "cancel" => message'[<<b, "booking_confirmed">>] = Fresh
      BY <2>1, <3>1, <3>2 DEF CommitRequest, OutboxTypeOK
    <3>4. QED
      BY <3>3, RowTypes DEF Said, CommitRequest
  <2>2. CASE txn[s].queue = "unsaid"
    BY <2>2 DEF CommitRequest, Said
  <2>3. CASE txn[s].queue = "known"
    <3>1. txn[s].op # "cancel" => Said(b)
      BY <1>1, <2>3 DEF BookingsInv, KnownIsSaid
    <3>2. QED
      BY <1>1, <3>1, StaysSaid DEF Said
  <2>4. QED
    BY <1>1, <2>1, <2>2, <2>3 DEF Queue
<1>3. \A c \in Booking \ {b} : booking'[c] = booking[c]
  BY <1>1 DEF CommitRequest, OutboxTypeOK
<1>4. booking'[b] = "confirmed" => booking[b] = "confirmed" \/ txn[s].to = "confirmed"
  BY <1>1 DEF CommitRequest, OutboxTypeOK
<1>5. \A c \in Booking : booking'[c] = "confirmed" => Said(c)'
  <2>1. \A c \in Booking : Said(c) => Said(c)'
    BY StaysSaid
  <2>2. \A c \in Booking : booking[c] = "confirmed" => Said(c)
    BY DEF BookingsInv, EveryBookingIsSaid, Said
  <2>3. QED
    BY <1>1, <1>2, <1>3, <1>4, <2>1, <2>2
<1>6. EveryBookingIsSaid'
  BY <1>5 DEF EveryBookingIsSaid, Said
<1>7. KnownIsSaid'
  <2>1. ASSUME NEW r \in Session, Ready(r)', txn'[r].op # "cancel", txn'[r].queue = "known"
        PROVE  txn'[r] = txn[r] /\ Said(txn[r].booking)'
    <3>1. txn'[r] = txn[r] /\ Ready(r)
      BY <1>1, <2>1 DEF Ready, NoTxn
    <3>2. Said(txn[r].booking) /\ txn[r].booking \in Booking
      BY <2>1, <3>1, TxnTypes DEF BookingsInv, KnownIsSaid
    <3>3. QED
      BY <3>1, <3>2, StaysSaid DEF Said
  <2>2. QED
    BY <2>1 DEF KnownIsSaid, Said
<1>8. QED
  BY <1>6, <1>7 DEF BookingsInv

LEMMA BookingsStep ==
  OutboxTypeOK /\ SaidInv /\ BookingsInv /\ [OutboxNext]_outboxVars => BookingsInv'
<1> SUFFICES ASSUME OutboxTypeOK, SaidInv, BookingsInv, [OutboxNext]_outboxVars PROVE BookingsInv'
  OBVIOUS
<1>1. ASSUME NEW s \in Session, NEW b \in Booking, Book(s, b) \/ ConfirmHold(s, b)
      PROVE  BookingsInv'
  BY <1>1, BookingsWrite DEF Book, ConfirmHold, Op
<1>2. ASSUME NEW s \in Session, WritePaid(s) \/ WriteCancelled(s) PROVE BookingsInv'
  <2>1. txn[s].booking \in Booking
    BY <1>2, TxnTypes DEF WritePaid, WriteCancelled
  <2>2. QED
    BY <1>2, <2>1, BookingsWrite DEF WritePaid, WriteCancelled, Op
<1>3. ASSUME NEW s \in Session, NEW op, NEW b, ReadBooking(s, op, b) \/ RollBack(s)
      PROVE  BookingsInv'
  <2>1. UNCHANGED booking /\ \A r \in Session : txn'[r] = txn[r] \/ txn'[r].phase # "queued"
    BY <1>3 DEF ReadBooking, RollBack, NoTxn, OutboxTypeOK, desk
  <2>2. QED
    BY <2>1, BookingsAside
<1>4. ASSUME NEW b \in Booking, Hold(b) \/ HoldLapses(b) \/ SweptLate(b) PROVE BookingsInv'
  <2>1. UNCHANGED txn /\ \A c \in Booking : booking'[c] = "confirmed" => booking[c] = "confirmed"
    BY <1>4 DEF Hold, HoldLapses, SweptLate, OutboxTypeOK
  <2>2. QED
    BY <2>1, BookingsAside
<1>5. ASSUME NEW b \in Booking, BookWithoutWord(b) PROVE BookingsInv'
  <2>1. UNCHANGED txn /\ b \in excused' /\ \A c \in Booking \ {b} : booking'[c] = booking[c]
    BY <1>5 DEF BookWithoutWord, OutboxTypeOK
  <2>2. EveryBookingIsSaid'
    BY <2>1, StaysSaid DEF BookingsInv, EveryBookingIsSaid, Said
  <2>3. KnownIsSaid'
    BY <2>1, StaysSaid, TxnTypes DEF BookingsInv, KnownIsSaid, Ready, Said
  <2>4. QED
    BY <2>2, <2>3 DEF BookingsInv
<1>6. ASSUME UNCHANGED <<booking, txn>> PROVE BookingsInv'
  BY <1>6, BookingsAside
<1>7. CASE Requests
  <2>1. ASSUME NEW b, setMessagePreferences \/ Begins(b) PROVE BookingsInv'
    BY <1>6, <2>1 DEF setMessagePreferences, Begins
  <2>2. QED
    BY <1>1, <1>2, <1>3, <1>4, <1>5, <1>7, <2>1, BookingsCommit DEF Requests
<1>8. CASE Deliveries
  <2>1. ASSUME NEW q \in Replica, NEW T, CommitRun(q) \/ RunDies(q) \/ deliverDue(q, T)
        PROVE  UNCHANGED <<booking, txn>>
    BY <2>1 DEF CommitRun, RunDies, deliverDue, desk
  <2>2. ASSUME NEW q \in Replica, NEW j, NEW answer, NEW taken, Send(q, j, answer, taken)
        PROVE  UNCHANGED <<booking, txn>>
    BY <2>2 DEF Send, desk
  <2>3. ASSUME NEW j \in Key, purgeOld(j) PROVE UNCHANGED <<booking, txn>>
    BY <2>3 DEF purgeOld, desk
  <2>4. QED
    BY <1>6, <1>8, <2>1, <2>2, <2>3 DEF Deliveries
<1>9. CASE Reminders
  <2>1. UNCHANGED <<booking, txn>>
    BY <1>9 DEF Reminders, ListReminders, QueueReminder, CommitReminders, RemindersDie, desk
  <2>2. QED
    BY <1>6, <2>1
<1>10. CASE UNCHANGED outboxVars
  BY <1>6, <1>10 DEF outboxVars, desk
<1>11. QED
  BY <1>7, <1>8, <1>9, <1>10 DEF OutboxNext

\* Every booking made by a route that confirms in words has its confirmation on
\* the table, unless nobody could be told or it was purged.
THEOREM EveryBookingSpeaks == OutboxSpec => []EveryBookingIsSaid
<1> DEFINE Inv == OutboxTypeOK /\ DeliveryInv /\ SaidInv /\ BookingsInv
<1>1. Inv /\ [OutboxNext]_outboxVars => Inv'
  BY OutboxTypeStep, DeliveryStep, SaidStep, BookingsStep
<1>2. OutboxInit => BookingsInv
  BY DEF OutboxInit, BookingsInv, EveryBookingIsSaid, KnownIsSaid, Ready, NoTxn
<1>3. OutboxInit => Inv
  BY <1>2, OutboxTypeInit, DeliveryInit, SaidInit
<1>4. Inv => EveryBookingIsSaid
  BY DEF BookingsInv
<1>5. QED
  BY <1>1, <1>3, <1>4, PTL DEF OutboxSpec
=============================================================================
