------------------------------- MODULE Outbox -------------------------------
(***************************************************************************)
(* The messages to customers (backend/src/notifications): a row queued by  *)
(* the transaction that changes the booking, sent later by whichever       *)
(* replica holds the delivery lock, told again when its run is rolled back *)
(* after the provider took it.                                             *)
(*                                                                         *)
(* Transactions are read committed: what a request or a run has written is *)
(* in txn, run and remind until it commits.                                *)
(***************************************************************************)
EXTENDS Naturals, FiniteSets

CONSTANTS
  Booking,
  Session,        \* requests that change a booking and queue a message
  Replica,        \* processes whose timer delivers
  NotificationsEnabled,  \* the venue sends messages
  BatchSize,      \* deliverDue's limit
  ReminderBatch,  \* queueDueReminders' limit
  MaxAttempts,
  MaxMishaps      \* bound: runs that die and answers that never arrive

ASSUME OutboxAssumption ==
  /\ NotificationsEnabled \in BOOLEAN
  /\ BatchSize \in Nat \ {0} /\ ReminderBatch \in Nat \ {0}
  /\ MaxAttempts \in Nat \ {0} /\ MaxMishaps \in Nat

VARIABLES
  booking,   \* the committed status: confirmed is also what an owner makes of it
             \* later, gone is a deleted hold, lost a deleted sale
  begun,     \* its start has passed
  optedOut,  \* the customer asked not to be messaged
  message,   \* the notification table by dedupe key
  txn,       \* each request's transaction
  run,       \* each replica's delivery run
  remind,    \* the run that holds the reminder lock
  mishaps,
  told,      \* how often the provider took a message
  unheard,   \* how often it did and no row says so
  excused    \* bookings with nobody told: no one to tell, or not by this route

desk == <<booking, begun, optedOut>>
worker == <<run, mishaps, told, unheard>>
outboxVars == <<desk, message, txn, remind, excused, worker>>

Template == {"booking_confirmed", "booking_cancelled", "booking_reminder"}
Key == Booking \X Template

\* Nothing reads the attempts of a row that is sent or failed.
MessageRow == [status: {"pending"}, attempts: 0 .. MaxAttempts - 1]
                \cup [status: {"sent", "failed"}]
NoMessage == [status |-> "none"]
Fresh == [status |-> "pending", attempts |-> 0]

NoTxn == [phase |-> "idle"]
Op == {"book", "confirm", "pay", "cancel"}
Queue == {"insert", "known", "unsaid"}
Txn == [phase: {"read"}, op: {"pay", "cancel"}, booking: Booking]
         \cup [phase: {"queued"}, op: Op, booking: Booking,
               to: {"confirmed", "cancelled", "same"}, queue: Queue]

NoRun == [phase |-> "idle"]
Run == [phase: {"working"}, todo: SUBSET Key, seen: [Key -> 0 .. MaxAttempts - 1],
        rows: [Key -> MessageRow \cup {NoMessage}]]

NoRemind == [phase |-> "idle"]
Remind == [phase: {"working"}, todo: SUBSET Booking, queued: SUBSET Booking]

OutboxTypeOK ==
  /\ booking \in [Booking -> {"none", "held", "confirmed", "cancelled", "gone", "lost"}]
  /\ begun \in SUBSET Booking
  /\ optedOut \in BOOLEAN
  /\ message \in [Key -> MessageRow \cup {NoMessage}]
  /\ txn \in [Session -> Txn \cup {NoTxn}]
  /\ run \in [Replica -> Run \cup {NoRun}]
  /\ remind \in Remind \cup {NoRemind}
  /\ mishaps \in 0 .. MaxMishaps
  /\ told \in [Key -> Nat]
  /\ unheard \in [Key -> Nat]
  /\ excused \in SUBSET Booking

OutboxInit ==
  /\ booking = [b \in Booking |-> "none"]
  /\ begun = {}
  /\ optedOut = FALSE
  /\ message = [k \in Key |-> NoMessage]
  /\ txn = [s \in Session |-> NoTxn]
  /\ run = [q \in Replica |-> NoRun]
  /\ remind = NoRemind
  /\ mishaps = 0
  /\ told = [k \in Key |-> 0]
  /\ unheard = [k \in Key |-> 0]
  /\ excused = {}

---------------------------------------------------------------------------
\* Requests: book at the desk, confirm a hold, a payment's webhook, cancel.

Open(s) == txn[s].phase # "idle"
Ready(s) == txn[s].phase = "queued"

\* A status written and not committed holds the row.
RowLocked(b) ==
  \E s \in Session : Ready(s) /\ txn[s].booking = b /\ txn[s].to # "same"

\* contextFor finds someone to tell.
Reachable == NotificationsEnabled /\ ~optedOut

KeyOf(op, b) ==
  <<b, IF op = "cancel" THEN "booking_cancelled" ELSE "booking_confirmed">>

\* A table without the unique index.
enqueueAgain(k, queue) ==
  \/ Reachable /\ queue = "insert"
  \/ queue = "unsaid"

\* Insert and catch the duplicate; another transaction's insert of the same
\* key makes this one wait.  What else goes wrong is logged, no more.
enqueue(k, queue) ==
  \/ /\ Reachable
     /\ \A r \in Session : Ready(r) /\ txn[r].queue = "insert" => KeyOf(txn[r].op, txn[r].booking) # k
     /\ queue = IF message[k] = NoMessage THEN "insert" ELSE "known"
  \/ queue = "unsaid"

\* A handler's writes: the booking's status, then the message about it.
WriteAndQueue(s, op, b, to) ==
  /\ to # "same" => ~RowLocked(b)
  /\ \E queue \in Queue :
       /\ enqueue(KeyOf(op, b), queue)
       /\ txn' = [txn EXCEPT ![s] =
                    [phase |-> "queued", op |-> op, booking |-> b, to |-> to, queue |-> queue]]
  /\ UNCHANGED <<desk, message, remind, excused, worker>>

Book(s, b) ==
  /\ ~Open(s) /\ booking[b] = "none"
  /\ WriteAndQueue(s, "book", b, "confirmed")

\* A confirmation that forgets its message.
ConfirmHoldSilently(s, b) ==
  /\ ~Open(s) /\ booking[b] = "held" /\ ~RowLocked(b)
  /\ txn' = [txn EXCEPT ![s] =
               [phase |-> "queued", op |-> "confirm", booking |-> b, to |-> "confirmed", queue |-> "known"]]
  /\ UNCHANGED <<desk, message, remind, excused, worker>>

\* UPDATE ... WHERE status = 'held', or the request fails.
ConfirmHold(s, b) ==
  /\ ~Open(s) /\ booking[b] = "held"
  /\ WriteAndQueue(s, "confirm", b, "confirmed")

\* The webhook and cancel read the booking first and return early on some.
ReadBooking(s, op, b) ==
  /\ ~Open(s)
  /\ op \in {"pay", "cancel"}
  /\ booking[b] \in {"held", "confirmed"}
  /\ txn' = [txn EXCEPT ![s] = [phase |-> "read", op |-> op, booking |-> b]]
  /\ UNCHANGED <<desk, message, remind, excused, worker>>

\* The webhook's UPDATE repeats status = 'held' and goes on when it matches
\* nothing; a deleted booking fails its payment's insert.
WritePaid(s) ==
  LET b == txn[s].booking
  IN  /\ txn[s].phase = "read" /\ txn[s].op = "pay"
      /\ booking[b] \notin {"gone", "lost"}
      /\ WriteAndQueue(s, "pay", b, IF booking[b] = "held" THEN "confirmed" ELSE "same")

\* Cancel writes whatever the booking has become.
WriteCancelled(s) ==
  LET b == txn[s].booking
  IN  /\ txn[s].phase = "read" /\ txn[s].op = "cancel"
      /\ booking[b] \notin {"gone", "lost"}
      /\ WriteAndQueue(s, "cancel", b, "cancelled")

\* The booking and its message commit together.
CommitRequest(s) ==
  /\ Ready(s)
  /\ booking' = IF txn[s].to = "same" THEN booking
                ELSE [booking EXCEPT ![txn[s].booking] = txn[s].to]
  /\ message' = IF txn[s].queue = "insert" THEN [message EXCEPT ![KeyOf(txn[s].op, txn[s].booking)] = Fresh]
                ELSE message
  /\ excused' = IF txn[s].queue = "unsaid" /\ txn[s].op # "cancel"
                THEN excused \cup {txn[s].booking} ELSE excused
  /\ txn' = [txn EXCEPT ![s] = NoTxn]
  /\ UNCHANGED <<begun, optedOut, remind, worker>>

\* A message queued on a connection of its own.
RollBackButSay(s) ==
  /\ Open(s)
  /\ message' = IF Ready(s) /\ txn[s].queue = "insert"
                THEN [message EXCEPT ![KeyOf(txn[s].op, txn[s].booking)] = Fresh] ELSE message
  /\ txn' = [txn EXCEPT ![s] = NoTxn]
  /\ UNCHANGED <<desk, remind, excused, worker>>

\* A later statement fails, or the process dies.
RollBack(s) ==
  /\ Open(s)
  /\ txn' = [txn EXCEPT ![s] = NoTxn]
  /\ UNCHANGED <<desk, message, remind, excused, worker>>

\* What else moves the bookings: a hold is taken, lapses, or its time comes.
Hold(b) ==
  /\ booking[b] = "none" /\ ~RowLocked(b)
  /\ booking' = [booking EXCEPT ![b] = "held"]
  /\ UNCHANGED <<begun, optedOut, message, txn, remind, excused, worker>>

HoldLapses(b) ==
  /\ booking[b] = "held" /\ ~RowLocked(b)
  /\ \E to \in {"gone", "cancelled"} : booking' = [booking EXCEPT ![b] = to]
  /\ UNCHANGED <<begun, optedOut, message, txn, remind, excused, worker>>

\* The sweep deletes by id what it listed as an expired hold, sold or not; a
\* payment or a message inserted for the booking keeps it until its commit.
SweptLate(b) ==
  /\ booking[b] \in {"confirmed", "cancelled"}
  /\ \A s \in Session : Ready(s) => txn[s].booking # b
  /\ remind.phase = "working" => b \notin remind.queued
  /\ booking' = [booking EXCEPT ![b] = "lost"]
  /\ UNCHANGED <<begun, optedOut, message, txn, remind, excused, worker>>

\* An owner's status change, a hall's booking and a series queue nothing.
BookWithoutWord(b) ==
  /\ booking[b] \in {"none", "held"} /\ ~RowLocked(b)
  /\ booking' = [booking EXCEPT ![b] = "confirmed"]
  /\ excused' = excused \cup {b}
  /\ UNCHANGED <<begun, optedOut, message, txn, remind, worker>>

Begins(b) ==
  /\ b \notin begun
  /\ begun' = begun \cup {b}
  /\ UNCHANGED <<booking, optedOut, message, txn, remind, excused, worker>>

setMessagePreferences ==
  /\ optedOut' = ~optedOut
  /\ UNCHANGED <<booking, begun, message, txn, remind, excused, worker>>

---------------------------------------------------------------------------
\* The reminder run.  One at a time: a replica without the lock returns.

RemindDue == {b \in Booking : NotificationsEnabled /\ booking[b] = "confirmed" /\ b \notin begun}

\* LIMIT without an order: any so many of those whose hour has come, reminded
\* already or not.
Batch(S, n) == {T \in SUBSET S : T # {} /\ Cardinality(T) <= n}

ListReminders ==
  /\ remind = NoRemind
  /\ \E T \in Batch(RemindDue, ReminderBatch) :
       remind' = [phase |-> "working", todo |-> T, queued |-> {}]
  /\ UNCHANGED <<desk, message, txn, excused, worker>>

\* enqueue again looks for the booking and the customer, not for the status.
QueueReminder(b) ==
  /\ remind.phase = "working" /\ b \in remind.todo
  /\ remind' = [remind EXCEPT !.todo = @ \ {b},
                              !.queued = IF Reachable /\ booking[b] # "lost" /\ message[<<b, "booking_reminder">>] = NoMessage
                                         THEN @ \cup {b} ELSE @]
  /\ UNCHANGED <<desk, message, txn, excused, worker>>

CommitReminders ==
  /\ remind.phase = "working" /\ remind.todo = {}
  /\ message' = [k \in Key |-> IF k[2] = "booking_reminder" /\ k[1] \in remind.queued
                               THEN Fresh ELSE message[k]]
  /\ remind' = NoRemind
  /\ UNCHANGED <<desk, txn, excused, worker>>

RemindersDie ==
  /\ remind.phase = "working"
  /\ mishaps < MaxMishaps
  /\ mishaps' = mishaps + 1
  /\ remind' = NoRemind
  /\ UNCHANGED <<desk, message, txn, excused, run, told, unheard>>

---------------------------------------------------------------------------
\* The delivery run.

LockFree == \A q \in Replica : run[q].phase = "idle"

DueKeys == {k \in Key : message[k].status = "pending"}

\* The oldest first: the order is in the fairness.
deliverDue(q, T) ==
  /\ LockFree
  /\ run' = [run EXCEPT ![q] =
               [phase |-> "working", todo |-> T,
                seen |-> [k \in Key |-> IF k \in T THEN message[k].attempts ELSE 0],
                rows |-> [k \in Key |-> NoMessage]]]
  /\ UNCHANGED <<desk, message, txn, remind, excused, mishaps, told, unheard>>

\* What WhatsApp answers: taken, an error of the request, or one worth
\* another try (429, 5xx, unreachable, no answer in time).
SendResult == {"ok", "refused", "retry"}

\* Mutant: retried without counting.
AnsweredUncounted(attempts, answer) ==
  CASE answer = "ok" -> [status |-> "sent"]
    [] answer = "retry" -> [status |-> "pending", attempts |-> attempts - 1]
    [] OTHER -> [status |-> "failed"]

\* What the row becomes on the provider's answer to a given attempt.
Answered(attempts, answer) ==
  CASE answer = "ok" -> [status |-> "sent"]
    [] answer = "retry" /\ attempts < MaxAttempts ->
         [status |-> "pending", attempts |-> attempts]
    [] OTHER -> [status |-> "failed"]

\* Claim a row, send it, write the answer down.  The provider may have taken
\* a message whose answer never arrives.
Send(q, k, answer, taken) ==
  /\ run[q].phase = "working" /\ k \in run[q].todo
  /\ message[k].status = "pending" /\ message[k].attempts = run[q].seen[k]
  /\ \A r \in Replica \ {q} : run[r].phase = "working" => run[r].rows[k] = NoMessage
  /\ CASE answer = "ok" -> taken
       [] answer = "refused" -> ~taken
       [] OTHER -> TRUE
  /\ taken /\ answer = "retry" => mishaps < MaxMishaps
  /\ run' = [run EXCEPT ![q].todo = @ \ {k},
                        ![q].rows[k] = Answered(run[q].seen[k] + 1, answer)]
  /\ told' = [told EXCEPT ![k] = IF taken THEN @ + 1 ELSE @]
  /\ unheard' = [unheard EXCEPT ![k] = IF taken /\ answer = "retry" THEN @ + 1 ELSE @]
  /\ mishaps' = IF taken /\ answer = "retry" THEN mishaps + 1 ELSE mishaps
  /\ UNCHANGED <<desk, message, txn, remind, excused>>

CommitRun(q) ==
  /\ run[q].phase = "working" /\ run[q].todo = {}
  /\ message' = [k \in Key |-> IF run[q].rows[k] = NoMessage THEN message[k] ELSE run[q].rows[k]]
  /\ run' = [run EXCEPT ![q] = NoRun]
  /\ UNCHANGED <<desk, txn, remind, excused, mishaps, told, unheard>>

\* Claims and answers are of one transaction: the run that dies forgets both.
RunDies(q) ==
  /\ run[q].phase = "working"
  /\ mishaps < MaxMishaps
  /\ mishaps' = mishaps + 1
  /\ unheard' = [k \in Key |-> IF run[q].rows[k].status = "sent"
                               THEN unheard[k] + 1 ELSE unheard[k]]
  /\ run' = [run EXCEPT ![q] = NoRun]
  /\ UNCHANGED <<desk, message, txn, remind, excused, told>>

\* Purged by age alone.
purgeAnyStatus(k) ==
  /\ message[k] # NoMessage
  /\ message' = [message EXCEPT ![k] = NoMessage]
  /\ UNCHANGED <<desk, txn, remind, excused, worker>>

\* A sent message is deleted at 90 days; a reminder's booking has begun long
\* before.  A key that is free again counts from nothing.
purgeOld(k) ==
  /\ message[k].status = "sent"
  /\ k[2] = "booking_reminder" => k[1] \in begun /\ remind = NoRemind
  /\ message' = [message EXCEPT ![k] = NoMessage]
  /\ excused' = IF k[2] = "booking_confirmed" THEN excused \cup {k[1]} ELSE excused
  /\ told' = [told EXCEPT ![k] = IF k[2] = "booking_reminder" THEN @ ELSE 0]
  /\ unheard' = [unheard EXCEPT ![k] = IF k[2] = "booking_reminder" THEN @ ELSE 0]
  /\ UNCHANGED <<desk, txn, remind, run, mishaps>>

Requests ==
  \/ \E s \in Session, b \in Booking : Book(s, b) \/ ConfirmHold(s, b)
  \/ \E s \in Session, op \in {"pay", "cancel"}, b \in Booking : ReadBooking(s, op, b)
  \/ \E s \in Session : WritePaid(s) \/ WriteCancelled(s) \/ CommitRequest(s) \/ RollBack(s)
  \/ \E b \in Booking : Hold(b) \/ HoldLapses(b) \/ SweptLate(b) \/ BookWithoutWord(b) \/ Begins(b)
  \/ setMessagePreferences

Deliveries ==
  \/ \E q \in Replica : CommitRun(q) \/ RunDies(q) \/ \E T \in Batch(DueKeys, BatchSize) : deliverDue(q, T)
  \/ \E q \in Replica, k \in Key, answer \in SendResult, taken \in BOOLEAN :
       Send(q, k, answer, taken)
  \/ \E k \in Key : purgeOld(k)

Reminders ==
  \/ ListReminders \/ CommitReminders \/ RemindersDie
  \/ \E b \in Booking : QueueReminder(b)

OutboxNext == Requests \/ Deliveries \/ Reminders
OutboxSpec == OutboxInit /\ [][OutboxNext]_outboxVars

\* The delivery timer keeps firing and takes the oldest first; a run goes on.
FairDelivery ==
  /\ \A k \in Key : SF_outboxVars(\E q \in Replica, T \in Batch(DueKeys, BatchSize) : k \in T /\ deliverDue(q, T))
  /\ \A q \in Replica :
       /\ WF_outboxVars(CommitRun(q))
       /\ WF_outboxVars(\E k \in Key, answer \in SendResult, taken \in BOOLEAN :
                          Send(q, k, answer, taken))
FairDeliverySpec == OutboxSpec /\ FairDelivery

---------------------------------------------------------------------------
\* The provider takes a message once, and once more for every time it was not
\* heard: its answer was lost, or the run that heard it was rolled back.
\* Neither a duplicate webhook, a second cancellation, a reminder run that
\* finds the same booking again, a retry nor a purge tells anyone twice.
ToldOnce == \A k \in Key : told[k] <= unheard[k] + 1

\* A message on the table is about something that was committed: no request
\* that rolled back, no hold that is still one or was released, and no reminder
\* run that is behind leaves word of a booking that never was.  (A webhook that
\* finds its booking cancelled meanwhile still calls it confirmed.)
SaidIsSo ==
  \A b \in Booking :
    /\ message[<<b, "booking_confirmed">>] # NoMessage => booking[b] \in {"confirmed", "cancelled", "lost"}
    /\ message[<<b, "booking_reminder">>] # NoMessage => booking[b] \in {"confirmed", "cancelled", "lost"}
    /\ message[<<b, "booking_cancelled">>] # NoMessage => booking[b] \in {"cancelled", "lost"}

\* A booking made at the desk, by confirming a hold or by paying for it has its
\* confirmation on the table, whoever else was confirming it at the same time,
\* unless there was nobody to tell, the queueing failed or the message was purged.
EveryBookingIsSaid ==
  \A b \in Booking :
    booking[b] = "confirmed" =>
      message[<<b, "booking_confirmed">>] # NoMessage \/ b \in excused

\* Whatever is queued again, delivered or rolled back, a message that was
\* given up on stays so, one that was sent stays so until it is purged, and
\* one that waits is answered or waits with no fewer attempts.
AnswersStand ==
  [][\A k \in Key :
       /\ message[k].status = "failed" => message'[k] = message[k]
       /\ message[k].status = "sent" => message'[k] \in {message[k], NoMessage}
       /\ message[k].status = "pending" =>
            \/ message'[k].status \in {"sent", "failed"}
            \/ message'[k].status = "pending" /\ message'[k].attempts >= message[k].attempts
    ]_outboxVars

\* Every message ends up sent or given up on, whoever dies on the way.
EveryMessageIsAnswered ==
  \A k \in Key : message[k].status = "pending" ~> message[k].status # "pending"
=============================================================================
