------------------------------ MODULE Checkout ------------------------------
(***************************************************************************)
(* Online payment on top of the reservation table: a customer starts a     *)
(* payment for a hold, the gateway collects it and says so in an event,    *)
(* and the webhook books the money or sends it back.  A customer may also  *)
(* cancel, and is refunded through the gateway.                            *)
(*                                                                         *)
(* Every step of Reservations goes on at the same time.  The gateway keeps *)
(* its own books (order, attempt), which no database transaction rolls     *)
(* back; it sends an event as often as it likes and in any order.          *)
(***************************************************************************)
EXTENDS Reservations

CONSTANTS
  Order,    \* gateway order ids; a payment intent has the id of its order
  Attempt,  \* attempts to pay at the gateway; each has one event
  Webhook,  \* deliveries that can be handled at one time
  Session,  \* customers' cancellations that can be in flight at one time
  Price,    \* amount_paise of a booking
  Sum,      \* what a customer may end up paying
  MayFail   \* whether a request or a webhook may die half way

ASSUME PriceAssumption == Price \in Amount /\ Sum \subseteq Nat \ {0}
ASSUME NoneAssumption == "none" \notin Order \cup Attempt \cup Booking

VARIABLES
  order,     \* at the gateway: which booking each order is a receipt for
  attempt,   \* at the gateway: what became of each attempt
  intent,    \* the payment_intent rows
  starting,  \* orders whose startPayment has not written its intent yet
  received,  \* gateway_event: the attempts whose event is stored
  hook,      \* the webhook deliveries being handled
  own,       \* the customers' cancellations in flight
  origin     \* the gateway attempt behind a ledger row, if any

checkoutVars ==
  <<vars, order, attempt, intent, starting, received, hook, own, origin>>

---------------------------------------------------------------------------
NoAttempt == [order |-> "none", outcome |-> "none", paid |-> 0, event |-> "none",
              asked |-> 0, returned |-> 0]
NoIntent == [status |-> "none", booking |-> "none", pay |-> "none"]
Resting == [phase |-> "idle"]

\* event: whether the event names an amount, which the adapters let it leave out.
\* asked: what the late path asked the gateway to send back, 0 if it did not.
\* returned: what the gateway did send back.
AttemptState ==
  [order : Order \cup {"none"}, outcome : {"none", "captured", "failed"},
   paid : Sum \cup {0}, event : {"none", "named", "bare"}, asked : {0, Price},
   returned : Nat]

Intent == [status : {"none", "created", "paid", "failed", "refunded"},
           booking : Booking \cup {"none"}, pay : Attempt \cup {"none"}]

HookState ==
  {Resting}
  \cup [phase : {"stored", "late", "asked"}, attempt : Attempt]
  \cup [phase : {"matched"}, attempt : Attempt, seen : Intent]
  \cup [phase : {"loaded"}, attempt : Attempt, booking : Booking]

OwnState ==
  {Resting}
  \cup [phase : {"quoted"}, booking : Booking, refund : Amount \cup {0}]
  \cup [phase : {"refunding"}, booking : Booking, refund : Amount \cup {0},
        locks : BOOLEAN, order : Order \cup {"none"}, pay : Attempt \cup {"none"},
        issued : BOOLEAN]

CheckoutInit ==
  /\ Init
  /\ order = [o \in Order |-> "none"]
  /\ attempt = [a \in Attempt |-> NoAttempt]
  /\ intent = [o \in Order |-> NoIntent]
  /\ starting = {}
  /\ received = {}
  /\ hook = [w \in Webhook |-> Resting]
  /\ own = [q \in Session |-> Resting]
  /\ origin = [p \in Payment |-> "none"]

---------------------------------------------------------------------------
\* The rest of the venue.

\* A customer's cancellation keeps its row locked until it ends.
Locked(b) == \E q \in Session : own[q].phase = "refunding" /\ own[q].booking = b /\ own[q].locks

\* ON DELETE SET NULL on payment_intent.reservation_id.
Unlinked(i) ==
  IF i.booking \in Booking /\ reservation'[i.booking].status = "gone"
    THEN [i EXCEPT !.booking = "none"]
    ELSE i

BookingStep ==
  /\ Next
  /\ \A b \in Booking : Locked(b) => reservation'[b].status = reservation[b].status
  /\ intent' = [o \in Order |-> Unlinked(intent[o])]
  /\ origin' = [p \in Payment |-> IF payment'[p] = NoPayment THEN "none" ELSE origin[p]]
  /\ UNCHANGED <<order, attempt, starting, received, hook, own>>

---------------------------------------------------------------------------
\* checkout.startPayment

\* The hold is checked and the order made at the gateway.
CreateOrder(o, b) ==
  /\ order[o] = "none"
  /\ reservation[b].status = "held"
  /\ reservation[b].deadline # "past"
  /\ order' = [order EXCEPT ![o] = b]
  /\ starting' = starting \cup {o}
  /\ UNCHANGED <<vars, attempt, intent, received, hook, own, origin>>

\* The intent is inserted and the request commits: the customer has the order.
InsertIntent(o) ==
  /\ o \in starting
  /\ Exists(order[o])
  /\ intent' = [intent EXCEPT ![o] = [status |-> "created", booking |-> order[o], pay |-> "none"]]
  /\ starting' = starting \ {o}
  /\ UNCHANGED <<vars, order, attempt, received, hook, own, origin>>

\* The hold was deleted meanwhile, a foreign key violation, or the request dies.
StartFails(o) ==
  /\ o \in starting
  /\ MayFail \/ ~Exists(order[o])
  /\ starting' = starting \ {o}
  /\ UNCHANGED <<vars, order, attempt, intent, received, hook, own, origin>>

---------------------------------------------------------------------------
\* The gateway: an order is paid once, after any number of failed attempts.

Paid(o) == \E a \in Attempt : attempt[a].order = o /\ attempt[a].outcome = "captured"

Pay(a, o, outcome, sum, event) ==
  /\ intent[o].status # "none"
  /\ attempt[a] = NoAttempt
  /\ ~Paid(o)
  /\ attempt' = [attempt EXCEPT ![a] =
                   [NoAttempt EXCEPT !.order = o, !.outcome = outcome, !.paid = sum,
                                     !.event = event]]
  /\ UNCHANGED <<vars, order, intent, starting, received, hook, own, origin>>

\* A refund is refused, or made and answered, or made and the answer lost to
\* the adapter's timeout.  No more goes back than came in.
RefundAnswers(a, sum) ==
  IF attempt[a].returned + sum <= attempt[a].paid
    THEN {"made", "unheard", "refused"}
    ELSE {"refused"}

Refunded(a, sum, answer) ==
  [attempt[a] EXCEPT !.returned = IF answer = "refused" THEN @ ELSE @ + sum]

---------------------------------------------------------------------------
\* checkout.handleWebhook

Goto(w, state) == hook' = [hook EXCEPT ![w] = state]
Done(w) == Goto(w, Resting)

\* Mutant of FirstTime: no unique key.
FirstTimeEveryTime(a) == TRUE

\* gateway_event_key makes every later delivery a duplicate, answered with
\* success and dropped.
FirstTime(a) == a \notin received

\* The event is stored in a transaction of its own.
StoreEvent(w, a) ==
  /\ hook[w] = Resting
  /\ attempt[a].outcome # "none"
  /\ FirstTime(a)
  /\ received' = received \cup {a}
  /\ Goto(w, [phase |-> "stored", attempt |-> a])
  /\ UNCHANGED <<vars, order, attempt, intent, starting, own, origin>>

\* Mutant of Short: what was paid is not compared with what was asked for.
ShortIsFine(a) == FALSE

\* The amount the event names is less than what was asked for; an event that
\* names none is not compared.
Short(a) ==
  /\ attempt[a].outcome = "captured"
  /\ attempt[a].event # "bare"
  /\ attempt[a].paid < Price

\* apply(): the intent is read, again in a transaction of its own.  A short
\* payment goes straight back.
ReadIntent(w) ==
  LET a == hook[w].attempt
  IN  /\ hook[w].phase = "stored"
      /\ Goto(w, IF Short(a)
                   THEN [phase |-> "late", attempt |-> a]
                   ELSE [phase |-> "matched", attempt |-> a,
                         seen |-> intent[attempt[a].order]])
      /\ UNCHANGED <<vars, order, attempt, intent, starting, received, own, origin>>

\* payment.failed: whatever the intent has become meanwhile.
FailIntent(w) ==
  LET a == hook[w].attempt
  IN  /\ hook[w].phase = "matched"
      /\ attempt[a].outcome = "failed"
      /\ intent' = [intent EXCEPT ![attempt[a].order].status = "failed",
                                  ![attempt[a].order].pay = a]
      /\ Done(w)
      /\ UNCHANGED <<vars, order, attempt, starting, received, own, origin>>

\* Mutant of TooLate: the reservation is taken for granted.
TooLateNever(b) == FALSE

TooLate(b) == b = "none" \/ ~Exists(b) \/ reservation[b].status = "cancelled"

\* payment.captured: the SELECT of the reservation.
LoadReservation(w) ==
  LET a == hook[w].attempt
      b == hook[w].seen.booking
  IN  /\ hook[w].phase = "matched"
      /\ attempt[a].outcome = "captured"
      /\ Goto(w, IF hook[w].seen.status = "paid" THEN Resting
                 ELSE IF TooLate(b) THEN [phase |-> "late", attempt |-> a]
                 ELSE [phase |-> "loaded", attempt |-> a, booking |-> b])
      /\ UNCHANGED <<vars, order, attempt, intent, starting, received, own, origin>>

\* Mutant of Confirmed: the UPDATE forgets the status.
ConfirmedStillHeld(row) == [row EXCEPT !.deadline = "none"]

Confirmed(row) == [row EXCEPT !.status = "confirmed", !.deadline = "none"]

\* The rest of the transaction.  The UPDATE repeats status = 'held' and waits
\* for the lock on such a row; when it matches nothing the money is booked all
\* the same.
Apply(w) ==
  LET a == hook[w].attempt
      b == hook[w].booking
  IN  /\ hook[w].phase = "loaded"
      /\ Exists(b)
      /\ \/ /\ reservation[b].status = "held"
            /\ ~Locked(b)
            /\ reservation' = [reservation EXCEPT ![b] = Confirmed(@)]
         \/ reservation[b].status # "held" /\ UNCHANGED reservation
      /\ \E p \in Payment :
           /\ payment[p] = NoPayment
           /\ payment' = Insert(p, b, "in", Price)
           /\ origin' = [origin EXCEPT ![p] = a]
      /\ intent' = [intent EXCEPT ![attempt[a].order].status = "paid",
                                  ![attempt[a].order].pay = a]
      /\ Done(w)
      /\ UNCHANGED <<inflight, sweep, removed, order, attempt, starting, received, own>>

\* The row was deleted after the SELECT: the payment violates its foreign key,
\* the transaction is undone and the error kept with the event.
ApplyFails(w) ==
  /\ hook[w].phase = "loaded"
  /\ ~Exists(hook[w].booking)
  /\ Done(w)
  /\ UNCHANGED <<vars, order, attempt, intent, starting, received, own, origin>>

\* refundLate asks for the amount of the intent, whatever was paid.
AskBack(w, answer) ==
  LET a == hook[w].attempt
  IN  /\ hook[w].phase = "late"
      /\ answer \in RefundAnswers(a, Price)
      /\ attempt' = [attempt EXCEPT ![a] = [Refunded(a, Price, answer) EXCEPT !.asked = Price]]
      /\ Goto(w, [phase |-> "asked", attempt |-> a])
      /\ UNCHANGED <<vars, order, intent, starting, received, own, origin>>

\* A refund that was refused is only logged: the intent reads the same.
RecordAskedBack(w) ==
  LET a == hook[w].attempt
  IN  /\ hook[w].phase = "asked"
      /\ intent' = [intent EXCEPT ![attempt[a].order].status = "refunded",
                                  ![attempt[a].order].pay = a]
      /\ Done(w)
      /\ UNCHANGED <<vars, order, attempt, starting, received, own, origin>>

\* The process dies, or the database fails the handler.
HookDies(w) ==
  /\ MayFail
  /\ hook[w] # Resting
  /\ Done(w)
  /\ UNCHANGED <<vars, order, attempt, intent, starting, received, own, origin>>

---------------------------------------------------------------------------
\* publicBooking.cancelOwn: one transaction with a gateway call in it.

\* The booking and the quote are read.
CancelOwnRead(q, b, refund) ==
  /\ own[q] = Resting
  /\ reservation[b].kind = "booking"
  /\ reservation[b].status \in {"confirmed", "held"}
  /\ refund = 0 \/ refund <= PaidTotal(b)
  /\ own' = [own EXCEPT ![q] = [phase |-> "quoted", booking |-> b, refund |-> refund]]
  /\ UNCHANGED <<vars, order, attempt, intent, starting, received, hook, origin>>

\* Mutant of Issued: nobody looks at the answer.
IssuedWhatever(answer) == TRUE

\* refundForCancellation reports a refund only when the gateway answered.
Issued(answer) == answer = "made"

\* reservations.cancel locks the row, unless it finds it cancelled already and
\* returns; then refundForCancellation calls the gateway if there is a paid
\* intent.  None of this is committed.
CancelOwnRefund(q) ==
  LET b == own[q].booking
      refund == own[q].refund
      locks == reservation[b].status # "cancelled"
      paid == {o \in Order : intent[o].booking = b /\ intent[o].status = "paid"}
      Refunding(o, pay, issued) ==
        own' = [own EXCEPT ![q] = [phase |-> "refunding", booking |-> b, refund |-> refund,
                                   locks |-> locks, order |-> o, pay |-> pay,
                                   issued |-> issued]]
  IN  /\ own[q].phase = "quoted"
      /\ Exists(b)
      /\ ~Locked(b)
      /\ \/ /\ refund = 0 \/ paid = {}
            /\ Refunding("none", "none", FALSE)
            /\ UNCHANGED attempt
         \/ /\ refund > 0
            /\ \E o \in paid :
                 \E answer \in RefundAnswers(intent[o].pay, refund) :
                   /\ Refunding(o, intent[o].pay, Issued(answer))
                   /\ attempt' = [attempt EXCEPT ![intent[o].pay] =
                                    Refunded(intent[o].pay, refund, answer)]
      /\ UNCHANGED <<vars, order, intent, starting, received, hook, origin>>

\* The cancellation, the intent's status and the ledger's refund appear at once.
CancelOwnCommit(q) ==
  LET b == own[q].booking
  IN  /\ own[q].phase = "refunding"
      /\ Exists(b)
      /\ reservation' = IF own[q].locks
                          THEN [reservation EXCEPT ![b].status = "cancelled"]
                          ELSE reservation
      /\ \/ /\ own[q].issued
            /\ intent' = [intent EXCEPT ![own[q].order].status = "refunded"]
            /\ \E p \in Payment :
                 /\ payment[p] = NoPayment
                 /\ payment' = Insert(p, b, "refund", own[q].refund)
                 /\ origin' = [origin EXCEPT ![p] = own[q].pay]
         \/ ~own[q].issued /\ UNCHANGED <<intent, payment, origin>>
      /\ own' = [own EXCEPT ![q] = Resting]
      /\ UNCHANGED <<inflight, sweep, removed, order, attempt, starting, received, hook>>

\* The request fails and is rolled back: the booking is gone, or any error.
CancelOwnFails(q) ==
  /\ own[q].phase # "idle"
  /\ MayFail \/ ~Exists(own[q].booking)
  /\ own' = [own EXCEPT ![q] = Resting]
  /\ UNCHANGED <<vars, order, attempt, intent, starting, received, hook, origin>>

---------------------------------------------------------------------------

StartSteps == \E o \in Order :
  \/ \E b \in Booking : CreateOrder(o, b)
  \/ InsertIntent(o) \/ StartFails(o)

GatewaySteps == \E a \in Attempt, o \in Order, sum \in Sum :
  \/ \E event \in {"named", "bare"} : Pay(a, o, "captured", sum, event)
  \/ Pay(a, o, "failed", sum, "named")

WebhookSteps == \E w \in Webhook :
  \/ \E a \in Attempt : StoreEvent(w, a)
  \/ ReadIntent(w) \/ FailIntent(w) \/ LoadReservation(w) \/ Apply(w) \/ ApplyFails(w)
  \/ \E answer \in {"made", "unheard", "refused"} : AskBack(w, answer)
  \/ RecordAskedBack(w) \/ HookDies(w)

CancelOwnSteps == \E q \in Session :
  \/ \E b \in Booking, refund \in Amount \cup {0} : CancelOwnRead(q, b, refund)
  \/ CancelOwnRefund(q) \/ CancelOwnCommit(q) \/ CancelOwnFails(q)

CheckoutNext == BookingStep \/ StartSteps \/ GatewaySteps \/ WebhookSteps \/ CancelOwnSteps

CheckoutSpec == CheckoutInit /\ [][CheckoutNext]_checkoutVars
---------------------------------------------------------------------------
\* Properties.

CheckoutTypeOK ==
  /\ TypeOK
  /\ order \in [Order -> Booking \cup {"none"}]
  /\ attempt \in [Attempt -> AttemptState]
  /\ intent \in [Order -> Intent]
  /\ starting \subseteq Order
  /\ received \subseteq Attempt
  /\ hook \in [Webhook -> HookState]
  /\ own \in [Session -> OwnState]
  /\ origin \in [Payment -> Attempt \cup {"none"}]

\* p is the ledger row of the money that came in with a.
Books(p, a) == origin[p] = a /\ payment[p].direction = "in"

\* However often and in whatever order its event is delivered, a payment is
\* booked at most once: without the unique key "a retry confirms a booking
\* twice and records the money twice".
RecordedOnce ==
  \A a \in Attempt : \A p, q \in Payment : Books(p, a) /\ Books(q, a) => p = q

\* Money that the webhook sent back is not on the books as well.
BookedOrSentBack ==
  \A a \in Attempt, p \in Payment : attempt[a].asked # 0 => ~Books(p, a)

\* "A short payment is refunded, not accepted", unless the event that told of it
\* named no amount: then nothing is compared and the full price is booked.
NoShortPaymentBooked ==
  \A a \in Attempt, p \in Payment :
    Books(p, a) => attempt[a].paid >= Price \/ attempt[a].event = "bare"

\* Money booked online is never against a mere hold, so no expiry, release or
\* retried hold that finds a hold can take it away.
PaidIsNotHeld ==
  \A a \in Attempt, p \in Payment : Books(p, a) => reservation[payment[p].booking].status # "held"

\* A refund of a customer's cancellation is in the ledger only when the
\* gateway did send the money: "Recording it first would tell a customer they
\* had been refunded when they had not."
LedgerRefundsMoved ==
  \A a \in Attempt :
    MapThenSumSet(LAMBDA p : payment[p].amount,
                  {p \in Payment : origin[p] = a /\ payment[p].direction = "refund"})
      <= attempt[a].returned

\* A webhook that is done with a captured payment has booked it or asked the
\* gateway to send it back: "If the hold expired and was swept, or the slot
\* went to someone else, the money goes back."
CapturedIsAnswered ==
  [][\A w \in Webhook, a \in Attempt :
       hook[w] # Resting /\ hook[w].attempt = a /\ hook'[w] = Resting
         /\ attempt[a].outcome = "captured"
       => attempt'[a].asked # 0 \/ \E p \in Payment : Books(p, a)']_checkoutVars
===========================================================================
