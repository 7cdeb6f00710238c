-------------------------- MODULE CheckoutProofs --------------------------
(***************************************************************************)
(* Theorems about Checkout, for every number of orders, attempts,          *)
(* deliveries and cancellations.                                           *)
(***************************************************************************)
EXTENDS Checkout, ReservationsProofs, FiniteSetTheorems, WellFoundedInduction

\* Types alone are not inductive: a step looks up the order of an attempt, the
\* attempt of a paid intent, the order that a cancellation refunds.
AttemptsPlaced == \A a \in Attempt : attempt[a].outcome # "none" => attempt[a].order \in Order
IntentsPlaced == \A o \in Order : intent[o].status = "paid" => intent[o].pay \in Attempt
HooksPlaced == \A w \in Webhook :
  hook[w] # Resting => hook[w].attempt \in Attempt /\ attempt[hook[w].attempt].outcome # "none"
RefundsPlaced == \A q \in Session :
  own[q].phase = "refunding" /\ own[q].issued =>
    own[q].order \in Order /\ own[q].pay \in Attempt /\ own[q].refund \in Amount
StartingPlaced == \A o \in starting : order[o] \in Booking

Placed ==
  /\ CheckoutTypeOK
  /\ AttemptsPlaced
  /\ IntentsPlaced
  /\ HooksPlaced
  /\ RefundsPlaced
  /\ StartingPlaced

\* What a delivery that is not at rest is about, by its phase.
LEMMA HookTypes ==
  ASSUME CheckoutTypeOK, NEW w \in Webhook
  PROVE  /\ hook[w] # Resting <=> hook[w].phase # "idle"
         /\ hook[w].phase \in {"stored", "late", "asked", "matched", "loaded"}
              => hook[w].attempt \in Attempt
         /\ hook[w].phase = "matched" => hook[w].seen \in Intent
         /\ hook[w].phase = "loaded" => hook[w].booking \in Booking
BY DEF CheckoutTypeOK, HookState, Resting

\* What a customer's cancellation in flight is about.
LEMMA OwnTypes ==
  ASSUME CheckoutTypeOK, NEW q \in Session
  PROVE  /\ own[q].phase \in {"quoted", "refunding"} =>
              own[q].booking \in Booking /\ own[q].refund \in Amount \cup {0}
         /\ own[q].phase = "refunding" =>
              /\ own[q].locks \in BOOLEAN
              /\ own[q].order \in Order \cup {"none"}
              /\ own[q].pay \in Attempt \cup {"none"}
              /\ own[q].issued \in BOOLEAN
BY DEF CheckoutTypeOK, OwnState, Resting

\* A refund changes one column of an attempt.
LEMMA RefundedType ==
  ASSUME CheckoutTypeOK, NEW a \in Attempt, NEW sum \in Nat, NEW answer
  PROVE  /\ Refunded(a, sum, answer) \in AttemptState
         /\ Refunded(a, sum, answer).order = attempt[a].order
         /\ Refunded(a, sum, answer).outcome = attempt[a].outcome
         /\ Refunded(a, sum, answer).paid = attempt[a].paid
         /\ Refunded(a, sum, answer).event = attempt[a].event
         /\ Refunded(a, sum, answer).asked = attempt[a].asked
<1>1. attempt[a] \in AttemptState
  BY DEF CheckoutTypeOK
<1>2. attempt[a].returned \in Nat /\ attempt[a].returned + sum \in Nat
  BY <1>1 DEF AttemptState
<1>3. QED
  BY <1>1, <1>2 DEF Refunded, AttemptState

LEMMA ConfirmedType == \A row \in Row : Confirmed(row) \in Row
BY DEF Confirmed, Row, LiveStatus, BookingStatus

LEMMA PlacedInit == CheckoutInit => Placed
<1> SUFFICES ASSUME CheckoutInit PROVE Placed
  OBVIOUS
<1>1. TypeOK
  BY InitIInv DEF CheckoutInit, IInv
<1>2. CheckoutTypeOK
  BY <1>1 DEF CheckoutInit, CheckoutTypeOK, NoAttempt, AttemptState, NoIntent, Intent,
     HookState, OwnState, Resting
<1>3. AttemptsPlaced /\ IntentsPlaced /\ HooksPlaced /\ RefundsPlaced /\ StartingPlaced
  BY DEF CheckoutInit, AttemptsPlaced, IntentsPlaced, HooksPlaced, RefundsPlaced, StartingPlaced,
     NoAttempt, NoIntent, Resting
<1>4. QED
  BY <1>2, <1>3 DEF Placed

\* Whoever deletes a booking, its intents only lose the link.
LEMMA UnlinkedTypes ==
  ASSUME CheckoutTypeOK, BookingStep
  PROVE  \A o \in Order :
           /\ intent'[o] \in Intent
           /\ intent'[o].status = intent[o].status
           /\ intent'[o].pay = intent[o].pay
BY DEF CheckoutTypeOK, BookingStep, Unlinked, Intent

\* Every step keeps types and lookups.
LEMMA PlacedStep == Placed /\ [CheckoutNext]_checkoutVars => Placed'
<1> SUFFICES ASSUME Placed, [CheckoutNext]_checkoutVars PROVE Placed'
  OBVIOUS
<1> USE DEF Placed
<1>0. TypeOK /\ CheckoutTypeOK
  BY DEF CheckoutTypeOK
<1>1. CASE BookingStep
  <2>1. TypeOK'
    BY <1>0, <1>1, TypeStep DEF BookingStep
  <2>2. intent' \in [Order -> Intent]
    BY <1>0, <1>1, UnlinkedTypes DEF BookingStep
  <2>3. origin' \in [Payment -> Attempt \cup {"none"}]
    BY <1>0, <1>1 DEF BookingStep, CheckoutTypeOK
  <2>4. CheckoutTypeOK'
    BY <1>0, <1>1, <2>1, <2>2, <2>3 DEF BookingStep, CheckoutTypeOK
  <2>5. IntentsPlaced'
    BY <1>0, <1>1, UnlinkedTypes DEF IntentsPlaced
  <2>6. AttemptsPlaced' /\ HooksPlaced' /\ RefundsPlaced' /\ StartingPlaced'
    BY <1>1 DEF BookingStep, AttemptsPlaced, HooksPlaced, RefundsPlaced, StartingPlaced
  <2>7. QED
    BY <2>4, <2>5, <2>6
<1>2. ASSUME NEW o \in Order, NEW b \in Booking, CreateOrder(o, b) PROVE Placed'
  BY <1>0, <1>2 DEF CreateOrder, vars, CheckoutTypeOK, TypeOK, AttemptsPlaced, IntentsPlaced,
     HooksPlaced, RefundsPlaced, StartingPlaced
<1>3. ASSUME NEW o \in Order, InsertIntent(o) PROVE Placed'
  <2>1. intent' \in [Order -> Intent] /\ IntentsPlaced'
    BY <1>0, <1>3 DEF InsertIntent, CheckoutTypeOK, Intent, IntentsPlaced, StartingPlaced
  <2>2. QED
    BY <1>0, <1>3, <2>1 DEF InsertIntent, vars, CheckoutTypeOK, TypeOK, AttemptsPlaced,
       HooksPlaced, RefundsPlaced, StartingPlaced
<1>4. ASSUME NEW o \in Order, StartFails(o) PROVE Placed'
  BY <1>0, <1>4 DEF StartFails, vars, CheckoutTypeOK, TypeOK, AttemptsPlaced, IntentsPlaced,
     HooksPlaced, RefundsPlaced, StartingPlaced
<1>5. ASSUME NEW a \in Attempt, NEW o \in Order, NEW outcome \in {"captured", "failed"},
             NEW sum \in Sum, NEW event \in {"named", "bare"}, Pay(a, o, outcome, sum, event)
      PROVE  Placed'
  <2>1. attempt' \in [Attempt -> AttemptState]
    BY <1>0, <1>5 DEF Pay, CheckoutTypeOK, AttemptState, NoAttempt
  <2>2. AttemptsPlaced' /\ HooksPlaced'
    BY <1>0, <1>5 DEF Pay, CheckoutTypeOK, AttemptsPlaced, HooksPlaced, NoAttempt
  <2>3. QED
    BY <1>0, <1>5, <2>1, <2>2 DEF Pay, vars, CheckoutTypeOK, TypeOK, IntentsPlaced,
       RefundsPlaced, StartingPlaced
<1>6. ASSUME NEW w \in Webhook, NEW a \in Attempt, StoreEvent(w, a) PROVE Placed'
  <2>1. hook' \in [Webhook -> HookState] /\ HooksPlaced'
    BY <1>0, <1>6 DEF StoreEvent, Goto, CheckoutTypeOK, HookState, HooksPlaced
  <2>2. QED
    BY <1>0, <1>6, <2>1 DEF StoreEvent, vars, CheckoutTypeOK, TypeOK, AttemptsPlaced,
       IntentsPlaced, RefundsPlaced, StartingPlaced
<1>7. ASSUME NEW w \in Webhook, ReadIntent(w) PROVE Placed'
  <2>1. hook[w].attempt \in Attempt /\ attempt[hook[w].attempt].order \in Order
    BY <1>0, <1>7, HookTypes DEF ReadIntent, HooksPlaced, AttemptsPlaced
  <2>2. hook' \in [Webhook -> HookState] /\ HooksPlaced'
    BY <1>0, <1>7, <2>1, HookTypes DEF ReadIntent, Goto, CheckoutTypeOK, HookState, HooksPlaced
  <2>3. QED
    BY <1>0, <1>7, <2>2 DEF ReadIntent, vars, CheckoutTypeOK, TypeOK, AttemptsPlaced,
       IntentsPlaced, RefundsPlaced, StartingPlaced
<1>8. ASSUME NEW w \in Webhook, FailIntent(w) \/ RecordAskedBack(w) PROVE Placed'
  <2>1. hook[w].attempt \in Attempt /\ attempt[hook[w].attempt].order \in Order
    BY <1>0, <1>8, HookTypes DEF FailIntent, RecordAskedBack, HooksPlaced, AttemptsPlaced
  <2>2. intent' \in [Order -> Intent] /\ IntentsPlaced'
    <3>1. PICK a \in Attempt, o \in Order, s \in {"failed", "refunded"} :
            intent' = [intent EXCEPT ![o].status = s, ![o].pay = a]
      BY <1>8, <2>1 DEF FailIntent, RecordAskedBack
    <3>2. intent' = [intent EXCEPT ![o] = [intent[o] EXCEPT !.status = s, !.pay = a]]
      BY <1>0, <3>1 DEF CheckoutTypeOK
    <3>3. [intent[o] EXCEPT !.status = s, !.pay = a] \in Intent
      BY <1>0 DEF CheckoutTypeOK, Intent
    <3>4. intent' \in [Order -> Intent]
      BY <1>0, <3>2, <3>3 DEF CheckoutTypeOK
    <3>5. intent'[o].status # "paid" /\ \A x \in Order \ {o} : intent'[x] = intent[x]
      BY <1>0, <3>2 DEF CheckoutTypeOK, Intent
    <3>6. QED
      BY <3>4, <3>5 DEF IntentsPlaced
  <2>3. hook' \in [Webhook -> HookState] /\ HooksPlaced'
    BY <1>0, <1>8 DEF FailIntent, RecordAskedBack, Done, Goto, CheckoutTypeOK, HookState, HooksPlaced
  <2>4. QED
    BY <1>0, <1>8, <2>2, <2>3 DEF FailIntent, RecordAskedBack, vars, CheckoutTypeOK, TypeOK,
       AttemptsPlaced, RefundsPlaced, StartingPlaced
<1>9. ASSUME NEW w \in Webhook, LoadReservation(w) PROVE Placed'
  <2>1. /\ hook[w].attempt \in Attempt /\ attempt[hook[w].attempt].outcome # "none"
        /\ hook[w].seen \in Intent
    BY <1>0, <1>9, HookTypes DEF LoadReservation, HooksPlaced
  <2>2. ~TooLate(hook[w].seen.booking) => hook[w].seen.booking \in Booking
    BY <2>1 DEF TooLate, Intent
  <2>3. hook' \in [Webhook -> HookState] /\ HooksPlaced'
    BY <1>0, <1>9, <2>1, <2>2
       DEF LoadReservation, Goto, CheckoutTypeOK, HookState, HooksPlaced
  <2>4. QED
    BY <1>0, <1>9, <2>3 DEF LoadReservation, vars, CheckoutTypeOK, TypeOK, AttemptsPlaced,
       IntentsPlaced, RefundsPlaced, StartingPlaced
<1>10. ASSUME NEW w \in Webhook, Apply(w) PROVE Placed'
  <2> DEFINE a == hook[w].attempt
             b == hook[w].booking
             o == attempt[a].order
  <2>1. a \in Attempt /\ o \in Order /\ b \in Booking
    BY <1>0, <1>10, HookTypes DEF Apply, HooksPlaced, AttemptsPlaced
  <2>2. /\ reservation' = reservation \/ reservation' = [reservation EXCEPT ![b] = Confirmed(@)]
        /\ intent' = [intent EXCEPT ![o].status = "paid", ![o].pay = a]
    BY <1>10 DEF Apply
  <2>3. /\ payment' \in [Payment -> PaymentRow \cup {NoPayment}]
        /\ origin' \in [Payment -> Attempt \cup {"none"}]
    BY <1>0, <1>10, <2>1, InsertType, PriceAssumption DEF Apply, CheckoutTypeOK
  <2> HIDE DEF a, b, o
  <2>4. reservation' \in [Booking -> Row]
    <3>1. Confirmed(reservation[b]) \in Row
      BY <1>0, <2>1, ConfirmedType DEF TypeOK
    <3>2. QED
      BY <1>0, <2>1, <2>2, <3>1 DEF TypeOK
  <2>5. intent' \in [Order -> Intent] /\ IntentsPlaced'
    <3>1. intent' = [intent EXCEPT ![o] = [intent[o] EXCEPT !.status = "paid", !.pay = a]]
      BY <1>0, <2>1, <2>2 DEF CheckoutTypeOK
    <3>2. [intent[o] EXCEPT !.status = "paid", !.pay = a] \in Intent
      BY <1>0, <2>1 DEF CheckoutTypeOK, Intent
    <3>3. intent' \in [Order -> Intent]
      BY <1>0, <2>1, <3>1, <3>2 DEF CheckoutTypeOK
    <3>4. intent'[o].pay = a /\ \A x \in Order \ {o} : intent'[x] = intent[x]
      BY <1>0, <2>1, <3>1 DEF CheckoutTypeOK, Intent
    <3>5. QED
      BY <2>1, <3>3, <3>4 DEF IntentsPlaced
  <2>6. hook' \in [Webhook -> HookState] /\ HooksPlaced'
    BY <1>0, <1>10 DEF Apply, Done, Goto, CheckoutTypeOK, HookState, HooksPlaced
  <2>7. QED
    BY <1>0, <1>10, <2>3, <2>4, <2>5, <2>6 DEF Apply, CheckoutTypeOK, TypeOK,
       AttemptsPlaced, RefundsPlaced, StartingPlaced
<1>11. ASSUME NEW w \in Webhook, ApplyFails(w) \/ HookDies(w) PROVE Placed'
  <2>1. hook' \in [Webhook -> HookState] /\ HooksPlaced'
    BY <1>0, <1>11 DEF ApplyFails, HookDies, Done, Goto, CheckoutTypeOK, HookState, HooksPlaced
  <2>2. QED
    BY <1>0, <1>11, <2>1 DEF ApplyFails, HookDies, vars, CheckoutTypeOK, TypeOK, AttemptsPlaced,
       IntentsPlaced, RefundsPlaced, StartingPlaced
<1>12. ASSUME NEW w \in Webhook, NEW answer, AskBack(w, answer) PROVE Placed'
  <2> DEFINE a == hook[w].attempt
  <2>1. a \in Attempt /\ attempt[a].outcome # "none" /\ Price \in Nat
    BY <1>0, <1>12, HookTypes, PriceAssumption, AmountAssumption DEF AskBack, HooksPlaced
  <2>2. attempt'[a] = [Refunded(a, Price, answer) EXCEPT !.asked = Price]
    BY <1>0, <1>12, <2>1 DEF AskBack, CheckoutTypeOK
  <2>3. /\ attempt'[a] \in AttemptState
        /\ attempt'[a].outcome = attempt[a].outcome
        /\ attempt'[a].order = attempt[a].order
    <3>1. Refunded(a, Price, answer) \in AttemptState
      BY <1>0, <2>1, RefundedType
    <3>2. QED
      BY <1>0, <2>1, <2>2, <3>1, RefundedType DEF AttemptState
  <2>4. \A c \in Attempt \ {a} : attempt'[c] = attempt[c]
    BY <1>0, <1>12, <2>1 DEF AskBack, CheckoutTypeOK
  <2>5. attempt' \in [Attempt -> AttemptState]
    BY <1>0, <1>12, <2>1, <2>3, <2>4 DEF AskBack, CheckoutTypeOK
  <2>6. hook' = [hook EXCEPT ![w] = [phase |-> "asked", attempt |-> a]]
    BY <1>12 DEF AskBack, Goto
  <2> HIDE DEF a
  <2>7. hook' \in [Webhook -> HookState] /\ AttemptsPlaced' /\ HooksPlaced'
    BY <1>0, <2>1, <2>3, <2>4, <2>6 DEF CheckoutTypeOK, HookState, AttemptsPlaced, HooksPlaced
  <2>8. QED
    BY <1>0, <1>12, <2>5, <2>7 DEF AskBack, vars, CheckoutTypeOK, TypeOK,
       IntentsPlaced, RefundsPlaced, StartingPlaced
<1>13. ASSUME NEW q \in Session, NEW b \in Booking, NEW refund \in Amount \cup {0},
              CancelOwnRead(q, b, refund)
       PROVE  Placed'
  <2>1. own' \in [Session -> OwnState] /\ RefundsPlaced'
    BY <1>0, <1>13 DEF CancelOwnRead, CheckoutTypeOK, OwnState, RefundsPlaced
  <2>2. QED
    BY <1>0, <1>13, <2>1 DEF CancelOwnRead, vars, CheckoutTypeOK, TypeOK, AttemptsPlaced,
       IntentsPlaced, HooksPlaced, StartingPlaced
<1>14. ASSUME NEW q \in Session, CancelOwnRefund(q) PROVE Placed'
  <2> DEFINE b == own[q].booking
             refund == own[q].refund
             locks == reservation[b].status # "cancelled"
             State(o, pay, issued) ==
               [phase |-> "refunding", booking |-> b, refund |-> refund, locks |-> locks,
                order |-> o, pay |-> pay, issued |-> issued]
  <2>1. b \in Booking /\ refund \in Amount \cup {0} /\ refund \in Nat
    BY <1>0, <1>14, OwnTypes, AmountAssumption DEF CancelOwnRefund
  <2>2. CASE own' = [own EXCEPT ![q] = State("none", "none", FALSE)] /\ UNCHANGED attempt
    <3>1. State("none", "none", FALSE) \in OwnState
      BY <2>1 DEF OwnState
    <3>2. own' \in [Session -> OwnState] /\ RefundsPlaced'
      BY <1>0, <2>2, <3>1 DEF CheckoutTypeOK, RefundsPlaced
    <3> HIDE DEF State
    <3>3. QED
      BY <1>0, <1>14, <2>2, <3>2 DEF CancelOwnRefund, vars, CheckoutTypeOK, TypeOK,
         AttemptsPlaced, IntentsPlaced, HooksPlaced, StartingPlaced
  <2>3. ASSUME NEW o \in Order, intent[o].status = "paid", NEW answer,
               refund > 0,
               own' = [own EXCEPT ![q] = State(o, intent[o].pay, Issued(answer))],
               attempt' = [attempt EXCEPT ![intent[o].pay] =
                             Refunded(intent[o].pay, refund, answer)]
        PROVE  Placed'
    <3>1. intent[o].pay \in Attempt
      BY <2>3 DEF IntentsPlaced
    <3>2. State(o, intent[o].pay, Issued(answer)) \in OwnState /\ refund \in Amount
      BY <2>1, <2>3, <3>1 DEF OwnState, Issued
    <3>3. own' \in [Session -> OwnState]
      BY <1>0, <2>3, <3>2 DEF CheckoutTypeOK
    <3>4. /\ own'[q].order \in Order /\ own'[q].pay \in Attempt /\ own'[q].refund \in Amount
          /\ \A x \in Session \ {q} : own'[x] = own[x]
      BY <1>0, <2>3, <3>1, <3>2 DEF CheckoutTypeOK
    <3>5. own' \in [Session -> OwnState] /\ RefundsPlaced'
      BY <3>3, <3>4 DEF RefundsPlaced
    <3> HIDE DEF State
    <3>6. /\ attempt' \in [Attempt -> AttemptState]
          /\ \A c \in Attempt : /\ attempt'[c].outcome = attempt[c].outcome
                                /\ attempt'[c].order = attempt[c].order
      BY <1>0, <2>1, <2>3, <3>1, RefundedType DEF CheckoutTypeOK
    <3>7. AttemptsPlaced' /\ HooksPlaced'
      BY <1>0, <1>14, <3>6 DEF CancelOwnRefund, AttemptsPlaced, HooksPlaced
    <3>8. QED
      BY <1>0, <1>14, <3>5, <3>6, <3>7 DEF CancelOwnRefund, vars, CheckoutTypeOK, TypeOK,
         IntentsPlaced, StartingPlaced
  <2>4. QED
    BY <1>14, <2>2, <2>3 DEF CancelOwnRefund
<1>15. ASSUME NEW q \in Session, CancelOwnCommit(q) PROVE Placed'
  <2> DEFINE b == own[q].booking
             o == own[q].order
  <2>1. b \in Booking
    BY <1>0, <1>15, OwnTypes DEF CancelOwnCommit
  <2>2. reservation' \in [Booking -> Row]
    BY <1>0, <1>15, <2>1 DEF CancelOwnCommit, TypeOK, Row, LiveStatus, BookingStatus
  <2>3. /\ payment' \in [Payment -> PaymentRow \cup {NoPayment}]
        /\ origin' \in [Payment -> Attempt \cup {"none"}]
        /\ intent' \in [Order -> Intent]
        /\ IntentsPlaced'
    <3>1. CASE own[q].issued
      <4>1. o \in Order /\ own[q].pay \in Attempt /\ own[q].refund \in Amount
        BY <1>15, <3>1 DEF CancelOwnCommit, RefundsPlaced
      <4>2. PICK p \in Payment :
              /\ payment' = Insert(p, b, "refund", own[q].refund)
              /\ origin' = [origin EXCEPT ![p] = own[q].pay]
              /\ intent' = [intent EXCEPT ![o].status = "refunded"]
        BY <1>15, <3>1 DEF CancelOwnCommit
      <4> HIDE DEF b, o
      <4>3. /\ payment' \in [Payment -> PaymentRow \cup {NoPayment}]
            /\ origin' \in [Payment -> Attempt \cup {"none"}]
        BY <1>0, <2>1, <4>1, <4>2, InsertType DEF CheckoutTypeOK
      <4>4. intent' \in [Order -> Intent] /\ IntentsPlaced'
        BY <1>0, <4>1, <4>2 DEF CheckoutTypeOK, Intent, IntentsPlaced
      <4>5. QED
        BY <4>3, <4>4
    <3>2. CASE ~own[q].issued
      <4>1. UNCHANGED <<payment, origin, intent>>
        BY <1>15, <3>2 DEF CancelOwnCommit
      <4>2. QED
        BY <1>0, <4>1 DEF CheckoutTypeOK, TypeOK, IntentsPlaced
    <3>3. QED
      BY <3>1, <3>2
  <2>6. own' \in [Session -> OwnState] /\ RefundsPlaced'
    BY <1>0, <1>15 DEF CancelOwnCommit, CheckoutTypeOK, OwnState, RefundsPlaced, Resting
  <2>7. QED
    BY <1>0, <1>15, <2>2, <2>3, <2>6 DEF CancelOwnCommit, CheckoutTypeOK, TypeOK,
       AttemptsPlaced, HooksPlaced, StartingPlaced
<1>16. ASSUME NEW q \in Session, CancelOwnFails(q) PROVE Placed'
  <2>1. own' \in [Session -> OwnState] /\ RefundsPlaced'
    BY <1>0, <1>16 DEF CancelOwnFails, CheckoutTypeOK, OwnState, RefundsPlaced, Resting
  <2>2. QED
    BY <1>0, <1>16, <2>1 DEF CancelOwnFails, vars, CheckoutTypeOK, TypeOK, AttemptsPlaced,
       IntentsPlaced, HooksPlaced, StartingPlaced
<1>17. CASE UNCHANGED checkoutVars
  BY <1>0, <1>17 DEF checkoutVars, vars, CheckoutTypeOK, TypeOK, AttemptsPlaced,
     IntentsPlaced, HooksPlaced, RefundsPlaced, StartingPlaced
<1>18. QED
  BY <1>1, <1>2, <1>3, <1>4, <1>5, <1>6, <1>7, <1>8, <1>9, <1>10, <1>11, <1>12, <1>13,
     <1>14, <1>15, <1>16, <1>17
     DEF CheckoutNext, StartSteps, GatewaySteps, WebhookSteps, CancelOwnSteps

\* Whatever order, attempt, intent or cancellation a step looks up is there.
THEOREM CheckoutTypeCorrect == CheckoutSpec => []CheckoutTypeOK
<1>1. Placed => CheckoutTypeOK
  BY DEF Placed
<1>2. QED
  BY PlacedInit, PlacedStep, <1>1, PTL DEF CheckoutSpec

---------------------------------------------------------------------------
\* The reservation table under online payment.

\* A ledger row is written once and removed once.
LEMMA LedgerStep ==
  ASSUME TypeOK, [Next]_vars
  PROVE  \A p \in Payment :
           payment'[p] = payment[p] \/ payment'[p] = NoPayment \/ payment[p] = NoPayment
<1>1. ASSUME NEW gone, payment' = Cascade(gone)
      PROVE  \A p \in Payment : payment'[p] = payment[p] \/ payment'[p] = NoPayment
  BY <1>1 DEF Cascade
<1>2. ASSUME NEW q \in Payment, payment[q] = NoPayment, NEW b, NEW dir, NEW a,
             payment' = Insert(q, b, dir, a)
      PROVE  \A p \in Payment : payment'[p] = payment[p] \/ payment[p] = NoPayment
  BY <1>2 DEF TypeOK, Insert
<1>3. ASSUME NEW r \in Request, CancelWrite(r)
      PROVE  \A p \in Payment : payment'[p] = payment[p] \/ payment[p] = NoPayment
  BY <1>2, <1>3 DEF CancelWrite
<1>4. ASSUME NEW q \in Payment, RemovePayment(q)
      PROVE  \A p \in Payment : payment'[p] = payment[p] \/ payment'[p] = NoPayment
  BY <1>4 DEF TypeOK, RemovePayment
<1>5. ASSUME NEW q \in Payment, NEW b \in Booking, NEW dir \in {"in", "refund"}, NEW a \in Amount,
             RecordPayment(q, b, dir, a)
      PROVE  \A p \in Payment : payment'[p] = payment[p] \/ payment[p] = NoPayment
  BY <1>2, <1>5 DEF RecordPayment
<1>6. ASSUME NEW b \in Booking, NEW s \in Slot, Hold(b, s)
      PROVE  \A p \in Payment : payment'[p] = payment[p] \/ payment'[p] = NoPayment
  BY <1>1, <1>6 DEF Hold
<1>7. ASSUME NEW b \in Booking, RemoveBlock(b) \/ Release(b)
      PROVE  \A p \in Payment : payment'[p] = payment[p] \/ payment'[p] = NoPayment
  BY <1>1, <1>7 DEF RemoveBlock, Release
<1>8. CASE SweepCommit
  BY <1>1, <1>8 DEF SweepCommit
<1>9. ASSUME NEW r \in Request, RemoveCourtWrite(r)
      PROVE  \A p \in Payment : payment'[p] = payment[p] \/ payment'[p] = NoPayment
  BY <1>1, <1>9 DEF RemoveCourtWrite
<1>10. QED
  BY <1>3, <1>4, <1>5, <1>6, <1>7, <1>8, <1>9
     DEF Next, Desk, Customer, Sweeper, QuickBook, Block, UpdateRead, UpdateWrite, CancelRead,
         RemoveCourtRead, ConfirmRead, ConfirmWrite, DeadlinePasses, SweepList, SweepCount,
         SweepAbort, vars

\* What is more than a hold never becomes a hold again.
LEMMA SoldStep ==
  ASSUME IInv, [Next]_vars, NEW b \in Booking, reservation[b].status \notin {"unused", "held"}
  PROVE  reservation'[b].status \notin {"unused", "held"}
<1>0. TypeOK
  BY DEF IInv
<1>1. ASSUME NEW c \in Booking, NEW s \in Slot, QuickBook(c, s) \/ Block(c, s)
      PROVE  reservation'[b].status \notin {"unused", "held"}
  BY <1>0, <1>1 DEF QuickBook, Block, TypeOK
<1>2. ASSUME NEW r \in Request, UpdateWrite(r)
      PROVE  reservation'[b].status \notin {"unused", "held"}
  <2>1. inflight[r].booking \in Booking /\ inflight[r].to \notin {"unused", "held"}
    BY <1>0, <1>2, InFlightBooking DEF UpdateWrite, IInv, UpdatesAreOfBookings
  <2>2. QED
    BY <1>0, <1>2, <2>1 DEF UpdateWrite, TypeOK, Row
<1>3. ASSUME NEW r \in Request, CancelWrite(r) \/ ConfirmWrite(r)
      PROVE  reservation'[b].status \notin {"unused", "held"}
  BY <1>0, <1>3, InFlightBooking DEF CancelWrite, ConfirmWrite, TypeOK, Row
<1>4. ASSUME NEW c \in Booking, RemoveBlock(c) \/ Release(c) \/ DeadlinePasses(c)
      PROVE  reservation'[b].status \notin {"unused", "held"}
  BY <1>0, <1>4 DEF RemoveBlock, Release, DeadlinePasses, TypeOK, Row, GoneRow, NoRow
<1>5. ASSUME NEW c \in Booking, NEW s \in Slot, Hold(c, s)
      PROVE  reservation'[b].status \notin {"unused", "held"}
  BY <1>0, <1>5 DEF Hold, GoneRow, NoRow
<1>6. ASSUME SweepCommit
      PROVE  reservation'[b].status \notin {"unused", "held"}
  BY <1>0, <1>6 DEF SweepCommit, TypeOK, Row, GoneRow, NoRow
<1>7. ASSUME NEW r \in Request, RemoveCourtWrite(r)
      PROVE  reservation'[b].status \notin {"unused", "held"}
  BY <1>0, <1>7 DEF RemoveCourtWrite, GoneRow, NoRow
<1>8. QED
  BY <1>1, <1>2, <1>3, <1>4, <1>5, <1>6, <1>7
     DEF Next, Desk, Customer, Sweeper, UpdateRead, CancelRead, RecordPayment, RemovePayment,
         RemoveCourtRead, ConfirmRead, SweepList, SweepCount, SweepAbort, vars

\* The webhook confirms a hold of its own slot, or leaves the table alone.
LEMMA ApplyRows ==
  ASSUME Placed, NEW w \in Webhook, Apply(w)
  PROVE  \/ UNCHANGED reservation
         \/ \E b \in Booking :
              /\ reservation[b].status = "held"
              /\ reservation'[b] = Confirmed(reservation[b])
              /\ \A c \in Booking \ {b} : reservation'[c] = reservation[c]
<1> DEFINE b == hook[w].booking
<1>1. b \in Booking
  BY HookTypes DEF Placed, Apply
<1>2. \/ UNCHANGED reservation
      \/ /\ reservation[b].status = "held"
         /\ reservation' = [reservation EXCEPT ![b] = Confirmed(@)]
  BY DEF Apply
<1> HIDE DEF b
<1>3. QED
  BY <1>1, <1>2 DEF Placed, CheckoutTypeOK, TypeOK

\* A customer's cancellation cancels one booking at most.
LEMMA CancelOwnRows ==
  ASSUME Placed, NEW q \in Session, CancelOwnCommit(q)
  PROVE  \A b \in Booking :
           \/ reservation'[b] = reservation[b]
           \/ /\ Exists(b)
              /\ reservation'[b] = [reservation[b] EXCEPT !.status = "cancelled"]
BY OwnTypes DEF Placed, CheckoutTypeOK, TypeOK, CancelOwnCommit

\* Every step of online payment keeps what is proved of the table.
LEMMA TableStep == Placed /\ IInv /\ [CheckoutNext]_checkoutVars => IInv'
<1> SUFFICES ASSUME Placed, IInv, [CheckoutNext]_checkoutVars PROVE IInv'
  OBVIOUS
<1>0. TypeOK /\ TypeOK'
  BY PlacedStep DEF Placed, CheckoutTypeOK
<1>1. CASE BookingStep
  BY <1>1, IInvStep DEF BookingStep
<1>2. ASSUME NEW w \in Webhook, Apply(w) PROVE IInv'
  <2>1. inflight' = inflight
    BY <1>2 DEF Apply
  <2>2. CASE UNCHANGED reservation
    BY <1>0, <2>1, <2>2, RowsUntouched
  <2>3. ASSUME NEW b \in Booking, reservation[b].status = "held",
               reservation'[b] = Confirmed(reservation[b]),
               \A c \in Booking \ {b} : reservation'[c] = reservation[c]
        PROVE  IInv'
    <3>1. reservation[b].kind = "booking" /\ reservation[b].slot \in Slot
      BY <1>0, <2>3 DEF IInv, RowsPassChecks, TypeOK, Row
    <3>2. /\ reservation'[b].kind = "booking"
          /\ reservation'[b].status = "confirmed"
          /\ reservation'[b].slot = reservation[b].slot
      BY <1>0, <2>3, <3>1 DEF Confirmed, TypeOK, Row
    <3>3. \A c \in Booking \ {b} : reservation'[c].status \in Occupying
            => reservation'[c].slot \cap reservation'[b].slot = {}
      BY <2>3, <3>2 DEF IInv, NoDoubleBooking, Occupies, Occupying
    <3>4. QED
      BY <1>0, <2>1, <2>3, <3>1, <3>2, <3>3, RowEnters DEF BookingStatus
  <2>4. QED
    BY <1>2, <2>2, <2>3, ApplyRows
<1>3. ASSUME NEW q \in Session, CancelOwnCommit(q) PROVE IInv'
  BY <1>0, <1>3, CancelOwnRows, RowsLeave DEF CancelOwnCommit
<1>4. CASE UNCHANGED vars
  BY <1>0, <1>4, RowsUntouched DEF vars
<1>5. QED
  BY <1>1, <1>2, <1>3, <1>4
     DEF CheckoutNext, StartSteps, CreateOrder, InsertIntent, StartFails, GatewaySteps, Pay,
         WebhookSteps, StoreEvent, ReadIntent, FailIntent, LoadReservation, ApplyFails, AskBack,
         RecordAskedBack, HookDies, CancelOwnSteps, CancelOwnRead, CancelOwnRefund,
         CancelOwnFails, checkoutVars

LEMMA TableInit == CheckoutInit => IInv
BY InitIInv DEF CheckoutInit

\* Payments, webhooks and customers' cancellations do not let two reservations
\* onto one court either, whatever happens at the gateway.
THEOREM PaidCourtsNeverDoubleBooked == CheckoutSpec => []NoDoubleBooking
<1>1. IInv => NoDoubleBooking
  BY DEF IInv
<1>2. QED
  BY PlacedInit, PlacedStep, TableInit, TableStep, <1>1, PTL DEF CheckoutSpec

\* The court market is kept too: a webhook makes a hold firm, a cancellation
\* gives a court up, and no payment hands a sold court to somebody else.
THEOREM CheckoutImplementsMarket == CheckoutSpec => MarketSpec
<1>1. CheckoutInit => Market!Init
  BY DEF CheckoutInit, Init, Market!Init, Owner, Occupies, Occupying, NoRow, Nobody
<1>2. ASSUME Placed, IInv, IInv', [CheckoutNext]_checkoutVars PROVE Market!Next
  <2>0. TypeOK
    BY <1>2 DEF IInv
  <2>1. CASE [Next]_vars
    BY <1>2, <2>1, StepIsMarketStep
  <2>2. ASSUME NEW w \in Webhook, Apply(w) PROVE Market!Next
    <3>1. CASE UNCHANGED reservation
      BY <1>2, <2>0, <3>1, LeavingIsGiveUp DEF Occupies, WillOccupy, Occupying
    <3>2. ASSUME NEW b \in Booking, reservation[b].status = "held",
                 reservation'[b] = Confirmed(reservation[b]),
                 \A c \in Booking \ {b} : reservation'[c] = reservation[c]
          PROVE  Market!Next
      <4>1. /\ reservation'[b].status \in FirmStatus
            /\ reservation'[b].slot = reservation[b].slot
        BY <2>0, <3>2 DEF Confirmed, TypeOK, Row, FirmStatus, Occupying
      <4>2. QED
        BY <1>2, <3>2, <4>1, ConfirmingIsMakeFirm
    <3>3. QED
      BY <1>2, <2>2, <3>1, <3>2, ApplyRows
  <2>3. ASSUME NEW q \in Session, CancelOwnCommit(q) PROVE Market!Next
    <3>1. \A b \in Booking :
            reservation'[b] \in {reservation[b], [reservation[b] EXCEPT !.status = "cancelled"]}
      BY <1>2, <2>3, CancelOwnRows
    <3>2. QED
      BY <1>2, <2>0, <3>1, LeavingIsGiveUp DEF Occupies, WillOccupy, Occupying, TypeOK, Row
  <2>4. QED
    BY <1>2, <2>1, <2>2, <2>3
       DEF CheckoutNext, BookingStep, StartSteps, CreateOrder, InsertIntent, StartFails,
           GatewaySteps, Pay, WebhookSteps, StoreEvent, ReadIntent, FailIntent, LoadReservation,
           ApplyFails, AskBack, RecordAskedBack, HookDies, CancelOwnSteps, CancelOwnRead,
           CancelOwnRefund, CancelOwnFails, checkoutVars, vars
<1>3. Placed /\ IInv /\ IInv' /\ [CheckoutNext]_checkoutVars => [Market!Next]_(Market!vars)
  BY <1>2
<1>4. QED
  BY PlacedInit, PlacedStep, TableInit, TableStep, <1>1, <1>3, PTL
     DEF CheckoutSpec, MarketSpec, Market!Spec

---------------------------------------------------------------------------
\* The money.

\* A delivery that is being handled is of an event that is stored, and no
\* other delivery handles that event.
HandledOnce ==
  /\ \A w \in Webhook : hook[w] # Resting => hook[w].attempt \in received
  /\ \A w, v \in Webhook :
       w # v /\ hook[w] # Resting /\ hook[v] # Resting => hook[w].attempt # hook[v].attempt

\* A payment that is about to be booked was captured, and not found short.
JudgedFirst == \A w \in Webhook :
  /\ hook[w].phase \in {"matched", "loaded"} => ~Short(hook[w].attempt)
  /\ hook[w].phase = "loaded" => attempt[hook[w].attempt].outcome = "captured"

\* A row that is free has no origin.
OpenLedger == \A p \in Payment : payment[p] = NoPayment => origin[p] = "none"

Finished(a) == a \in received /\ \A w \in Webhook : hook[w] # Resting => hook[w].attempt # a

\* Money is on the books when its event is done with, and not before; it was
\* captured, in full unless its event named no amount, and not asked back, and it is on the books once.
BookedIsDone == \A a \in Attempt, p \in Payment : Books(p, a) =>
  /\ Finished(a)
  /\ attempt[a].outcome = "captured"
  /\ attempt[a].paid >= Price \/ attempt[a].event = "bare"
  /\ attempt[a].asked = 0

\* Booked money is against a booking that was more than a hold.
BookedIsSold == \A a \in Attempt, p \in Payment : Books(p, a) =>
  /\ payment[p].booking \in Booking
  /\ reservation[payment[p].booking].status \notin {"unused", "held"}

\* Money that was asked back is of an event that nobody can book any more.
AskedIsDone == \A a \in Attempt : attempt[a].asked # 0 =>
  /\ a \in received
  /\ \A w \in Webhook : hook[w] # Resting /\ hook[w].attempt = a => hook[w].phase = "asked"

\* The inductive invariant of the money.
MoneyInv ==
  /\ HandledOnce
  /\ JudgedFirst
  /\ OpenLedger
  /\ BookedIsDone
  /\ BookedIsSold
  /\ AskedIsDone
  /\ RecordedOnce

\* What a gateway attempt was, and what its event says of it.
SameEvent(a) ==
  /\ attempt'[a].outcome = attempt[a].outcome
  /\ attempt'[a].paid = attempt[a].paid
  /\ attempt'[a].event = attempt[a].event

LEMMA MoneyInit == CheckoutInit => MoneyInv
BY NoneAssumption DEF CheckoutInit, MoneyInv, HandledOnce, JudgedFirst, OpenLedger, BookedIsDone,
   BookedIsSold, AskedIsDone, RecordedOnce, Books, Resting, NoAttempt

\* A step that books nothing and starts on no event.
LEMMA NothingBooked ==
  ASSUME Placed, MoneyInv, received' = received,
         \A w \in Webhook :
           \/ hook'[w] = Resting
           \/ hook[w] # Resting /\ hook'[w].attempt = hook[w].attempt,
         \A a \in Attempt : attempt[a].outcome # "none" =>
           SameEvent(a),
         \A a \in Attempt : attempt'[a].asked = attempt[a].asked
           \/ \E w \in Webhook : hook[w] # Resting /\ hook[w].attempt = a,
         \A p \in Payment, a \in Attempt : Books(p, a)' => Books(p, a)
  PROVE  HandledOnce' /\ BookedIsDone' /\ RecordedOnce'
<1>1. HandledOnce'
  BY DEF MoneyInv, HandledOnce
<1>2. RecordedOnce'
  BY DEF MoneyInv, RecordedOnce
<1>3. ASSUME NEW a \in Attempt, NEW p \in Payment, Books(p, a)
      PROVE  /\ Finished(a)'
             /\ attempt'[a].outcome = "captured"
             /\ attempt'[a].paid >= Price \/ attempt'[a].event = "bare"
             /\ attempt'[a].asked = 0
  <2>1. /\ Finished(a)
        /\ attempt[a].outcome = "captured"
        /\ attempt[a].paid >= Price \/ attempt[a].event = "bare"
        /\ attempt[a].asked = 0
    BY <1>3 DEF MoneyInv, BookedIsDone
  <2>2. QED
    BY <2>1 DEF Finished, SameEvent
<1>4. BookedIsDone'
  BY <1>3 DEF BookedIsDone
<1>5. QED
  BY <1>1, <1>2, <1>4

\* What is being handled is judged the same when only the rest changes.
LEMMA StillJudged ==
  ASSUME Placed, MoneyInv, hook' = hook,
         \A a \in Attempt : attempt[a].outcome # "none" =>
           SameEvent(a)
  PROVE  JudgedFirst'
BY HookTypes DEF SameEvent, Placed, HooksPlaced, MoneyInv, JudgedFirst, Short, Resting

\* A step outside the webhook that leaves the tables alone.
LEMMA Aside ==
  ASSUME Placed, MoneyInv, UNCHANGED <<vars, received, hook, origin>>,
         \A a \in Attempt :
           /\ attempt[a].outcome # "none" =>
                SameEvent(a)
           /\ attempt'[a].asked = attempt[a].asked
  PROVE  MoneyInv'
<1>1. \A p \in Payment, a \in Attempt : Books(p, a)' <=> Books(p, a)
  BY DEF Books, vars
<1>2. HandledOnce' /\ BookedIsDone' /\ RecordedOnce'
  BY <1>1, NothingBooked
<1>3. JudgedFirst'
  BY StillJudged
<1>4. OpenLedger' /\ BookedIsSold' /\ AskedIsDone'
  BY <1>1 DEF vars, MoneyInv, OpenLedger, BookedIsSold, AskedIsDone
<1>5. QED
  BY <1>2, <1>3, <1>4 DEF MoneyInv

\* A step of a delivery that books nothing.
LEMMA WebhookMoves ==
  ASSUME Placed, MoneyInv, NEW w \in Webhook, NEW state,
         UNCHANGED <<vars, received, origin>>, hook[w] # Resting, Goto(w, state),
         \/ state = Resting
         \/ /\ state # Resting /\ state.attempt = hook[w].attempt
            /\ state.phase \in {"matched", "loaded"} => ~Short(hook[w].attempt)
            /\ state.phase = "loaded" => attempt[hook[w].attempt].outcome = "captured"
            /\ hook[w].phase = "asked" => state.phase = "asked",
         \/ UNCHANGED attempt
         \/ /\ state # Resting /\ state.phase = "asked"
            /\ \A a \in Attempt :
                 /\ SameEvent(a)
                 /\ a # hook[w].attempt => attempt'[a].asked = attempt[a].asked
  PROVE  MoneyInv'
<1>1. \A p \in Payment, a \in Attempt : Books(p, a)' <=> Books(p, a)
  BY DEF Books, vars
<1>2. /\ hook'[w] = state
      /\ \A v \in Webhook \ {w} : hook'[v] = hook[v]
  BY DEF Placed, CheckoutTypeOK, Goto
<1>3. HandledOnce' /\ BookedIsDone' /\ RecordedOnce'
  BY <1>1, <1>2, NothingBooked DEF SameEvent
<1>4. \A a \in Attempt :
        SameEvent(a)
  BY DEF SameEvent
<1>5. hook[w].attempt \in Attempt
  BY DEF Placed, HooksPlaced
<1>6. JudgedFirst'
  BY <1>2, <1>4, <1>5, HookTypes
     DEF SameEvent, Placed, HooksPlaced, MoneyInv, JudgedFirst, Short, Resting
<1>7. AskedIsDone'
  BY <1>2, <1>5 DEF MoneyInv, AskedIsDone, HandledOnce
<1>8. OpenLedger' /\ BookedIsSold'
  BY <1>1 DEF vars, MoneyInv, OpenLedger, BookedIsSold
<1>9. QED
  BY <1>3, <1>6, <1>7, <1>8 DEF MoneyInv

\* Every step keeps the money straight.
LEMMA MoneyStep == Placed /\ IInv /\ MoneyInv /\ [CheckoutNext]_checkoutVars => MoneyInv'
<1> SUFFICES ASSUME Placed, IInv, MoneyInv, [CheckoutNext]_checkoutVars PROVE MoneyInv'
  OBVIOUS
<1>0. CheckoutTypeOK /\ CheckoutTypeOK' /\ TypeOK
  BY PlacedStep DEF Placed, CheckoutTypeOK
<1>1. CASE BookingStep
  <2>1. /\ UNCHANGED <<attempt, received, hook>>
        /\ [Next]_vars
        /\ \A p \in Payment : origin'[p] = IF payment'[p] = NoPayment THEN "none" ELSE origin[p]
    BY <1>1 DEF BookingStep
  <2>2. \A p \in Payment :
          payment'[p] = payment[p] \/ payment'[p] = NoPayment \/ payment[p] = NoPayment
    BY <1>0, <2>1, LedgerStep
  <2>3. OpenLedger'
    BY <2>1 DEF OpenLedger
  <2>4. ASSUME NEW p \in Payment, NEW a \in Attempt, Books(p, a)'
        PROVE  payment'[p] = payment[p] /\ Books(p, a)
    BY <2>1, <2>2, <2>4, NoneAssumption DEF Books, MoneyInv, OpenLedger
  <2>5. BookedIsSold'
    BY <2>1, <2>4, SoldStep DEF MoneyInv, BookedIsSold
  <2>6. HandledOnce' /\ BookedIsDone' /\ RecordedOnce'
    BY <2>1, <2>4, NothingBooked DEF SameEvent
  <2>7. JudgedFirst' /\ AskedIsDone'
    BY <2>1, StillJudged DEF SameEvent, MoneyInv, AskedIsDone
  <2>8. QED
    BY <2>3, <2>5, <2>6, <2>7 DEF MoneyInv
<1>2. CASE StartSteps
  BY <1>2, Aside DEF StartSteps, CreateOrder, InsertIntent, StartFails, SameEvent
<1>3. ASSUME NEW a \in Attempt, NEW o \in Order, NEW outcome \in {"captured", "failed"},
             NEW sum \in Sum, NEW event \in {"named", "bare"}, Pay(a, o, outcome, sum, event)
      PROVE  MoneyInv'
  <2>1. /\ attempt[a] = NoAttempt
        /\ attempt'[a].asked = 0
        /\ \A c \in Attempt \ {a} : attempt'[c] = attempt[c]
    BY <1>0, <1>3 DEF Pay, CheckoutTypeOK, NoAttempt
  <2>2. QED
    BY <1>3, <2>1, Aside DEF Pay, NoAttempt, SameEvent
<1>4. ASSUME NEW w \in Webhook, NEW a \in Attempt, StoreEvent(w, a) PROVE MoneyInv'
  <2>1. /\ hook[w] = Resting /\ a \notin received
        /\ attempt[a].outcome # "none"
        /\ received' = received \cup {a}
        /\ hook'[w] = [phase |-> "stored", attempt |-> a]
        /\ \A v \in Webhook \ {w} : hook'[v] = hook[v]
        /\ UNCHANGED <<reservation, payment, attempt, origin>>
    BY <1>0, <1>4 DEF StoreEvent, FirstTime, Goto, CheckoutTypeOK, vars
  <2>2. \A p \in Payment, c \in Attempt : Books(p, c)' <=> Books(p, c)
    BY <2>1 DEF Books
  <2>3. HandledOnce'
    BY <2>1 DEF MoneyInv, HandledOnce
  <2>4. JudgedFirst'
    BY <2>1 DEF MoneyInv, JudgedFirst, Short
  <2>5. BookedIsDone'
    BY <2>1, <2>2 DEF MoneyInv, BookedIsDone, Finished
  <2>6. AskedIsDone'
    BY <2>1 DEF MoneyInv, AskedIsDone
  <2>7. OpenLedger' /\ BookedIsSold' /\ RecordedOnce'
    BY <2>1, <2>2 DEF MoneyInv, OpenLedger, BookedIsSold, RecordedOnce
  <2>8. QED
    BY <2>3, <2>4, <2>5, <2>6, <2>7 DEF MoneyInv
<1>5. ASSUME NEW w \in Webhook, ReadIntent(w) PROVE MoneyInv'
  <2> DEFINE a == hook[w].attempt
             late == [phase |-> "late", attempt |-> a]
             matched == [phase |-> "matched", attempt |-> a, seen |-> intent[attempt[a].order]]
  <2>1. /\ hook[w].phase = "stored" /\ hook[w] # Resting
        /\ UNCHANGED <<vars, received, origin, attempt>>
        /\ Short(a) => Goto(w, late)
        /\ ~Short(a) => Goto(w, matched)
    BY <1>5 DEF ReadIntent, Resting
  <2>2. late # Resting /\ matched # Resting
    BY DEF Resting
  <2>3. CASE Short(a)
    BY <2>1, <2>2, <2>3, WebhookMoves
  <2>4. CASE ~Short(a)
    BY <2>1, <2>2, <2>4, WebhookMoves
  <2>5. QED
    BY <2>3, <2>4
<1>6. ASSUME NEW w \in Webhook,
             FailIntent(w) \/ ApplyFails(w) \/ RecordAskedBack(w) \/ HookDies(w)
      PROVE  MoneyInv'
  <2>1. Goto(w, Resting) /\ UNCHANGED <<vars, received, origin, attempt>>
    BY <1>6 DEF FailIntent, ApplyFails, RecordAskedBack, HookDies, Done
  <2>2. hook[w] # Resting
    BY <1>0, <1>6, HookTypes DEF FailIntent, ApplyFails, RecordAskedBack, HookDies
  <2>3. QED
    BY <2>1, <2>2, WebhookMoves
<1>7. ASSUME NEW w \in Webhook, LoadReservation(w) PROVE MoneyInv'
  <2> DEFINE a == hook[w].attempt
             late == [phase |-> "late", attempt |-> a]
             loaded == [phase |-> "loaded", attempt |-> a, booking |-> hook[w].seen.booking]
  <2>1. /\ hook[w].phase = "matched" /\ hook[w] # Resting
        /\ attempt[a].outcome = "captured"
        /\ UNCHANGED <<vars, received, origin, attempt>>
        /\ Goto(w, Resting) \/ Goto(w, late) \/ Goto(w, loaded)
    BY <1>7 DEF LoadReservation, Resting
  <2>2. ~Short(a)
    BY <2>1 DEF MoneyInv, JudgedFirst
  <2>3. late # Resting /\ loaded # Resting
    BY DEF Resting
  <2>4. CASE Goto(w, Resting)
    BY <2>1, <2>4, WebhookMoves
  <2>5. CASE Goto(w, late)
    BY <2>1, <2>3, <2>5, WebhookMoves
  <2>6. CASE Goto(w, loaded)
    BY <2>1, <2>2, <2>3, <2>6, WebhookMoves
  <2>7. QED
    BY <2>1, <2>4, <2>5, <2>6
<1>8. ASSUME NEW w \in Webhook, NEW answer, AskBack(w, answer) PROVE MoneyInv'
  <2> DEFINE a == hook[w].attempt
             asked == [phase |-> "asked", attempt |-> a]
  <2>1. /\ hook[w].phase = "late" /\ hook[w] # Resting
        /\ UNCHANGED <<vars, received, origin>>
        /\ Goto(w, asked)
        /\ attempt' = [attempt EXCEPT ![a] = [Refunded(a, Price, answer) EXCEPT !.asked = Price]]
    BY <1>8 DEF AskBack, Resting
  <2>2. a \in Attempt /\ Price \in Nat
    BY <1>0, <2>1, HookTypes, PriceAssumption, AmountAssumption
  <2>3. \A c \in Attempt :
          /\ SameEvent(c)
          /\ c # a => attempt'[c].asked = attempt[c].asked
    <3>1. attempt'[a] = [Refunded(a, Price, answer) EXCEPT !.asked = Price]
      BY <1>0, <2>1, <2>2 DEF CheckoutTypeOK
    <3>2. \A c \in Attempt \ {a} : attempt'[c] = attempt[c]
      BY <1>0, <2>1, <2>2 DEF CheckoutTypeOK
    <3>3. Refunded(a, Price, answer) \in AttemptState
      BY <1>0, <2>2, RefundedType
    <3>4. QED
      BY <1>0, <2>2, <3>1, <3>2, <3>3, RefundedType DEF SameEvent, AttemptState
  <2>4. asked # Resting
    BY DEF Resting
  <2>5. QED
    BY <2>1, <2>3, <2>4, WebhookMoves
<1>9. ASSUME NEW w \in Webhook, Apply(w) PROVE MoneyInv'
  <2>1. hook[w].attempt \in Attempt /\ hook[w].booking \in Booking
    BY <1>0, <1>9, HookTypes DEF Apply
  <2>2. PICK a \in Attempt, b \in Booking : a = hook[w].attempt /\ b = hook[w].booking
    BY <2>1
  <2>3. PICK q \in Payment :
          /\ payment[q] = NoPayment
          /\ payment' = Insert(q, b, "in", Price)
          /\ origin' = [origin EXCEPT ![q] = a]
    BY <1>9, <2>2 DEF Apply
  <2>4. /\ hook[w] # Resting /\ hook[w].phase = "loaded"
        /\ UNCHANGED <<attempt, received>>
        /\ hook' = [hook EXCEPT ![w] = Resting]
        /\ Exists(b)
        /\ \/ reservation[b].status # "held" /\ reservation' = reservation
           \/ reservation' = [reservation EXCEPT ![b] = Confirmed(@)]
    <3>1. hook[w].phase = "loaded" /\ UNCHANGED <<attempt, received>> /\ Done(w)
      BY <1>9 DEF Apply
    <3>2. /\ Exists(b)
          /\ \/ reservation[b].status # "held" /\ reservation' = reservation
             \/ reservation' = [reservation EXCEPT ![b] = Confirmed(@)]
      BY <1>9, <2>2 DEF Apply
    <3>3. QED
      BY <3>1, <3>2 DEF Done, Goto, Resting
  <2>5. /\ a \in Attempt /\ b \in Booking /\ a \in received
        /\ attempt[a].outcome = "captured" /\ ~Short(a)
        /\ \A v \in Webhook \ {w} : hook[v] # Resting => hook[v].attempt # a
    BY <2>2, <2>4 DEF MoneyInv, JudgedFirst, HandledOnce
  <2>6. \A p \in Payment : ~Books(p, a)
    BY <2>2, <2>4, <2>5 DEF MoneyInv, BookedIsDone, Finished
  <2>7. attempt[a].asked = 0
    BY <2>2, <2>4, <2>5 DEF MoneyInv, AskedIsDone
  <2>8. attempt[a].paid >= Price \/ attempt[a].event = "bare"
    <3>1. attempt[a] \in AttemptState
      BY <1>0, <2>5 DEF CheckoutTypeOK
    <3>2. attempt[a].paid \in Sum \cup {0}
      BY <3>1 DEF AttemptState
    <3>3. Sum \cup {0} \subseteq Int /\ Price \in Int
      BY PriceAssumption, AmountAssumption
    <3>4. QED
      BY <2>5, <3>2, <3>3 DEF Short
  <2>9. /\ hook'[w] = Resting
        /\ \A v \in Webhook \ {w} : hook'[v] = hook[v]
    BY <1>0, <2>4 DEF CheckoutTypeOK
  <2>10. /\ reservation'[b].status \notin {"unused", "held"}
        /\ \A c \in Booking \ {b} : reservation'[c] = reservation[c]
    <3>1. CASE reservation[b].status # "held" /\ reservation' = reservation
      BY <2>4, <3>1 DEF Exists, LiveStatus, BookingStatus
    <3>2. CASE reservation' = [reservation EXCEPT ![b] = Confirmed(@)]
      <4>1. reservation[b] \in Row /\ reservation'[b] = Confirmed(reservation[b])
        BY <1>0, <2>5, <3>2 DEF TypeOK
      <4>2. reservation'[b].status = "confirmed"
        BY <4>1 DEF Confirmed, Row
      <4>3. QED
        BY <1>0, <2>5, <3>2, <4>2 DEF TypeOK
    <3>3. QED
      BY <2>4, <3>1, <3>2
  <2>11. \A c \in Booking : reservation[c].status \notin {"unused", "held"}
          => reservation'[c].status \notin {"unused", "held"}
    BY <2>10
  <2>12. /\ payment'[q] = [booking |-> b, direction |-> "in", amount |-> Price]
         /\ origin'[q] = a
         /\ \A p \in Payment \ {q} : payment'[p] = payment[p] /\ origin'[p] = origin[p]
    BY <1>0, <2>3 DEF Insert, CheckoutTypeOK, TypeOK
  <2>13. \A p \in Payment, c \in Attempt : Books(p, c)' <=> (p = q /\ c = a) \/ (p # q /\ Books(p, c))
    BY <2>12 DEF Books
  <2>14. HandledOnce' /\ JudgedFirst'
    BY <2>4, <2>9 DEF MoneyInv, HandledOnce, JudgedFirst, Short, Resting
  <2>15. OpenLedger'
    BY <2>12 DEF MoneyInv, OpenLedger, NoPayment
  <2>16. BookedIsDone'
    <3>1. ASSUME NEW c \in Attempt, Finished(c) PROVE Finished(c)'
      <4>1. c \in received'
        BY <2>4, <3>1 DEF Finished
      <4>2. ASSUME NEW v \in Webhook, hook'[v] # Resting PROVE hook'[v].attempt # c
        BY <2>9, <3>1, <4>2 DEF Finished
      <4>3. QED
        BY <4>1, <4>2 DEF Finished, Resting
    <3>2. Finished(a)'
      <4>1. a \in received'
        BY <2>4, <2>5
      <4>2. ASSUME NEW v \in Webhook, hook'[v] # Resting PROVE hook'[v].attempt # a
        BY <2>5, <2>9, <4>2
      <4>3. QED
        BY <4>1, <4>2 DEF Finished, Resting
    <3>3. QED
      BY <2>4, <2>5, <2>7, <2>8, <2>13, <3>1, <3>2 DEF MoneyInv, BookedIsDone
  <2>17. BookedIsSold'
    BY <2>5, <2>10, <2>11, <2>12, <2>13 DEF MoneyInv, BookedIsSold
  <2>18. AskedIsDone'
    BY <2>4, <2>9 DEF MoneyInv, AskedIsDone
  <2>19. RecordedOnce'
    BY <2>6, <2>13 DEF MoneyInv, RecordedOnce
  <2>20. QED
    BY <2>14, <2>15, <2>16, <2>17, <2>18, <2>19 DEF MoneyInv
<1>10. ASSUME NEW q \in Session, CancelOwnRefund(q) PROVE MoneyInv'
  <2>1. /\ UNCHANGED <<vars, received, hook, origin>>
        /\ \/ UNCHANGED attempt
           \/ /\ own[q].refund > 0
              /\ \E o \in Order :
                   /\ intent[o].status = "paid"
                   /\ \E answer \in RefundAnswers(intent[o].pay, own[q].refund) :
                        attempt' = [attempt EXCEPT ![intent[o].pay] =
                                      Refunded(intent[o].pay, own[q].refund, answer)]
    BY <1>10 DEF CancelOwnRefund
  <2>2. own[q].refund \in Nat
    BY <1>0, <1>10, OwnTypes, AmountAssumption DEF CancelOwnRefund
  <2>3. ASSUME NEW o \in Order, intent[o].status = "paid", NEW answer,
               attempt' = [attempt EXCEPT ![intent[o].pay] =
                             Refunded(intent[o].pay, own[q].refund, answer)]
        PROVE  \A a \in Attempt : /\ SameEvent(a)
                                  /\ attempt'[a].asked = attempt[a].asked
    <3>1. intent[o].pay \in Attempt
      BY <2>3 DEF Placed, IntentsPlaced
    <3>2. QED
      BY <1>0, <2>2, <2>3, <3>1, RefundedType DEF CheckoutTypeOK, SameEvent
  <2>4. QED
    BY <2>1, <2>3, Aside DEF SameEvent
<1>11. ASSUME NEW q \in Session, CancelOwnCommit(q) PROVE MoneyInv'
  <2>1. /\ UNCHANGED <<attempt, received, hook>>
        /\ \/ UNCHANGED <<payment, origin>>
           \/ \E r \in Payment :
                /\ payment[r] = NoPayment
                /\ payment' = Insert(r, own[q].booking, "refund", own[q].refund)
                /\ origin' = [origin EXCEPT ![r] = own[q].pay]
    BY <1>11 DEF CancelOwnCommit
  <2>2. \A p \in Payment :
          \/ payment'[p] = payment[p] /\ origin'[p] = origin[p]
          \/ payment[p] = NoPayment /\ payment'[p].direction = "refund" /\ payment'[p] # NoPayment
    BY <1>0, <2>1 DEF Insert, CheckoutTypeOK, TypeOK, NoPayment
  <2>3. ASSUME NEW p \in Payment, NEW a \in Attempt, Books(p, a)'
        PROVE  payment'[p] = payment[p] /\ Books(p, a)
    BY <2>2, <2>3 DEF Books
  <2>4. HandledOnce' /\ BookedIsDone' /\ RecordedOnce'
    BY <2>1, <2>3, NothingBooked DEF SameEvent
  <2>5. JudgedFirst' /\ AskedIsDone'
    BY <2>1, StillJudged DEF SameEvent, MoneyInv, AskedIsDone
  <2>6. OpenLedger'
    BY <2>2 DEF MoneyInv, OpenLedger
  <2>7. \A b \in Booking : reservation[b].status \notin {"unused", "held"}
          => reservation'[b].status \notin {"unused", "held"}
    <3> SUFFICES ASSUME NEW b \in Booking, reservation[b].status \notin {"unused", "held"}
                 PROVE  reservation'[b].status \notin {"unused", "held"}
      OBVIOUS
    <3>1. reservation[b] \in Row
      BY <1>0 DEF TypeOK
    <3>2. reservation'[b] = reservation[b]
            \/ reservation'[b] = [reservation[b] EXCEPT !.status = "cancelled"]
      BY <1>11, CancelOwnRows
    <3>3. QED
      BY <3>1, <3>2 DEF Row
  <2>8. BookedIsSold'
    BY <2>3, <2>7 DEF MoneyInv, BookedIsSold
  <2>9. QED
    BY <2>4, <2>5, <2>6, <2>8 DEF MoneyInv
<1>12. ASSUME NEW q \in Session, NEW b \in Booking, NEW refund \in Amount \cup {0},
              CancelOwnRead(q, b, refund)
       PROVE  MoneyInv'
  BY <1>12, Aside DEF CancelOwnRead, SameEvent
<1>13. ASSUME NEW q \in Session, CancelOwnFails(q) PROVE MoneyInv'
  BY <1>13, Aside DEF CancelOwnFails, SameEvent
<1>14. CASE UNCHANGED checkoutVars
  BY <1>14, Aside DEF checkoutVars, SameEvent
<1>15. QED
  BY <1>1, <1>2, <1>3, <1>4, <1>5, <1>6, <1>7, <1>8, <1>9, <1>10, <1>11, <1>12, <1>13, <1>14
     DEF CheckoutNext, GatewaySteps, WebhookSteps, CancelOwnSteps

\* However often and in whatever order the gateway delivers its events, and
\* wherever a handler dies, a payment is on the books once at most.
THEOREM PaymentsAreRecordedOnce == CheckoutSpec => []RecordedOnce
<1>1. MoneyInv => RecordedOnce
  BY DEF MoneyInv
<1>2. QED
  BY PlacedInit, PlacedStep, TableInit, TableStep, MoneyInit, MoneyStep, <1>1, PTL
     DEF CheckoutSpec

\* Money that the webhook asked the gateway to send back is not on the books.
THEOREM NeverBookedAndSentBack == CheckoutSpec => []BookedOrSentBack
<1>1. MoneyInv => BookedOrSentBack
  BY DEF MoneyInv, BookedIsDone, BookedOrSentBack
<1>2. QED
  BY PlacedInit, PlacedStep, TableInit, TableStep, MoneyInit, MoneyStep, <1>1, PTL
     DEF CheckoutSpec

\* What is booked was paid in full, unless its event named no amount.
THEOREM ShortPaymentsAreNotBooked == CheckoutSpec => []NoShortPaymentBooked
<1>1. MoneyInv => NoShortPaymentBooked
  BY DEF MoneyInv, BookedIsDone, NoShortPaymentBooked
<1>2. QED
  BY PlacedInit, PlacedStep, TableInit, TableStep, MoneyInit, MoneyStep, <1>1, PTL
     DEF CheckoutSpec

\* Booked money is never against a hold, so whatever deletes only holds cannot
\* take it away.
THEOREM PaidBookingsAreSold == CheckoutSpec => []PaidIsNotHeld
<1>1. MoneyInv => PaidIsNotHeld
  BY DEF MoneyInv, BookedIsSold, PaidIsNotHeld
<1>2. QED
  BY PlacedInit, PlacedStep, TableInit, TableStep, MoneyInit, MoneyStep, <1>1, PTL
     DEF CheckoutSpec

---------------------------------------------------------------------------
\* What was sent back.  The sum over the ledger is a fold; that it grows by one
\* row's amount at a time is shown of a smallest set of rows for which it does
\* not.

\* The sum of LedgerRefundsMoved, over any rows that have an amount.
SumOf(row, S) == MapThenSumSet(LAMBDA p : row[p].amount, S)

OneOf(S) == CHOOSE x \in S : TRUE

\* What holds of every part of a finite set has no smallest exception.
LEMMA SmallestException ==
  ASSUME NEW U, IsFiniteSet(U), NEW Bad \in SUBSET (SUBSET U), Bad # {}
  PROVE  \E S \in Bad : \A T \in SUBSET S : T # S => T \notin Bad
<1>1. IsWellFoundedOn(StrictSubsetOrdering(U), FiniteSubsetsOf(U))
  BY FS_StrictSubsetOrderingWellFounded
<1>2. FiniteSubsetsOf(U) = SUBSET U
  BY FS_FiniteSubsetsOfFinite
<1>3. PICK S \in Bad : \A T \in Bad : ~ (<<T, S>> \in StrictSubsetOrdering(U))
  BY <1>1, <1>2, WFMin
<1>4. ASSUME NEW T \in SUBSET S, T # S, T \in Bad PROVE FALSE
  <2>1. <<T, S>> \in StrictSubsetOrdering(U)
    BY <1>4 DEF StrictSubsetOrdering
  <2>2. QED
    BY <1>3, <1>4, <2>1
<1>5. QED
  BY <1>3, <1>4

\* The fold of SumOf takes one row after another.
LEMMA SumTakesOne ==
  ASSUME NEW row, NEW U, IsFiniteSet(U)
  PROVE  SumOf(row, U) = IF U = {} THEN 0 ELSE row[OneOf(U)].amount + SumOf(row, U \ {OneOf(U)})
<1> DEFINE Step(S, rest) == IF S = {} THEN 0 ELSE row[OneOf(S)].amount + rest
           Bad == {S \in SUBSET U : SumOf(row, S) # Step(S, SumOf(row, S \ {OneOf(S)}))}
<1>1. ASSUME NEW S PROVE S # {} => OneOf(S) \in S
  BY DEF OneOf
<1>2. ASSUME NEW S \in SUBSET U, \A T \in SUBSET S : T # S => T \notin Bad PROVE S \notin Bad
  <2> DEFINE IsFold(f) == f = [s \in SUBSET S |-> Step(s, f[s \ {OneOf(s)}])]
             fold == CHOOSE f : IsFold(f)
  <2>1. SumOf(row, S) = fold[S]
    BY DEF SumOf, MapThenSumSet, MapThenFoldSet, OneOf
  <2>2. \A T \in SUBSET S : T # S => SumOf(row, T) = Step(T, SumOf(row, T \ {OneOf(T)}))
    BY <1>2
  <2> HIDE DEF Step
  <2>3. \E f : IsFold(f)
    <3> DEFINE g == [s \in SUBSET S |-> Step(s, SumOf(row, s \ {OneOf(s)}))]
    <3>1. ASSUME NEW s \in SUBSET S PROVE g[s] = Step(s, g[s \ {OneOf(s)}])
      <4>1. CASE s = {}
        BY <4>1 DEF Step
      <4>2. CASE s # {}
        <5>1. s \ {OneOf(s)} \in SUBSET S /\ s \ {OneOf(s)} # S
          BY <1>1, <4>2
        <5>2. g[s \ {OneOf(s)}] = SumOf(row, s \ {OneOf(s)})
          BY <2>2, <5>1
        <5>3. QED
          BY <5>2
      <4>3. QED
        BY <4>1, <4>2
    <3>2. IsFold(g)
      BY <3>1
    <3>3. QED
      BY <3>2
  <2>4. IsFold(fold)
    BY <2>3
  <2> HIDE DEF fold
  <2>5. \A s \in SUBSET S : fold[s] = Step(s, fold[s \ {OneOf(s)}])
    BY <2>4
  <2>6. \A s \in SUBSET S : s # S => fold[s] = SumOf(row, s)
    <3> DEFINE Odd == {s \in SUBSET S : s # S /\ fold[s] # SumOf(row, s)}
    <3> SUFFICES ASSUME Odd # {} PROVE FALSE
      OBVIOUS
    <3>1. IsFiniteSet(S) /\ Odd \in SUBSET (SUBSET S)
      BY FS_Subset
    <3> HIDE DEF Odd
    <3>2. PICK s \in Odd : \A t \in SUBSET s : t # s => t \notin Odd
      BY <3>1, SmallestException
    <3>3. s \in SUBSET S /\ s # S /\ fold[s] # SumOf(row, s)
      BY <3>2 DEF Odd
    <3>4. CASE s = {}
      BY <2>2, <2>5, <3>3, <3>4 DEF Step
    <3>5. CASE s # {}
      <4>1. s \ {OneOf(s)} \in SUBSET s /\ s \ {OneOf(s)} # s /\ s \ {OneOf(s)} # S
        BY <1>1, <3>3, <3>5
      <4>2. fold[s \ {OneOf(s)}] = SumOf(row, s \ {OneOf(s)})
        BY <3>2, <3>3, <4>1 DEF Odd
      <4>3. QED
        BY <2>2, <2>5, <3>3, <4>2
    <3>6. QED
      BY <3>4, <3>5
  <2>7. SumOf(row, S) = Step(S, SumOf(row, S \ {OneOf(S)}))
    <3>1. CASE S = {}
      BY <2>1, <2>5, <3>1 DEF Step
    <3>2. CASE S # {}
      <4>1. S \ {OneOf(S)} \in SUBSET S /\ S \ {OneOf(S)} # S
        BY <1>1, <3>2
      <4>2. fold[S \ {OneOf(S)}] = SumOf(row, S \ {OneOf(S)})
        BY <2>6, <4>1
      <4>3. QED
        BY <2>1, <2>5, <4>2
    <3>3. QED
      BY <3>1, <3>2
  <2>8. QED
    BY <2>7 DEF Step
<1>3. Bad = {}
  BY <1>2, SmallestException
<1>4. QED
  BY <1>3

LEMMA SumIsNatural ==
  ASSUME NEW row, NEW U, IsFiniteSet(U), \A x \in U : row[x].amount \in Nat
  PROVE  SumOf(row, U) \in Nat
<1> DEFINE Bad == {S \in SUBSET U : SumOf(row, S) \notin Nat}
<1>1. ASSUME NEW S \in SUBSET U, \A T \in SUBSET S : T # S => T \notin Bad PROVE S \notin Bad
  <2>1. SumOf(row, S) = IF S = {} THEN 0 ELSE row[OneOf(S)].amount + SumOf(row, S \ {OneOf(S)})
    BY FS_Subset, SumTakesOne
  <2>2. CASE S = {}
    BY <2>1, <2>2
  <2>3. CASE S # {}
    <3>1. OneOf(S) \in S
      BY <2>3 DEF OneOf
    <3>2. SumOf(row, S \ {OneOf(S)}) \in Nat
      BY <1>1, <3>1
    <3>3. QED
      BY <2>1, <2>3, <3>1, <3>2
  <2>4. QED
    BY <2>2, <2>3
<1>2. Bad = {}
  BY <1>1, SmallestException
<1>3. QED
  BY <1>2

\* Any row can be the one that is taken.
LEMMA SumWithout ==
  ASSUME NEW row, NEW U, IsFiniteSet(U), \A x \in U : row[x].amount \in Nat, NEW y \in U
  PROVE  SumOf(row, U) = row[y].amount + SumOf(row, U \ {y})
<1> DEFINE Bad == {S \in SUBSET U : \E x \in S : SumOf(row, S) # row[x].amount + SumOf(row, S \ {x})}
<1>0. \A S \in SUBSET U : SumOf(row, S) \in Nat
  BY FS_Subset, SumIsNatural
<1>1. ASSUME NEW S \in SUBSET U, \A T \in SUBSET S : T # S => T \notin Bad PROVE S \notin Bad
  <2> SUFFICES ASSUME NEW x \in S PROVE SumOf(row, S) = row[x].amount + SumOf(row, S \ {x})
    OBVIOUS
  <2>1. PICK y1 \in S : y1 = OneOf(S)
    BY DEF OneOf
  <2>2. SumOf(row, S) = row[y1].amount + SumOf(row, S \ {y1})
    BY <2>1, FS_Subset, SumTakesOne
  <2>3. CASE x = y1
    BY <2>2, <2>3
  <2>4. CASE x # y1
    <3>1. SumOf(row, S \ {y1}) = row[x].amount + SumOf(row, (S \ {y1}) \ {x})
      BY <1>1, <2>4
    <3>2. SumOf(row, S \ {x}) = row[y1].amount + SumOf(row, (S \ {x}) \ {y1})
      BY <1>1, <2>4
    <3>3. (S \ {y1}) \ {x} = (S \ {x}) \ {y1}
      OBVIOUS
    <3>4. PICK n \in Nat : n = SumOf(row, (S \ {y1}) \ {x})
      BY <1>0
    <3>5. PICK v \in Nat : v = row[x].amount
      OBVIOUS
    <3>6. PICK w \in Nat : w = row[y1].amount
      OBVIOUS
    <3>7. SumOf(row, S) = w + (v + n)
      BY <2>2, <3>1, <3>4, <3>5, <3>6
    <3>8. SumOf(row, S \ {x}) = w + n
      BY <3>2, <3>3, <3>4, <3>6
    <3>9. QED
      BY <3>5, <3>7, <3>8
  <2>5. QED
    BY <2>3, <2>4
<1>2. Bad = {}
  BY <1>1, SmallestException
<1>3. QED
  BY <1>2

\* Fewer rows of the same amounts are not worth more.
LEMMA SumOfFewer ==
  ASSUME NEW row, NEW U, IsFiniteSet(U), \A x \in U : row[x].amount \in Nat,
         NEW other, NEW V \in SUBSET U, \A x \in V : other[x].amount = row[x].amount
  PROVE  SumOf(other, V) <= SumOf(row, U)
<1> DEFINE Bad == {T \in SUBSET V : \E S \in SUBSET U : T \subseteq S /\ ~(SumOf(other, T) <= SumOf(row, S))}
<1>1. ASSUME NEW T \in SUBSET V, \A R \in SUBSET T : R # T => R \notin Bad PROVE T \notin Bad
  <2> SUFFICES ASSUME NEW S \in SUBSET U, T \subseteq S PROVE SumOf(other, T) <= SumOf(row, S)
    OBVIOUS
  <2>1. IsFiniteSet(S) /\ IsFiniteSet(T)
    BY FS_Subset
  <2>2. SumOf(row, S) \in Nat
    BY <2>1, SumIsNatural
  <2>3. CASE T = {}
    <3>1. SumOf(other, T) = 0
      BY <2>1, <2>3, SumTakesOne
    <3>2. QED
      BY <2>2, <3>1
  <2>4. CASE T # {}
    <3>1. PICK x : x \in T
      BY <2>4
    <3>2. SumOf(row, S) = row[x].amount + SumOf(row, S \ {x})
      BY <2>1, <3>1, SumWithout
    <3>3. \A z \in T : other[z].amount \in Nat
      OBVIOUS
    <3>4. SumOf(other, T) = other[x].amount + SumOf(other, T \ {x})
      BY <2>1, <3>1, <3>3, SumWithout
    <3>5. SumOf(other, T \ {x}) <= SumOf(row, S \ {x})
      BY <1>1, <3>1
    <3>6. SumOf(other, T \ {x}) \in Nat
      <4>1. IsFiniteSet(T \ {x})
        BY <2>1, FS_Subset
      <4>2. QED
        BY <3>3, <4>1, SumIsNatural
    <3>7. SumOf(row, S \ {x}) \in Nat
      <4>1. IsFiniteSet(S \ {x})
        BY <2>1, FS_Subset
      <4>2. QED
        BY <4>1, SumIsNatural
    <3>8. row[x].amount \in Nat /\ other[x].amount = row[x].amount
      BY <3>1
    <3>9. QED
      BY <3>2, <3>4, <3>5, <3>6, <3>7, <3>8
  <2>5. QED
    BY <2>3, <2>4
<1>2. IsFiniteSet(V) /\ Bad \in SUBSET (SUBSET V)
  BY FS_Subset
<1>3. Bad = {}
  <2> HIDE DEF Bad
  <2>1. QED
    BY <1>1, <1>2, SmallestException
<1>4. V \in SUBSET V /\ U \in SUBSET U /\ V \subseteq U
  OBVIOUS
<1>5. QED
  BY <1>3, <1>4

\* The refunds of an attempt in the ledger, and those that a cancellation in
\* flight is about to write there.
LedgerRefunds(a) == {p \in Payment : origin[p] = a /\ payment[p].direction = "refund"}
Pending(a) == {q \in Session : own[q].phase = "refunding" /\ own[q].issued /\ own[q].pay = a}
PendingRow == [q \in Session |-> [amount |-> IF own[q].phase = "refunding" THEN own[q].refund ELSE 0]]

\* The gateway has sent what both come to.
Covered(a) ==
  /\ IsFiniteSet(LedgerRefunds(a)) /\ IsFiniteSet(Pending(a))
  /\ SumOf(payment, LedgerRefunds(a)) + SumOf(PendingRow, Pending(a)) <= attempt[a].returned

RefundsInv == \A a \in Attempt : Covered(a)

LEMMA RefundAmounts ==
  ASSUME Placed, NEW a \in Attempt
  PROVE  /\ \A p \in LedgerRefunds(a) : payment[p].amount \in Nat
         /\ \A q \in Session : PendingRow[q].amount \in Nat
         /\ \A q \in Pending(a) : PendingRow[q].amount = own[q].refund
         /\ attempt[a].returned \in Nat
<1>1. \A p \in Payment : payment[p] \in PaymentRow \cup {NoPayment}
  BY DEF Placed, CheckoutTypeOK, TypeOK
<1>0. Amount \cup {0} \subseteq Nat
  BY AmountAssumption
<1>2. ASSUME NEW p \in Payment PROVE payment[p].amount \in Nat
  <2>1. payment[p].amount \in Amount \cup {0}
    BY <1>1 DEF PaymentRow, NoPayment
  <2>2. QED
    BY <1>0, <2>1
<1>3. ASSUME NEW q \in Session, own[q].phase = "refunding" PROVE own[q].refund \in Nat
  <2>1. own[q].refund \in Amount \cup {0}
    BY <1>3, OwnTypes DEF Placed
  <2>2. QED
    BY <1>0, <2>1
<1>4. attempt[a].returned \in Nat
  BY DEF Placed, CheckoutTypeOK, AttemptState
<1>5. QED
  BY <1>2, <1>3, <1>4 DEF LedgerRefunds, Pending, PendingRow

\* A step that adds nothing to either.
LEMMA NothingRefunded ==
  ASSUME Placed, RefundsInv, NEW a \in Attempt,
         attempt'[a].returned \in Nat, attempt'[a].returned >= attempt[a].returned,
         \A p \in Payment : origin'[p] = a /\ payment'[p].direction = "refund" =>
           origin[p] = a /\ payment[p] = payment'[p],
         \A q \in Session : own'[q].phase = "refunding" /\ own'[q].issued /\ own'[q].pay = a =>
           own[q].phase = "refunding" /\ own[q].issued /\ own[q].pay = a /\ own'[q].refund = own[q].refund
  PROVE  Covered(a)'
<1>1. /\ LedgerRefunds(a)' \subseteq LedgerRefunds(a)
      /\ \A p \in LedgerRefunds(a)' : payment'[p].amount = payment[p].amount
  BY DEF LedgerRefunds
<1>2. /\ Pending(a)' \subseteq Pending(a)
      /\ \A q \in Pending(a)' : PendingRow'[q].amount = PendingRow[q].amount
  BY DEF Pending, PendingRow
<1>3. IsFiniteSet(LedgerRefunds(a)) /\ IsFiniteSet(Pending(a)) /\ Pending(a) \subseteq Session
      /\ SumOf(payment, LedgerRefunds(a)) + SumOf(PendingRow, Pending(a)) <= attempt[a].returned
  BY DEF RefundsInv, Covered, Pending
<1>4. IsFiniteSet(LedgerRefunds(a)') /\ IsFiniteSet(Pending(a)')
  BY <1>1, <1>2, <1>3, FS_Subset
<1>5. /\ \A p \in LedgerRefunds(a) : payment[p].amount \in Nat
      /\ \A q \in Pending(a) : PendingRow[q].amount \in Nat
      /\ attempt[a].returned \in Nat
  BY <1>3, RefundAmounts
<1>6. /\ \A p \in LedgerRefunds(a)' : payment'[p].amount \in Nat
      /\ \A q \in Pending(a)' : PendingRow'[q].amount \in Nat
  BY <1>1, <1>2, <1>5
<1>7. PICK l \in Nat : l = SumOf(payment, LedgerRefunds(a))
  BY <1>3, <1>5, SumIsNatural
<1>8. PICK k \in Nat : k = SumOf(PendingRow, Pending(a))
  BY <1>3, <1>5, SumIsNatural
<1>9. PICK m \in Nat : m = SumOf(payment', LedgerRefunds(a)')
  BY <1>4, <1>6, SumIsNatural
<1>10. PICK n \in Nat : n = SumOf(PendingRow', Pending(a)')
  BY <1>4, <1>6, SumIsNatural
<1>11. m <= l
  BY <1>1, <1>3, <1>5, <1>7, <1>9, SumOfFewer
<1>12. n <= k
  BY <1>2, <1>3, <1>5, <1>8, <1>10, SumOfFewer
<1>13. m + n <= attempt'[a].returned
  BY <1>3, <1>5, <1>7, <1>8, <1>11, <1>12
<1>14. QED
  BY <1>4, <1>9, <1>10, <1>13 DEF Covered

LEMMA LedgerIsCovered == Placed /\ RefundsInv => LedgerRefundsMoved
<1> SUFFICES ASSUME Placed, RefundsInv, NEW a \in Attempt
             PROVE  SumOf(payment, LedgerRefunds(a)) <= attempt[a].returned
  BY DEF LedgerRefundsMoved, SumOf, LedgerRefunds, MapThenSumSet, MapThenFoldSet
<1>1. IsFiniteSet(LedgerRefunds(a)) /\ IsFiniteSet(Pending(a)) /\ Pending(a) \subseteq Session
      /\ SumOf(payment, LedgerRefunds(a)) + SumOf(PendingRow, Pending(a)) <= attempt[a].returned
  BY DEF RefundsInv, Covered, Pending
<1>2. /\ \A p \in LedgerRefunds(a) : payment[p].amount \in Nat
      /\ \A q \in Pending(a) : PendingRow[q].amount \in Nat
      /\ attempt[a].returned \in Nat
  BY <1>1, RefundAmounts
<1>3. SumOf(payment, LedgerRefunds(a)) \in Nat
  BY <1>1, <1>2, SumIsNatural
<1>4. SumOf(PendingRow, Pending(a)) \in Nat
  BY <1>1, <1>2, SumIsNatural
<1>5. QED
  BY <1>1, <1>2, <1>3, <1>4

LEMMA RefundsInit == CheckoutInit => RefundsInv
<1> SUFFICES ASSUME CheckoutInit, NEW a \in Attempt PROVE Covered(a)
  BY DEF RefundsInv
<1>1. LedgerRefunds(a) = {} /\ Pending(a) = {}
  BY NoneAssumption DEF CheckoutInit, LedgerRefunds, Pending, Resting
<1>2. IsFiniteSet({}) /\ SumOf(payment, {}) = 0 /\ SumOf(PendingRow, {}) = 0
  BY FS_EmptySet, SumTakesOne
<1>3. attempt[a].returned = 0
  BY DEF CheckoutInit, NoAttempt
<1>4. QED
  BY <1>1, <1>2, <1>3 DEF Covered

\* The gateway sends the money first: then a cancellation is about to write it.
LEMMA RefundingIsCovered ==
  ASSUME Placed, Placed', RefundsInv, NEW q \in Session, CancelOwnRefund(q), NEW a \in Attempt
  PROVE  Covered(a)'
<1> DEFINE b == own[q].booking
           refund == own[q].refund
<1>0. /\ own[q].phase = "quoted" /\ UNCHANGED <<payment, origin>>
      /\ own \in [Session -> OwnState] /\ attempt \in [Attempt -> AttemptState]
      /\ attempt[a].returned \in Nat /\ attempt'[a].returned \in Nat
      /\ refund \in Nat
  <2>1. refund \in Amount \cup {0} /\ Amount \cup {0} \subseteq Nat
    BY OwnTypes, AmountAssumption DEF Placed, CancelOwnRefund
  <2>2. QED
    BY <2>1, RefundAmounts DEF Placed, CheckoutTypeOK, CancelOwnRefund, vars, AttemptState
<1> DEFINE Goes(o, pay, issued) ==
      own' = [own EXCEPT ![q] = [phase |-> "refunding", booking |-> b, refund |-> refund,
                                 locks |-> reservation[b].status # "cancelled", order |-> o,
                                 pay |-> pay, issued |-> issued]]
           Answered(pay, answer) == attempt' = [attempt EXCEPT ![pay] = Refunded(pay, refund, answer)]
<1>1. \/ Goes("none", "none", FALSE) /\ UNCHANGED attempt
      \/ \E o \in Order : \E answer :
           /\ intent[o].pay \in Attempt
           /\ Goes(o, intent[o].pay, Issued(answer)) /\ Answered(intent[o].pay, answer)
  <2>1. \/ Goes("none", "none", FALSE) /\ UNCHANGED attempt
        \/ \E o \in {o1 \in Order : intent[o1].booking = b /\ intent[o1].status = "paid"} :
           \E answer \in RefundAnswers(intent[o].pay, refund) :
             Goes(o, intent[o].pay, Issued(answer)) /\ Answered(intent[o].pay, answer)
    BY DEF CancelOwnRefund
  <2>2. \A o \in Order : intent[o].status = "paid" => intent[o].pay \in Attempt
    BY DEF Placed, IntentsPlaced
  <2> HIDE DEF Goes, Answered
  <2>3. QED
    BY <2>1, <2>2
<1>2. ASSUME NEW o, NEW pay, NEW issued \in BOOLEAN, Goes(o, pay, issued),
             issued => pay \in Attempt /\ Answered(pay, "made"),
             ~issued => attempt' = attempt \/ \E answer : pay \in Attempt /\ Answered(pay, answer)
      PROVE  Covered(a)'
  <2>1. /\ own'[q].phase = "refunding" /\ own'[q].refund = refund
        /\ own'[q].issued = issued /\ own'[q].pay = pay
        /\ \A r \in Session \ {q} : own'[r] = own[r]
    BY <1>0, <1>2
  <2>2. CASE ~(issued /\ pay = a)
    <3>0. attempt'[a].returned >= attempt[a].returned
      BY <1>0, <1>2 DEF Refunded, AttemptState
    <3>1. \A p \in Payment : origin'[p] = a /\ payment'[p].direction = "refund" =>
             origin[p] = a /\ payment[p] = payment'[p]
      BY <1>0
    <3>2. \A r \in Session : own'[r].phase = "refunding" /\ own'[r].issued /\ own'[r].pay = a =>
            own[r].phase = "refunding" /\ own[r].issued /\ own[r].pay = a /\ own'[r].refund = own[r].refund
      BY <2>1, <2>2
    <3>3. QED
      BY <1>0, <3>0, <3>1, <3>2, NothingRefunded
  <2>3. CASE issued /\ pay = a
    <3>1. attempt'[a].returned = attempt[a].returned + refund
      BY <1>0, <1>2, <2>3 DEF Refunded, AttemptState
    <3>2. LedgerRefunds(a)' = LedgerRefunds(a) /\ payment' = payment
      BY <1>0 DEF LedgerRefunds
    <3>3. q \notin Pending(a) /\ q \in Pending(a)' /\ Pending(a)' \ {q} = Pending(a)
      BY <1>0, <2>1, <2>3 DEF Pending
    <3>4. /\ PendingRow'[q].amount = refund
          /\ \A r \in Pending(a) : PendingRow'[r].amount = PendingRow[r].amount
      BY <2>1, <3>3 DEF Pending, PendingRow
    <3>5. IsFiniteSet(LedgerRefunds(a)) /\ IsFiniteSet(Pending(a)) /\ Pending(a) \subseteq Session
          /\ SumOf(payment, LedgerRefunds(a)) + SumOf(PendingRow, Pending(a)) <= attempt[a].returned
      BY DEF RefundsInv, Covered, Pending
    <3>6. Pending(a)' = Pending(a) \cup {q} /\ IsFiniteSet(Pending(a)')
      <4>1. Pending(a)' = Pending(a) \cup {q}
        BY <3>3
      <4>2. QED
        BY <3>5, <4>1, FS_AddElement
    <3>7. /\ \A p \in LedgerRefunds(a) : payment[p].amount \in Nat
          /\ \A r \in Pending(a) : PendingRow[r].amount \in Nat
      BY <3>5, RefundAmounts
    <3>8. \A r \in Pending(a)' : PendingRow'[r].amount \in Nat
      BY <1>0, <3>4, <3>6, <3>7
    <3>9. SumOf(PendingRow', Pending(a)') = refund + SumOf(PendingRow', Pending(a))
      BY <3>3, <3>4, <3>6, <3>8, SumWithout
    <3>10. SumOf(PendingRow', Pending(a)) <= SumOf(PendingRow, Pending(a))
      BY <3>4, <3>5, <3>7, SumOfFewer
    <3>11. PICK l \in Nat : l = SumOf(payment, LedgerRefunds(a))
      BY <3>5, <3>7, SumIsNatural
    <3>12. PICK k \in Nat : k = SumOf(PendingRow, Pending(a))
      BY <3>5, <3>7, SumIsNatural
    <3>13. PICK n \in Nat : n = SumOf(PendingRow', Pending(a))
      <4>1. \A r \in Pending(a) : PendingRow'[r].amount \in Nat
        BY <3>4, <3>7
      <4>2. QED
        BY <3>5, <4>1, SumIsNatural
    <3>14. l + (refund + n) <= attempt'[a].returned
      BY <1>0, <3>1, <3>5, <3>10, <3>11, <3>12, <3>13
    <3>15. SumOf(payment', LedgerRefunds(a)') + SumOf(PendingRow', Pending(a)') <= attempt'[a].returned
      BY <3>2, <3>9, <3>11, <3>13, <3>14
    <3>16. QED
      BY <3>2, <3>5, <3>6, <3>15 DEF Covered
  <2>4. QED
    BY <2>2, <2>3
<1> HIDE DEF Goes, Answered
<1>3. CASE Goes("none", "none", FALSE) /\ UNCHANGED attempt
  BY <1>2, <1>3
<1>4. ASSUME NEW o \in Order, NEW answer, intent[o].pay \in Attempt,
             Goes(o, intent[o].pay, Issued(answer)), Answered(intent[o].pay, answer)
      PROVE  Covered(a)'
  <2>1. CASE answer = "made"
    <3>1. Issued(answer) = TRUE
      BY <2>1 DEF Issued
    <3>2. Goes(o, intent[o].pay, TRUE) /\ Answered(intent[o].pay, "made")
      BY <1>4, <2>1, <3>1
    <3>3. QED
      BY <1>2, <1>4, <3>2
  <2>2. CASE answer # "made"
    <3>1. Issued(answer) = FALSE
      BY <2>2 DEF Issued
    <3>2. Goes(o, intent[o].pay, FALSE)
      BY <1>4, <3>1
    <3>3. QED
      BY <1>2, <1>4, <3>2
  <2>3. QED
    BY <2>1, <2>2
<1>5. QED
  BY <1>1, <1>3, <1>4

\* The cancellation writes its refund and ends.
LEMMA WrittenIsCovered ==
  ASSUME Placed, Placed', RefundsInv, NEW q \in Session, CancelOwnCommit(q), NEW a \in Attempt
  PROVE  Covered(a)'
<1> DEFINE b == own[q].booking
           refund == own[q].refund
           pay == own[q].pay
<1>0. /\ own[q].phase = "refunding" /\ attempt' = attempt
      /\ own' = [own EXCEPT ![q] = Resting]
      /\ own \in [Session -> OwnState] /\ origin \in [Payment -> Attempt \cup {"none"}]
      /\ payment \in [Payment -> PaymentRow \cup {NoPayment}]
      /\ attempt[a].returned \in Nat /\ attempt'[a].returned \in Nat
      /\ refund \in Nat
  <2>1. refund \in Amount \cup {0} /\ Amount \cup {0} \subseteq Nat
    BY OwnTypes, AmountAssumption DEF Placed, CancelOwnCommit
  <2>2. QED
    BY <2>1, RefundAmounts DEF Placed, CheckoutTypeOK, TypeOK, CancelOwnCommit
<1>1. /\ own'[q].phase = "idle"
      /\ \A r \in Session \ {q} : own'[r] = own[r]
  BY <1>0 DEF Resting
<1>2. \A r \in Session : own'[r].phase = "refunding" /\ own'[r].issued /\ own'[r].pay = a =>
        own[r].phase = "refunding" /\ own[r].issued /\ own[r].pay = a /\ own'[r].refund = own[r].refund
  BY <1>1
<1>3. CASE ~own[q].issued
  <2>1. UNCHANGED <<payment, origin>>
    BY <1>3 DEF CancelOwnCommit
  <2>2. QED
    BY <1>0, <1>2, <2>1, NothingRefunded
<1>4. CASE own[q].issued
  <2>1. PICK p \in Payment :
          /\ payment[p] = NoPayment
          /\ payment' = Insert(p, b, "refund", refund)
          /\ origin' = [origin EXCEPT ![p] = pay]
    BY <1>4 DEF CancelOwnCommit
  <2>2. /\ payment'[p].direction = "refund" /\ payment'[p].amount = refund /\ origin'[p] = pay
        /\ \A r \in Payment \ {p} : payment'[r] = payment[r] /\ origin'[r] = origin[r]
    BY <1>0, <2>1 DEF Insert
  <2>3. CASE pay # a
    <3>1. \A r \in Payment : origin'[r] = a /\ payment'[r].direction = "refund" =>
            origin[r] = a /\ payment[r] = payment'[r]
      BY <2>2, <2>3
    <3>2. QED
      BY <1>0, <1>2, <3>1, NothingRefunded
  <2>4. CASE pay = a
    <3>1. payment[p].direction # "refund"
      BY <2>1 DEF NoPayment
    <3>2. p \notin LedgerRefunds(a) /\ p \in LedgerRefunds(a)' /\ LedgerRefunds(a)' \ {p} = LedgerRefunds(a)
      BY <2>2, <2>4, <3>1 DEF LedgerRefunds
    <3>3. q \in Pending(a) /\ Pending(a)' = Pending(a) \ {q}
      BY <1>0, <1>1, <1>4, <2>4 DEF Pending
    <3>4. IsFiniteSet(LedgerRefunds(a)) /\ IsFiniteSet(Pending(a)) /\ Pending(a) \subseteq Session
          /\ SumOf(payment, LedgerRefunds(a)) + SumOf(PendingRow, Pending(a)) <= attempt[a].returned
      BY DEF RefundsInv, Covered, Pending
    <3>5. /\ \A r \in LedgerRefunds(a) : payment[r].amount \in Nat
          /\ \A r \in Pending(a) : PendingRow[r].amount \in Nat
      BY <3>4, RefundAmounts
    <3>6. LedgerRefunds(a)' = LedgerRefunds(a) \cup {p}
      BY <3>2
    <3>7. IsFiniteSet(LedgerRefunds(a)') /\ IsFiniteSet(Pending(a)')
      BY <3>3, <3>4, <3>6, FS_AddElement, FS_Subset
    <3>8. \A r \in LedgerRefunds(a) : payment'[r].amount = payment[r].amount
      BY <2>2, <3>2 DEF LedgerRefunds
    <3>9. \A r \in LedgerRefunds(a)' : payment'[r].amount \in Nat
      BY <1>0, <2>2, <3>5, <3>6, <3>8
    <3>10. PendingRow[q].amount = refund
      BY <1>0 DEF PendingRow
    <3>11. \A r \in Pending(a)' : PendingRow'[r].amount = PendingRow[r].amount
      BY <1>1, <3>3, <3>4 DEF PendingRow
    <3>12. SumOf(payment', LedgerRefunds(a)') = refund + SumOf(payment', LedgerRefunds(a))
      BY <2>2, <3>2, <3>7, <3>9, SumWithout
    <3>13. SumOf(payment', LedgerRefunds(a)) <= SumOf(payment, LedgerRefunds(a))
      BY <3>4, <3>5, <3>8, SumOfFewer
    <3>14. SumOf(PendingRow, Pending(a)) = refund + SumOf(PendingRow, Pending(a)')
      BY <3>3, <3>4, <3>5, <3>10, SumWithout
    <3>15. SumOf(PendingRow', Pending(a)') <= SumOf(PendingRow, Pending(a)')
      <4>1. Pending(a)' \in SUBSET Pending(a)'
        OBVIOUS
      <4>2. \A r \in Pending(a)' : PendingRow[r].amount \in Nat
        BY <3>3, <3>5
      <4>3. QED
        BY <3>7, <3>11, <4>1, <4>2, SumOfFewer
    <3>16. PICK l \in Nat : l = SumOf(payment, LedgerRefunds(a))
      BY <3>4, <3>5, SumIsNatural
    <3>17. PICK m \in Nat : m = SumOf(payment', LedgerRefunds(a))
      <4>1. \A r \in LedgerRefunds(a) : payment'[r].amount \in Nat
        BY <3>5, <3>8
      <4>2. QED
        BY <3>4, <4>1, SumIsNatural
    <3>18. PICK k \in Nat : k = SumOf(PendingRow, Pending(a)')
      <4>1. \A r \in Pending(a)' : PendingRow[r].amount \in Nat
        BY <3>3, <3>5
      <4>2. QED
        BY <3>7, <4>1, SumIsNatural
    <3>19. PICK n \in Nat : n = SumOf(PendingRow', Pending(a)')
      <4>1. \A r \in Pending(a)' : PendingRow'[r].amount \in Nat
        BY <3>3, <3>5, <3>11
      <4>2. QED
        BY <3>7, <4>1, SumIsNatural
    <3>20. (refund + m) + n <= attempt'[a].returned
      BY <1>0, <3>4, <3>13, <3>14, <3>15, <3>16, <3>17, <3>18, <3>19
    <3>21. SumOf(payment', LedgerRefunds(a)') + SumOf(PendingRow', Pending(a)') <= attempt'[a].returned
      BY <3>12, <3>17, <3>19, <3>20
    <3>22. QED
      BY <3>7, <3>21 DEF Covered
  <2>5. QED
    BY <2>3, <2>4
<1>5. QED
  BY <1>3, <1>4

LEMMA RefundsStep ==
  Placed /\ MoneyInv /\ RefundsInv /\ [CheckoutNext]_checkoutVars => RefundsInv'
<1> SUFFICES ASSUME Placed, MoneyInv, RefundsInv, [CheckoutNext]_checkoutVars, NEW a \in Attempt
             PROVE  Covered(a)'
  BY DEF RefundsInv
<1>0. /\ Placed' /\ TypeOK
      /\ attempt \in [Attempt -> AttemptState] /\ own \in [Session -> OwnState]
      /\ attempt[a].returned \in Nat /\ attempt'[a].returned \in Nat
  <2>1. Placed'
    BY PlacedStep
  <2>2. attempt'[a].returned \in Nat
    BY <2>1 DEF Placed, CheckoutTypeOK, AttemptState
  <2>3. QED
    BY <2>1, <2>2, RefundAmounts DEF Placed, CheckoutTypeOK
<1>1. ASSUME UNCHANGED <<payment, origin, own>>, attempt'[a].returned >= attempt[a].returned
      PROVE  Covered(a)'
  BY <1>0, <1>1, NothingRefunded
<1>2. attempt'[a] = attempt[a] => attempt'[a].returned >= attempt[a].returned
  BY <1>0
<1>3. CASE BookingStep
  <2>1. /\ [Next]_vars /\ UNCHANGED <<attempt, own>>
        /\ \A p \in Payment : origin'[p] = IF payment'[p] = NoPayment THEN "none" ELSE origin[p]
    BY <1>3 DEF BookingStep
  <2>2. \A p \in Payment :
          payment'[p] = payment[p] \/ payment'[p] = NoPayment \/ payment[p] = NoPayment
    BY <1>0, <2>1, LedgerStep
  <2>3. \A p \in Payment : origin'[p] = a /\ payment'[p].direction = "refund" =>
          origin[p] = a /\ payment[p] = payment'[p]
    BY <2>1, <2>2, NoneAssumption DEF MoneyInv, OpenLedger, NoPayment
  <2>4. QED
    BY <1>0, <1>2, <2>1, <2>3, NothingRefunded
<1>4. CASE StartSteps
  BY <1>1, <1>2, <1>4 DEF StartSteps, CreateOrder, InsertIntent, StartFails, vars
<1>5. ASSUME NEW c \in Attempt, NEW o \in Order, NEW outcome, NEW sum \in Sum, NEW event,
             Pay(c, o, outcome, sum, event)
      PROVE  Covered(a)'
  <2>1. attempt'[a].returned >= attempt[a].returned
    BY <1>0, <1>5 DEF Pay, NoAttempt
  <2>2. QED
    BY <1>1, <1>5, <2>1 DEF Pay, vars
<1>6. ASSUME NEW w \in Webhook, NEW answer, AskBack(w, answer) PROVE Covered(a)'
  <2>1. hook[w].attempt \in Attempt /\ Price \in Nat
    BY <1>6, HookTypes, PriceAssumption, AmountAssumption DEF Placed, AskBack
  <2>2. attempt'[a].returned >= attempt[a].returned
    BY <1>0, <1>6, <2>1 DEF AskBack, Refunded, AttemptState
  <2>3. QED
    BY <1>1, <1>6, <2>2 DEF AskBack, vars
<1>7. ASSUME NEW w \in Webhook, Apply(w) PROVE Covered(a)'
  <2>1. PICK p \in Payment :
          /\ payment[p] = NoPayment
          /\ payment' = Insert(p, hook[w].booking, "in", Price)
          /\ origin' = [origin EXCEPT ![p] = hook[w].attempt]
    BY <1>7 DEF Apply
  <2>2. UNCHANGED <<attempt, own>>
    BY <1>7 DEF Apply
  <2>3. /\ payment'[p].direction = "in"
        /\ \A r \in Payment \ {p} : payment'[r] = payment[r] /\ origin'[r] = origin[r]
    BY <2>1 DEF Placed, CheckoutTypeOK, TypeOK, Insert
  <2>4. \A r \in Payment : origin'[r] = a /\ payment'[r].direction = "refund" =>
          origin[r] = a /\ payment[r] = payment'[r]
    BY <2>3
  <2>5. QED
    BY <1>0, <1>2, <2>2, <2>4, NothingRefunded
<1>8. ASSUME NEW w \in Webhook,
             \/ \E c \in Attempt : StoreEvent(w, c)
             \/ ReadIntent(w) \/ FailIntent(w) \/ LoadReservation(w) \/ ApplyFails(w)
             \/ RecordAskedBack(w) \/ HookDies(w)
      PROVE  Covered(a)'
  BY <1>1, <1>2, <1>8 DEF StoreEvent, ReadIntent, FailIntent, LoadReservation, ApplyFails,
     RecordAskedBack, HookDies, vars
<1>9. ASSUME NEW q \in Session, NEW state, own' = [own EXCEPT ![q] = state],
             state.phase # "refunding", UNCHANGED <<payment, origin, attempt>>
      PROVE  Covered(a)'
  <2>1. \A r \in Session : own'[r].phase = "refunding" /\ own'[r].issued /\ own'[r].pay = a =>
          own[r].phase = "refunding" /\ own[r].issued /\ own[r].pay = a /\ own'[r].refund = own[r].refund
    BY <1>0, <1>9
  <2>2. \A p \in Payment : origin'[p] = a /\ payment'[p].direction = "refund" =>
          origin[p] = a /\ payment[p] = payment'[p]
    BY <1>9
  <2>3. QED
    BY <1>0, <1>2, <1>9, <2>1, <2>2, NothingRefunded
<1>10. ASSUME NEW q \in Session, NEW b \in Booking, NEW refund, CancelOwnRead(q, b, refund)
       PROVE  Covered(a)'
  <2>1. PICK state : state = [phase |-> "quoted", booking |-> b, refund |-> refund]
    OBVIOUS
  <2>2. state.phase # "refunding"
    BY <2>1
  <2>3. own' = [own EXCEPT ![q] = state]
    BY <1>10, <2>1 DEF CancelOwnRead
  <2>4. UNCHANGED <<payment, origin, attempt>>
    BY <1>10 DEF CancelOwnRead, vars
  <2>5. QED
    BY <1>9, <2>2, <2>3, <2>4
<1>11. ASSUME NEW q \in Session, CancelOwnFails(q) PROVE Covered(a)'
  <2>1. Resting.phase # "refunding"
    BY DEF Resting
  <2>2. own' = [own EXCEPT ![q] = Resting]
    BY <1>11 DEF CancelOwnFails
  <2>3. UNCHANGED <<payment, origin, attempt>>
    BY <1>11 DEF CancelOwnFails, vars
  <2>4. QED
    BY <1>9, <2>1, <2>2, <2>3
<1>12. CASE UNCHANGED checkoutVars
  BY <1>1, <1>2, <1>12 DEF checkoutVars, vars
<1>13. QED
  BY <1>0, <1>3, <1>4, <1>5, <1>6, <1>7, <1>8, <1>10, <1>11, <1>12, RefundingIsCovered, WrittenIsCovered
     DEF CheckoutNext, GatewaySteps, WebhookSteps, CancelOwnSteps

\* The ledger of cancelOwn never says more was refunded of a customer's payment
\* than the gateway did send, whatever fails between the two: what is in the
\* ledger and what a cancellation is about to write there were both sent first.
THEOREM LedgerRefundsAlwaysMoved == CheckoutSpec => []LedgerRefundsMoved
BY PlacedInit, PlacedStep, TableInit, TableStep, MoneyInit, MoneyStep, RefundsInit, RefundsStep,
   LedgerIsCovered, PTL DEF CheckoutSpec
===========================================================================
