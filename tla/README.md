# BookingMaster in TLA+

BookingMaster sells court time and halls: an owner and staff run the day from a
console, players book and pay from a public page.  The code trusts Postgres with
the hard part (an exclusion constraint refuses overlapping reservations, unique
indexes refuse duplicates, a transaction surrounds each request) and the services
are written around that.  These modules ask what the services and the constraints
promise *together*, when several requests, a gateway, a webhook, browsers and the
scheduled jobs run at once and any of them may die half way.

Paths below are relative to the repository; `S/` stands for `backend/src/`, `F/`
for `frontend/src/`.

## 1. The system

### How code runs

* **A request of a signed-in user** (owner, staff or customer) is one READ COMMITTED
  transaction (`S/db/tenant.interceptor.ts:22-54`): the whole handler commits or
  the whole handler is undone.  A `db.transaction` inside it is a savepoint.
* **The webhook, the one-time codes and logins** have no such transaction; each
  `runAsTenant`/`runAsSystem` (`S/db/run-as-tenant.ts:12-34`) is one of its own.
* **Scheduled jobs** (hold sweep, message delivery, reminders, series) run in
  each instance of the API on a timer, each under an advisory lock.
* **Gateways and message providers** are called over the network, sometimes
  from inside a transaction.  What they do is never rolled back.
* **Browsers** keep a cache of what they fetched and send commands whose answers
  may be late or lost.

So two handlers interleave between any two statements, a handler sees what the
others committed, an UPDATE waits for the row's lock and then re-evaluates its
WHERE clause, and what a handler SELECTed may be stale when it writes.  Tenants
do not meet (row-level security), so every module is one venue; `Staff`, where an
address is unique over all tenants, has several.

### Components

| component | state | operations | talks to | module |
|---|---|---|---|---|
| Reservation engine (`S/reservations`) | `reservation` | quick-book, block, status change, cancel, remove; removal of a court (`S/venues`) | ledger, policy, outbox | `Reservations` |
| Holds and sweeper (`S/public/holds.*`) | `reservation.status = held`, `expires_at` | hold (with sweep and retry), confirm, release, scheduled sweep | reservations, ledger (cascade) | `Reservations` |
| Ledger (`S/payments/payments.service.ts`) | `payment` | record, remove, net total | reservations | `Reservations` |
| Checkout (`S/payments/checkout.service.ts`) and gateways | `payment_intent`, `gateway_event` | start payment, webhook (store, apply, refund late), refund on cancellation | gateway, reservations, ledger | `Checkout` |
| Customer self-service (`S/public/public-booking.service.ts`) | — | own bookings, cancel own, wish not to be messaged | holds, reservations, checkout | `Checkout`, `Outbox` |
| Invoicing (`S/invoicing`) | `invoice_series`, `invoice` | issue, credit, list | reservations | `Invoices` |
| Outbox (`S/notifications`) | `notification` | enqueue, remind, claim, deliver, retry, purge | every booking handler, WhatsApp | `Outbox` |
| Series (`S/series`) | `booking_series`, its reservations | create, extend, update, end, nightly materialise | reservations | `Series` |
| Staff and authentication (`S/staff`, `S/auth`) | `app_user`, `staff_invite` | register, log in, guard, invite, revoke, accept, change | — | `Staff` |
| Customers and one-time codes (`S/customers`, `S/public/otp`) | `customer`, `otp_challenge` | upsert, form, change of number; ask, check | self-service | `Customers` |
| Halls (`S/halls`) | `enquiry`, its reservation | create, move, book | reservations | `Enquiries` |
| Opening hours (`S/availability`, `S/public/public.service.ts`) | weekly windows, overrides | replace a week, override a date, slots, the test of a span | holds, public page | `Offers`, `SavedSet` |
| Pricing (`S/pricing`) | `price_rule` | create, patch, remove, resolve | calendar, page, holds, series | `Pricing` |
| Cancellation policy (`S/cancellation`) | its tiers | replace, quote | cancel | `RefundPolicy`, `SavedSet` |
| Booking dialog (`F/public/BookingFlow.tsx`) | its step, its hold, its calls | hold, sign in, confirm, pay, poll, close | holds, checkout | `BookingFlow` |
| Pages (`F/pages`, `F/components`) with calendar, reports, audit, venues | the query cache | fetch, drop, send a command | every service | `Screens` |

### What is hard, and what makes each part correct

`PROJECT.json` lists each hazard at its line.  In short:

* **Engine and holds** — no two reservations occupy one court at one time; a sale
  is pushed out by nobody; a status change or cancellation is still right for the
  row it *writes*; an expired hold goes, and nothing but an expired hold.  Hard:
  reads that are stale at the write, the sweep that lists now and deletes later,
  deletes that cascade.
* **Checkout** — each captured payment is booked once or sent back; never both,
  never a payment that is known to be short; the ledger shows a refund only if it left.  Hard: duplicated and
  reordered events, a hold that vanishes during the webhook, a network call in a
  transaction, processes that die.
* **Invoicing** — a series without gaps or repeats; one invoice per booking and
  one credit note per invoice; parts that add up to the total.  Hard: rollbacks
  after the number was taken, two clerks, a new financial year, rounding.
* **Outbox** — a message per event and not two, nothing said of what was rolled
  back, four attempts at most and an answer in the end.  Hard: the claim is rolled
  back by a crash, the provider's answer may be lost, two routes confirm at once.
* **Series** — an hour is sold once; what the rule says is in the calendar up to
  where the series claims to be; history stays; a live series never runs out.
  Hard: the nightly job against `end`, a clash in the middle of a transaction,
  session locks through a pool.
* **Staff** — there is always an active owner; an invitation makes one login.
* **Codes** — a code signs in once, whatever is rolled back and retried.
* **Halls** — a won enquiry has its booking, made for good; no link stops the sweep.
* **Rules** — the page and the hold judge alike by different functions; one price
  whoever computes it; cancelling earlier is never worse; whatever saves overlap.
* **Dialog** — it says *Booked* of bookings only and of every one it waits for; a
  slot nobody waits for comes back.
* **Pages** — what a page shows after a change is not older than the change.

## 2. The plan

| # | module | state of it |
|---|---|---|
| 1 | `Reservations`, abstract `CourtMarket` | modelled, checked, safety and refinement proved |
| 2 | `Checkout` (extends 1) | modelled, checked, safety proved |
| 3 | `Invoices` (extends 1) | modelled, checked, proved; printed number, date to financial year and GSTIN state not modelled |
| 4 | `Outbox` | modelled, checked, safety proved |
| 5 | `Series` | modelled, checked, safety proved |
| 6 | `Staff` | modelled, checked, proved |
| 7 | `Enquiries` | modelled, checked, proved |
| 8 | `Customers` | modelled, checked, proved |
| 9 | `Offers`, `Pricing`, `RefundPolicy`, over `SavedSet` | modelled, checked, proved |
| 10 | `BookingFlow` | modelled, checked, safety proved |
| 11 | `Screens` | modelled, checked, proved |

Every safety and action property that a passing run checks is now a theorem.  What
is left are the liveness properties, which stay with TLC, and promises worth an
abstract specification of their own: the outbox (a message is told once), the invoice
series (a counter per year) and the dialog.

## 3. The modules

Common conventions.  An id names one row for ever: `unused` before its INSERT and
`gone` after its DELETE.  An action is a stretch of the handler in which what
others do cannot matter: a SELECT that later code relies on, and the write (with
its commit, because a row that is written stays locked until then).  What a
handler read stays in a variable of its own (`inflight`, `sweep`, `hook`, `own`,
`clerk`, `work`, `request`, `visitor`, `agent`, `patch`).  A transaction that fails
is an action that forgets what was read and changes nothing else.  Guards that only
look at columns no handler changes are checked where they are cheapest.  A variable
marked *for checking* in its module is history that no action's guard reads.

### `Reservations` — engine, holds, ledger

| variable | code |
|---|---|
| `reservation[b]` | the row: `kind`, `status`, `resource_id` and `during` as the set of cells `slot`, `expires_at` as `deadline` (`none`, `live`, `past`) |
| `payment[p]` | the ledger row: booking, direction, amount |
| `inflight[r]` | an `update`, `cancel`, `confirm` or `deleteResource` request that has read and not yet written |
| `sweep` | a scheduled sweep: the listed ids, and which of them it will cancel or delete |
| `removed` | the courts (sets of slots) whose `resource` row is deleted |

| action | code |
|---|---|
| `QuickBook`, `Block` | `reservations.create`/`createBlock`: an INSERT that the constraint admits (`Vacant`) |
| `UpdateRead`, `UpdateWrite` | `reservations.update`: row read and change judged; UPDATE by id |
| `CancelRead`, `CancelWrite` | `reservations.cancel`: status and paid total read; UPDATE by id and the refund row |
| `RemoveBlock` | `reservations.remove` |
| `RecordPayment`, `RemovePayment` | `payments.create`/`remove` |
| `Hold` | `holds.insertHold`: INSERT; on a conflict sweep the interval and INSERT again; a second conflict undoes the sweep |
| `ConfirmRead`, `ConfirmWrite` | `holds.confirm`: `load` and the deadline check; UPDATE with `status = 'held'` |
| `Release` | `holds.release` |
| `SweepList`, `SweepCount`, `SweepCommit`, `SweepAbort` | `holds.sweepExpired` in the scheduler's transaction |
| `RemoveCourtRead`, `RemoveCourtWrite` | `venues.deleteResource`: the count of what occupies the court; the DELETE, which cascades to every reservation of it |
| `DeadlinePasses` | the clock |

The handlers of this module are those of the engine.  Other services write the
same table: the webhook and `cancelOwn` do in `Checkout`, a series in `Series` and an
enquiry in `Enquiries`, each with the columns it depends on.  Left out: amounts and notes of a booking, the
customer's row, the audit row and the outbox row written in the same transaction
(they are never read back by these handlers), and the opening-hours check of a
hold (it restricts which slots are asked for; `Slot` stands for those).  The refund
of `cancel` is any amount the code's own cap admits: the policy's quote and the
override are both in that range.

**`CourtMarket`** is what the engine promises without a table: each cell of court
time has at most one owner; a cell that is firmly sold is never handed to somebody
else directly; a sale may push aside holds only.  `Reservations` implements it with
`owner` and `firm` computed from the rows (`MarketSpec`).

### `Checkout` — online payment

Adds the gateway's books (`order`, `attempt`), `intent`, `starting` (orders whose
intent is not inserted yet), `received` (stored events), `hook` (deliveries being
handled), `own` (customers' cancellations) and `origin`, a history variable that
remembers which attempt a ledger row came from.

| action | code |
|---|---|
| `CreateOrder`, `InsertIntent`, `StartFails` | `checkout.startPayment:45-96`, order first, intent second |
| `Pay` | the customer at the gateway: an order is captured once, after any number of failures; its event names the amount or (`"bare"`) leaves it out, which both adapters pass on as null |
| `StoreEvent` | `handleWebhook`: the event's INSERT, in a transaction of its own |
| `ReadIntent`, `FailIntent`, `LoadReservation`, `Apply`, `ApplyFails` | `apply`, each of its branches |
| `AskBack`, `RecordAskedBack` | `refundLate`: gateway call, then the intent |
| `HookDies` | a crash or a database error anywhere in the webhook |
| `CancelOwnRead`, `CancelOwnRefund`, `CancelOwnCommit`, `CancelOwnFails` | `publicBooking.cancelOwn` with `refundForCancellation` |
| `BookingStep` | every step of `Reservations`, except on a row that a cancellation holds locked; deleting a booking unlinks its intents |

A gateway's answer to a refund is one of three: made, made but never heard
(the adapter's 15 s timeout), refused.  It never returns more than was captured.
Signatures, JSON and the choice of adapter are left out; an event is the attempt it
reports, delivered any number of times, in any order.

### `Invoices` — GST documents

Adds `year`, `nextSeq` (the counter row of each financial year), `invoice` (the
documents) and `clerk` (handlers under way).  `IssueRead`/`CreditRead` are the
handlers up to their transaction, `TakeNextNumber` is the locked read of the
counter, `WriteDocument` the INSERT that the two unique indexes and the foreign key
admit, with the commit, and `Undo` every way to fail.  While a clerk is
`numbered` its counter row is locked (`CounterFree`).  `ComputeTax` is the
arithmetic of `gst.ts` in integers: `Math.round` of a quotient of paise is
`RoundedQuotient`.  A document is its booking, the number it reverses, its year,
its sequence number and its tax; the buyer's and seller's addresses are left out.
The financial year is a
counter, moved on by `NewYear`, and a series is one venue's year, as the primary key
of `invoice_series` has it.  The printed number, `formatInvoiceNumber`, is not modelled.

### `Outbox` — messages to customers

| variable | code |
|---|---|
| `booking[b]`, `begun`, `optedOut` | what a message depends on: the status of the row, whether its start has passed, the customer's wish |
| `message[k]` | the `notification` row of a dedupe key (a booking and a template) |
| `txn[s]` | a request that has read its booking, or has written and queued and not committed |
| `remind`, `run[q]` | a reminder run; each replica's delivery run with what it selected (`todo`, `seen`) and wrote (`rows`) |
| `told`, `unheard`, `excused` | history: how often the provider took a message, how often nobody remembers it did, bookings nobody was told of |

| action | code |
|---|---|
| `Book`, `ConfirmHold` | `reservations.create`, `holds.confirm`: the write and `enqueue` |
| `ReadBooking`, `WritePaid`, `WriteCancelled` | the webhook and `cancel`/`cancelOwn`: the read they judge by, then the write and `enqueue` |
| `CommitRequest`, `RollBack` | the transaction around a request |
| `Hold`, `HoldLapses`, `SweptLate`, `BookWithoutWord`, `Begins`, `setMessagePreferences` | what else moves a booking: routes that queue nothing, the sweep, the clock |
| `ListReminders`, `QueueReminder`, `CommitReminders`, `RemindersDie` | `queueDueReminders` in the scheduler's locked transaction |
| `deliverDue`, `Send`, `CommitRun`, `RunDies` | the delivery run in its locked transaction: select, claim and send and write each row, commit or not |
| `purgeOld` | the nightly purge |

A run's claims are invisible until it commits, because `deliverDue` runs inside the
transaction that holds the lock; so a run that dies forgets what it sent.  `enqueue`
may fail for any other reason, which the code logs and ignores (`"unsaid"`).  Which
waiting rows are due is left open, which covers every backoff.  A row that is sent
or failed carries no attempts, since nothing reads them.  One venue's switch is a
constant.  `Outbox` keeps only the statuses messages depend on, so it stands beside
`Reservations` and does not extend it: its requests are those of three services, and
what the engine allows them is checked there.

### `Series` — weekly bookings

| variable | code |
|---|---|
| `rule[s]`, `occurrence[s][d]` | the `booking_series` row; the status of the reservation of that series and date |
| `other`, `closed`, `today` | what else has the hour, the days the court is shut, the venue's date |
| `work[w]` | a `materialise` call: what it read, which dates it has left, inserted and skipped |
| `job[r]`, `lock` | the nightly job of a replica; the session that holds the advisory lock, and how often |

`Create`, `Extend` and `RollOne` start a call; `ReadBooked`, `InsertOne`, `InsertClash`
and `Commit` are its steps (`Step`); a refused INSERT fails the transaction that all its
dates share.  `UpdateEndsOn`, `End`, `CancelWeek` and `MarkWeek` are one step each, as
what they write stays locked.  `StartJob` and `FinishJob` take and give back the lock through
whatever session the pool lends them; `CloseSession` is the pool's idle timeout and
`Crash` the death of a process.  All series are on one court at one hour; a date is
a number, the last of which stands for all later ones.  A series' price and
notes and the customer upsert are left out.

### `Staff`, `Customers`, `Enquiries` — rows about people

Each is a set of rows, a set of requests in flight, and for each handler the steps
*judge* and *write* (in `Staff` the guard, which reads in a transaction of its own,
is a third).  `Staff` has several businesses, since an address is unique over all of
them.  In `Customers` a wrong code is counted in the transaction that its own refusal
rolls back (`VisitFails`); time is two flags of a challenge, cooled down and expired.
(A right code is written by an UPDATE that asks nothing of what was read, so two checks
at once may both count.)  In `Enquiries` a reservation is a hall over one span; the desk, the clock and the
sweeper change it and know nothing of the enquiry; deleting it empties the link,
which the CHECK of migration `0013` may refuse.  Passwords, names, notes, dates of
visits and the estimate of an enquiry are left out.

### `Offers`, `Pricing`, `RefundPolicy` over `SavedSet` — the rules

`SavedSet` is *delete all, insert these*, with the snapshot of the DELETE a step
before the INSERT, for a week's windows and for a policy's ladder alike.  The pure
functions are operators: `openingFor`, `slotsForWindows`, `isWithinOpening`
(`S/availability/resolve.ts`), `resolvePrice` (`S/pricing/resolve.ts`), `quoteRefund`
(`S/cancellation/resolve.ts`), each over the rows as any sequence of saves leaves
them.  A day is counted in ticks; zones and weekdays are not modelled, as weekdays do
not meet.  `PageShows` has every condition of `available` (hours, reservations, notice,
booking window, price, a court on sale), `HoldAccepts` every one of `holds.create`; the
owner switches the court, saves prices and hours, and time passes between looks.

### `BookingFlow` — the dialog of the public page

The dialog's state, its calls (sent, judged, answered, lost, late), and on the server
the one row the dialog asked for, with all that is done to it: by the webhook, the
sweep, the desk, the customer's page of bookings and the removal of its court.  A
handler that writes by what it read earlier is two steps: `Judge` and `ServeConfirm` or
`ServeStartPayment`, `SweepList` and `SweepWrite` (by id alone), `CourtCounted` and
`CourtRemoved`.  The rest of what happens inside handlers is the subject of
`Reservations` and `Checkout`.  A row that is deleted as a booking is `lost`, as a hold
`gone`.

### `Screens` — what the pages show

For every query the tables the server reads for it; for every command the tables it
writes, the queries its `onSuccess` drops, and the dialog that follows; for every
page, card and dialog what it shows, does and opens.  Over these tables runs one
model of the query cache (`F/main.tsx`: young for five seconds, no retries):
one watched query, any of them, and one command at a time.  The booking dialog's
commands `takeHold`, `bookOnline` and `release` drop nothing: its page drops the slots
when it closes (`DropsOnClosing`), and `release` closes it without waiting for the
answer (`SendRelease`).  Signing in, accepting an invitation and starting a payment
change nothing that is shown beside them and are left out.

## 4. The runs

All are TLC runs to the end of the state space.

| run | module | asks | answer |
|---|---|---|---|
| `engine_safety` | `MCReservations` | `NoDoubleBooking`, `RowsPassChecks`, `MarketSpec`, `SettledGoBySweepOrCourt` | hold |
| `money_returns` | `MCCheckout` | `CheckoutTypeOK`, `RecordedOnce`, `BookedOrSentBack`, `NoShortPaymentBooked`, `PaidIsNotHeld`, `LedgerRefundsMoved` | hold |
| `invoice_series` | `MCInvoices` | `InvoicesTypeOK`, `Unbroken`, `TaxedOnce`, `DocumentsAddUp`, `DocumentsStay` | hold |
| `outbox` | `MCOutbox` | `ToldOnce`, `SaidIsSo`, `EveryBookingIsSaid`, `AnswersStand` | hold |
| `series` | `MCSeries` | `CalendarIsSound`, `NoHole`, `HistoryStays`; `NeverRunsOut` under fairness | hold |
| `answers` | `MCAnswers` | `DoneMeansBooked`, `BookedIsKept`; `EveryMessageIsAnswered`, `BookedIsNoticed`, `SlotComesBack`, `ExpiredHoldsGo` under fairness | hold |
| `people` | `MCPeople` | `PeopleTypeOK`, `AnOwnerIsLeft`, `InvitesMakeOneLogin`, `CodesHold`, `WonByBooking`, `LapsedHoldsCanGo` | hold |
| `rules` | `MCRules` | `RulesTypeOK`, `PageAndHoldAgree`, `OnePrice`, `EarlierIsNoWorse`, `ShownIsUpToDate` | hold |
| `refund_races` | `MCReservations` | `RefundWithinCollected` | **violated** |
| `sweep_deletes_sale` | `MCReservations` | `SettledBookingsStay` | **violated** |
| `captured_lost` | `MCCheckout` | `CapturedIsAnswered` | **violated** |
| `clash_rolls_back` | `MCSeries` | `ClashKeepsTheRest` | **violated** |

`MCAnswers`, `MCPeople` and `MCRules` each check several modules that share no state:
`scene` says which of them moves, the others stay where they began.  A behaviour is
therefore one of any of the modules alone, and nothing is lost: what no module reads
of another cannot change what it does.

### What the passing runs show, and why their bounds are enough

* **`engine_safety`**: three bookings over one court of two cells, sold singly and
  together (`{1}`, `{2}`, `{1,2}`), so one hold can push out two expired ones and a
  third booking can take what a no-show left; one slow request, the removal of the
  court among them, against everybody else's whole requests; sweeps of one id, so that
  a sweep can be partial.  The ledger is empty: no guard of this run's properties looks
  at it.  A booking that is more than a hold leaves the table by a sweep that had listed
  it, or with its court, and no other way.  All of it is also proved for all bounds.
* **`money_returns`**: one booking, two orders for it, two attempts, two deliveries
  handled at once, one cancelling customer, two ledger rows, a price of 2 and sums
  of 1 or 2, told or not told by their event, a sweeper, `MayFail`.  A second order, attempt or delivery is what a
  duplicate or a reordering needs; a third adds no new relation.  One booking is
  enough because nothing in the webhook relates two bookings; what another booking
  can do to this one (push out its expired hold) the sweep does as well.
* **`invoice_series`**: two bookings, two clerks, two financial years and two sets
  of terms (an odd paisa of tax with a rounded taxable value; a tax of 0.54
  paisa on top).  Two clerks are what a lock or an index needs to be tested; two
  years are enough to credit an old invoice in a new year.  No bound is put on the
  documents: the indexes bound them.
* **`outbox`**: one booking with its three messages, two requests, two replicas, two
  attempts, and one mishap (a run that dies or an answer that is lost).  No property
  relates the messages of two bookings; two requests are what a double click, a
  duplicate webhook or a payment against a cancellation needs.  Proved for all bounds.
* **`series`**: one series of two dates, one owner's request, one replica with two
  sessions, somebody else's booking on the first date, a closure of the second, one
  mishap.  `PoolSize = 2` is what lets the lock be given back on another session than
  the one that took it; a mishap is a crash or a failed statement; two dates are one to
  clash and one to go on with.  Two series on one hour meet as a series and `other` do.
* **`answers`**: messages with the code's four attempts, two replicas and three
  mishaps, so that every attempt but the last may be undone; the dialog with two calls
  that get no answer, with and without prepayment, signed in before or not; and expired
  holds in two scenes: `backlog`, two of them with sweeps that take one (the code's
  `LIMIT 500`), and `race`, one of them and a slow request that confirms, cancels or
  marks it while a sweep has it listed.
* **`people`**: two businesses, two addresses, two invitations, two requests; two
  numbers, two challenges, two visitors, two attempts per code, so that it is
  the spent code and not the count that stops a second check; one enquiry, two halls, two agents, two hires.  Two of each is what a
  race for one row, a second business or a second code needs.  Each property excepts
  exactly the race it cannot survive: `raced` is set only when one of two owners is
  taken away while a change that takes the other has been judged, `contested` when two
  requests work on one enquiry.
* **`rules`**: a day of four ticks with slots of two and weeks of one window of any
  length, two saves at once (so merged weeks have two), a span that is on the grid of
  some weeks and off that of others, one special day, prices for every start or none,
  two ticks of notice, a booking window of one day looked at from two days before (the
  day is not on sale yet, but for the midnight after the window) and from the last tick
  of the day before (the notice reaches over midnight); two rules, two priorities,
  two patches; two saves of a ladder of up to two tiers with all pairs of percentages,
  cancellations before, on and after a tier and after the start, half paise; the
  queries, pages and dialogs of the frontend, with each command that changes or drops
  what one of them shows.

### What the violation runs show

Each is a behaviour of the code that a line of the repository rules out; the
line is quoted in `PROJECT.json` under `findings`.

* `refund_races`: a quick booking is paid, a cancellation reads the paid total, the
  payment is removed from the ledger, and the cancellation writes the refund that it
  judged: more than the ledger has collected.
* `sweep_deletes_sale`: a hold confirmed between the sweep's SELECT and its DELETE
  by id is deleted although it is a sold booking.  `SettledGoBySweepOrCourt` shows
  that, but for the removal of its court, nothing else deletes one.
* `captured_lost`: the hold is deleted while the webhook holds what it read: the
  payment violates its foreign key, the event is stored, every retry is a
  duplicate, and the money is neither booked nor sent back.
* `clash_rolls_back`: the INSERT of one week that is taken fails the transaction all
  weeks share; the catch around it goes on into a transaction that refuses every
  statement, and the weeks that were free are not booked either.

### Noticed while reading

Most of these are behaviours of the models; none has a run of its own.

*Engine and checkout.*  `update` judges the status it read and writes by id alone,
so a slow change can turn a booking another request cancelled into a no-show.  A
hold that pushes out an expired one, and `release`, delete holds without looking for
payments, which cascade.  A ledger below zero makes every cancellation of the booking
fail, a refund of nothing included (`S/reservations/reservations.service.ts:233`).  A
short payment is asked back by the intent's amount.  A late failure of an earlier
attempt marks a paid intent failed, so a later cancellation sends nothing back
(`S/payments/checkout.service.ts:208`; `docs/ARCHITECTURE.md:269`).  `cancelOwn` calls
the gateway inside its transaction: if it fails afterwards, the refund is the one thing
not undone (`S/public/public-booking.service.ts:215`).  An event that names no amount is
compared with nothing and books the full price (`S/payments/checkout.service.ts:216`;
the adapters' `entity.amount != null`), although `docs/ARCHITECTURE.md:242` has a short payment
refunded.  The order is created before the
intent, although the comment at `S/payments/checkout.service.ts:47-49` has it the other
way round.  `expires_at` stays on a hold that an owner confirms
(`backend/migrations/0007_holds_and_otp.sql:19-20`).  The slot of a customer's
cancellation is not back on sale while the gateway is asked
(`docs/ARCHITECTURE.md:279`).

*Invoices.*  A booking cancelled between the check and the INSERT is invoiced
(`S/invoicing/invoices.service.ts:84`).  With a four-character prefix the number is
printed without padding, and from the 1000th document of a year its last digit is cut
off (`S/invoicing/gst.ts:138-140`).

*Messages.*  The reminder query takes a number of bookings in no order and does not
leave out those that have their reminder, so the same ones can fill it every time
(`S/notifications/notifications.service.ts:262`).  A customer who opts out still gets
what was queued before; a reminder goes out for a booking cancelled after it was
queued; a webhook whose booking was cancelled meanwhile queues a confirmation for it; a
hold that the owner confirms is confirmed without a message.

*Series.*  A booking made while `end` runs stays on an ended series; `extend` does not
look at the status; the nightly job books again a week that was cancelled alone;
`materialised_through` can go backwards; `end` cancels paid bookings without a refund
although `docs/ARCHITECTURE.md:115-116` says that they stay; the advisory lock may stay
with an idle session until the pool closes it.

*Staff and customers.*  Two owners who demote each other at once leave nobody
(`S/staff/staff.service.ts:253`).  An expired invitation blocks its address and is not
listed.  Acceptance does not look at the expiry again when it spends the invitation.
The attempt that counts a wrong code is rolled back with the refusal
(`S/public/otp/otp.service.ts:101-102`).  Two right codes at once both sign in.  A
number changed at the desk keeps the old number as its name.

*Halls.*  `docs/ARCHITECTURE.md:564-567` calls it impossible that the pipeline and the
diary disagree.  A tentative hold confirmed at the desk leaves its enquiry `quoted`
beside a sold date, and booking the enquiry then clashes with its own hold; two agents
at once can sell one enquiry twice, or have it lost and sold (`contested`).  A hall
cannot be removed while a won enquiry links to its booking, a cancelled one too: the
CHECK refuses what the cascade would empty.  A lost enquiry can be booked; `holds.create` does
not look at the kind of resource, so a hall can be held like a court.

*Rules.*  Two saves of a policy at once merge into a ladder neither check saw
(`S/cancellation/cancellation.service.ts:48-49`), two saves of hours into a week nobody
submitted (`S/availability/hours.service.ts:35` says otherwise).  The slot of an expired
hold shows as taken although a hold would sweep it (`S/public/public.service.ts:200-208`;
`S/public/holds.service.ts:94-97` expects the opposite).  A hold's price is that of its
first tick.  A start exactly at the midnight after the booking window is refused by the
page, which compares dates, and accepted by a hold (`S/public/holds.service.ts:311`
against `S/public/public.service.ts:116`).  Both are exceptions of `PageAndHoldAgree`.

*Venues.*  `deleteResource` counts what occupies the court and then deletes it with all
that hangs on it: cancelled bookings and no-shows go with their payments, and so does a
booking made between count and delete (`S/venues/venues.service.ts:213-239`).

*Frontend.*  `release()` closes the booking dialog without waiting for its DELETE, so the
page may fetch the slots before the hold is gone and go on showing one as taken
(`F/public/BookingFlow.tsx:164-172`).  A hold made after the dialog was closed blocks the customer's own second
try until it is swept.  A poll for a deleted hold gets 404 for ever, so a late refund is
never shown.  A confirmation whose answer is lost shows no error, and pressing again is
refused although it is booked.  A 401 sends a customer to the staff login
(`F/lib/api.ts`; `F/public/MyBookings.tsx:163-165` expects the code again).  Renaming,
switching off or removing a hall leaves the list of halls, and removing a court its
closures, as they were.  These pairs, the booking dialog's commands and the wish that is
shown from its own answer are what `ShownIsUpToDate` excepts (`Overlooked` in `Screens`).  A fetch that was out of view when a
command was answered arrives as fresh old data.  Cards that save a whole set send the
draft they opened with.

### Fairness

Always of the code's own timers, loops and event handlers, never of what customers or
owners do.

* `ExpiredHoldsGo`: `WF` of `SweepList` is the timer that fires every 30 seconds in
  every instance; `WF` of a turn of the loop is that a transaction which was started
  goes on; `SF` of `SweepCommit` says that sweeps may fail (`SweepAbort` is always
  possible instead) but not for ever.
* `EveryMessageIsAnswered`: `SF`, for each message, of a delivery run that takes it,
  because the timer fires every ten seconds and takes the oldest first; `WF` that a run
  which was started goes on to its commit, if it does not die.  Mishaps are bounded, as
  a process that dies in every run delivers nothing.
* `NeverRunsOut`: `WF` of each step of a call and of the job, of the nightly start, and
  of the pool closing an idle session: a lock left behind is what would otherwise stop
  the job for good.  The property is of series that nothing stands in the way of any
  more.
* `BookedIsNoticed`, `SlotComesBack`: `WF` of the dialog's poll timer, of the server
  serving what was sent, of the clock and of the timer of the sweep; `SF` of its write,
  which may fail but not for ever.  Lost calls are bounded by
  `MaxLost`.

## 5. The proofs

All for every value of the constants, under the assumptions named in the modules:
slots are not empty, amounts are positive, `SweepLimit` is a number, the values that
stand for nothing (`"nobody"`, `"none"`, `Nobody`, `NoHire`) are not ids, rates are at
most 100 %, percentages of a tier too, `Challenge` and `Visitor` are finite because
their members are counted, a clerk is not a replica.  Each inductive invariant was
checked by TLC on the instance of its run before it was proved.

* **`ReservationsProofs`** proves `Spec => []TypeOK`, `Spec => []NoDoubleBooking`,
  `Spec => []RowsPassChecks` and `Spec => SettledGoBySweepOrCourt`.  The
  inductive invariant is `IInv == TypeOK /\ RowsPassChecks /\ UpdatesAreOfBookings /\
  NoDoubleBooking`.  `RowsPassChecks` alone is not inductive: a status change writes
  what was judged earlier, so it needs `UpdatesAreOfBookings` (what is in flight
  is the change of a booking, and a row never changes its kind).
  `NoDoubleBooking` rests on three lemmas that every action reduces to: rows
  untouched, rows that leave, one row that enters a vacant slot.
  The same module proves `Spec => MarketSpec`: every step is a sale, a holder
  becoming firm, a giving up, or nothing.  `NoDoubleBooking` is what makes `Owner`,
  a CHOOSE, a function of the row.
* **`CheckoutProofs`** proves type correctness and `[]RecordedOnce`,
  `[]BookedOrSentBack`, `[]NoShortPaymentBooked`, `[]PaidIsNotHeld` and
  `[]LedgerRefundsMoved`.  Types need
  `Placed`: what a step looks up (the order of an attempt, the attempt of a paid
  intent, the order a cancellation refunds) is there.  The money needs `MoneyInv`: a
  delivery in hand is of a stored event that no other delivery handles
  (`HandledOnce`, from the unique key), it was not found short before it is booked
  (`JudgedFirst`; an event that names no amount is never found short), and money on the books is of an event that everybody is done
  with (`BookedIsDone`) and against a booking that is more than a hold
  (`BookedIsSold`), which stays so because no handler turns a row back into a
  hold.  The ledger alone is not an
  inductive bound on what the gateway returned, since `cancelOwn` asks the gateway
  first and writes later: `RefundsInv` (`Covered`) adds what the cancellations in
  flight have been paid and not yet written, and says that the sets summed over are
  finite, which no constant promises.  A cancellation moves its amount from one sum to
  the other.
  `Checkout` does not implement `Reservations` (a webhook confirms and books in
  one step, and a payment row can appear for any status), so it is proved
  separately that it keeps `NoDoubleBooking` and implements `CourtMarket`.
* **`InvoicesProofs`** proves type correctness, `[]Unbroken` (invariant
  `SeriesInv`: the number a clerk holds is the counter of its year, and no two
  clerks hold one of the same year), `[]TaxedOnce` and `[]DocumentsAddUp`
  (`TaxInv`: drafts and documents are founded on `ComputeTax` or on the original
  they reverse; the division lemmas say how far rounding can be off),
  `DocumentsStay`, and that `Invoices` implements `Reservations`, so what is proved
  there holds with clerks at work.
* **`OutboxProofs`** proves type correctness, `[]ToldOnce` and `AnswersStand`
  (invariant `DeliveryInv`: runs are alone, they hold only rows that are pending, a
  key on its way into the table is not there and nobody else brings it, and what was
  told is on record, on its way there or unheard), `[]SaidIsSo` (`SaidInv`: what a
  request wrote still fits the row it locked, and one request writes a row at a time)
  and `[]EveryBookingIsSaid` (`BookingsInv`: a request that found its message on the
  table still finds it, or it was sent and purged).
* **`SeriesProofs`** proves `[]CalendarIsSound`, `HistoryStays` and `[]NoHole`.
  `Typed` says of a call in flight what the handler relies on: its series exists, or is
  the one that it is making and nobody else's (`ClaimsHold`).  `SoldInv` adds that what an open transaction has inserted nobody else has
  (`InsertsApart`): the constraint judges rows that are not committed too.  For `NoHole`
  the dates are followed through a call: `HoleInv` says that each date of the rule that a
  call read is in its hand, in the table, or excused (`NoneForgottenBy`), and that what
  lies beyond the end of a series is excused (`EndsExcused`), also when the end is moved
  while a call is at work.  A call works out at most `Cap` weeks from the first date of
  the series, but moves `materialised_through` to the horizon all the same; so what holds
  of every calendar is `NoHoleToTheCap`, and `NoHole` is proved of calendars within
  `Cap` weeks (`CapAssumption`; 520 weeks in the code, ten years of one series).
* **`PeopleProofs`** is about `Staff`, `Customers` and `Enquiries`.
  *Staff*: type correctness, `[]AnOwnerIsLeft` and `[]InvitesMakeOneLogin`.
  `StaffInv` adds `LoginsExist` (whoever passed the guard, and
  whoever is to be changed, has a login that no step deletes), `SpentMade` (an
  invitation is marked spent by the transaction that makes its login) and `OwnerInv`
  (a business that invites has a login; every business with a login has an active owner,
  and a judgement that an owner is left still stands when it is written, unless the
  business is `raced`).  A change that does not take an owner away while another, judged,
  is to take a different one leaves every judgement standing, so all other overlaps are
  inside the theorem.
  *Customers*: type correctness and `[]CodesHold`.  That one code makes one session, and
  that codes keep their distance, is not so when requests overlap; `CodeInv` is the
  budget that is left: sessions made and requests checking one code, and recent codes
  and requests asking for one, are no more than were in flight at one time.
  *Enquiries*: type correctness, `[]LapsedHoldsCanGo` (`LapseInv`: a
  firm hire is confirmed or cancelled, the sweep lists none, and a won enquiry links to
  one) and `[]WonByBooking`.  Its first half, that a won enquiry links to a booking made
  for good from it, follows from `LapseInv` and so holds of contested enquiries too; its
  second half, that such a booking is the only one, needs `PipelineInv`: besides, at
  most one request works on an enquiry that is not contested, so what it judged is
  still so.
* **`RulesProofs`** is about `Offers`, `Pricing`, `RefundPolicy` and `Screens`, as
  `MCRules` puts them side by side, and proves type correctness, `[]PageAndHoldAgree`,
  `[]OnePrice`, `[]EarlierIsNoWorse` and `[]ShownIsUpToDate`.
  `OfferInv`: windows do not overlap, merged ones neither, because the constraint judges
  the rows of both saves; so a slot lies in one window.  A slot of the day begins within
  it (`SlotsOfTheDay`), so comparing dates and comparing its start with a midnight come
  to the same but at that midnight (`WindowByDaysAndTicks`).  `PricingInv`: no two rules were
  made at the same time, the last tie-break, so `Better` is an order of the rules and the
  reduce ends at its greatest, whatever order it reads them in.  `PolicyInv`: a save that
  has been alone has seen every row there is (`PolicyAlone`), so what is in force is a
  ladder that was judged, or two saves met.  That a refund grows with the notice given
  rests on lemmas about rounding: a quotient rounded half up is monotone and never more
  than what was collected.  `UpToDateInv`: a query that was in view when a command was sent and
  still is has something to show, and the command reaches it (`Wired`: it writes none of
  the tables, drops the query, closes the only dialog that shows it, or is one of the
  pairs in `Overlooked`); what is owed is not about to be overwritten by older data, and
  what is left to the closing of a dialog will be dropped by it (`WhatIsOwed`).  `ViewsAreWired` goes through the 29 views one
  by one, `OverStays` shows that there are no others.
* **`BookingFlowProofs`** proves type correctness, `[]DoneMeansBooked` and
  `BookedIsKept`.  `FlowInv` adds `OneThingAtATime` (before the hold nothing else is asked,
  and afterwards no hold is), `NewsIsTrue` (while the dialog is there to hear it, an
  answer that says confirmed is of a row that is booked, or was until the desk or the
  customer cancelled it, or the sweep or the removal of its court deleted it) and
  `ListedIsThere` (what the sweep has listed has not been deleted by anybody else).

Two proofs are of definitions that go through data one element after another: the
reduce of `resolvePrice` (a recursive function) and the sum in `LedgerRefundsMoved` (a
fold of the community modules).  The library's induction theorems cannot be used for
them here; instead, what is to be shown is shown of a smallest exception
(`NatLessThanWellFounded`, or the parts of a finite set ordered by inclusion, with
`WFMin`), which leads to a contradiction in one step.

Only model-checked: `NeverRunsOut`, `EveryMessageIsAnswered`, `BookedIsNoticed`,
`SlotComesBack` and `ExpiredHoldsGo`, which are liveness under fairness and so outside
this prover's reach, and the four violations, which are counterexamples.

## 6. Not modelled

Hashes, signatures and the rate limits of endpoints; row-level security (the premise
that tenants do not meet); the sums of a report, the text of an invoice or a message,
time zones; what an audit entry says (that commands leave one is in `Screens`; no
handler reads it back); a venue's settings, which are constants wherever a rule depends
on them; slugs; migrations, seed and
configuration, which run before anything interleaves; health and logging; the HTTP of
the gateways and of WhatsApp (their outcomes are modelled); and in the frontend the
forms of login and acceptance, types and formatting.
