--------------------------- MODULE Reservations ---------------------------
(***************************************************************************)
(* The reservation table of a venue, the ledger of payments that hangs off *)
(* it, and the handlers of the reservation engine that write them: the     *)
(* owner's quick-book, block, status change, cancellation and removal, the *)
(* removal of a court, which takes its rows along, the customer's hold,    *)
(* confirm and release, and the scheduled sweep of expired holds.  Other   *)
(* services write the table too: a paid webhook confirms, a customer's own *)
(* cancellation cancels (Checkout); a series and a hall enquiry book by    *)
(* the statements of quick-book.                                           *)
(*                                                                         *)
(* A request runs in one READ COMMITTED transaction.  A handler that       *)
(* decides on what it selected and writes later is two actions here, the   *)
(* select and the write, and what it selected waits in between in inflight *)
(* or sweep.  A handler whose one statement repeats its conditions in its  *)
(* WHERE clause, or that reads only columns nobody changes, is one action. *)
(* A row written by an open transaction is locked until it ends, so a      *)
(* write and its commit are one step; a transaction that fails is a        *)
(* request that changed nothing.                                           *)
(***************************************************************************)
EXTENDS Integers, FiniteSets, FiniteSetsExt

CONSTANTS
  Booking,            \* reservation ids; an id names one row, for ever
  Slot,               \* the (court, interval) pairs on sale, each as the set
                      \* of cells (court, smallest time unit) it covers
  Court,              \* the courts an owner may remove, each as the slots on
                      \* it; {} leaves the removal of courts out
  Payment,            \* payment ids
  Amount,             \* the sums a payment or a refund can have
  Request,            \* the handlers that can be in flight at one time
  RequiresPrepayment, \* venue.requires_prepayment
  SweepLimit          \* LIMIT of the sweep's query (500 in the code);
                      \* 0 leaves the scheduled sweep out

ASSUME SlotAssumption == \A s \in Slot : s # {}
ASSUME CourtAssumption == Court \subseteq SUBSET Slot
ASSUME AmountAssumption == Amount \subseteq Nat \ {0}
ASSUME SweepLimitAssumption == SweepLimit \in Nat
ASSUME NobodyAssumption == "nobody" \notin Booking

VARIABLES
  reservation,  \* the rows, with their status
  payment,      \* the ledger rows
  inflight,     \* what each handler that has only read so far will act on
  sweep,        \* the scheduled sweep: phase, ids to look at, what it decided
  removed       \* the courts whose resource row is deleted

vars == <<reservation, payment, inflight, sweep, removed>>

---------------------------------------------------------------------------
\* The table.

BookingStatus == {"held", "confirmed", "completed", "cancelled", "no_show"}
LiveStatus == BookingStatus \cup {"blocked"}

\* reservation_no_overlap: the statuses that take part in the constraint.
Occupying == {"held", "confirmed", "completed", "blocked"}

\* "unused" and "gone" are not statuses of a row: no row yet, row deleted.
\* deadline is expires_at, seen from now().
Row == [kind : {"none", "booking", "block"},
        status : LiveStatus \cup {"unused", "gone"},
        slot : Slot \cup {{}},
        deadline : {"none", "live", "past"}]

NoRow == [kind |-> "none", status |-> "unused", slot |-> {}, deadline |-> "none"]
GoneRow == [NoRow EXCEPT !.status = "gone"]
Booked(s) == [kind |-> "booking", status |-> "confirmed", slot |-> s, deadline |-> "none"]
Held(s) == [kind |-> "booking", status |-> "held", slot |-> s, deadline |-> "live"]
Blocked(s) == [kind |-> "block", status |-> "blocked", slot |-> s, deadline |-> "none"]

Exists(b) == reservation[b].status \in LiveStatus
Occupies(b) == reservation[b].status \in Occupying
ExpiredHold(b) == reservation[b].status = "held" /\ reservation[b].deadline = "past"

\* Mutant of Vacant: a constraint that could evaluate now() and let an expired
\* hold be booked over.
VacantButExpired(s, but) ==
  \A b \in Booking \ but : Occupies(b) /\ ~ExpiredHold(b) => reservation[b].slot \cap s = {}

\* The exclusion constraint lets a row for s in when no other occupying row
\* overlaps it; the rows in but are about to be deleted or replaced.
Vacant(s, but) == \A b \in Booking \ but : Occupies(b) => reservation[b].slot \cap s = {}

\* Mutant of SweepableOver: the DELETE without its status = 'held'.
PastDeadlineOver(s) ==
  {b \in Booking : reservation[b].deadline = "past" /\ reservation[b].slot \cap s # {}}

\* The expired holds that overlap s.
SweepableOver(s) == {b \in Booking : ExpiredHold(b) /\ reservation[b].slot \cap s # {}}

---------------------------------------------------------------------------
\* The ledger.

PaymentRow == [booking : Booking, direction : {"in", "refund"}, amount : Amount]
NoPayment == [booking |-> "none", direction |-> "none", amount |-> 0]

RowsOf(b) == {p \in Payment : payment[p].booking = b}
Signed(p) == IF payment[p].direction = "in" THEN payment[p].amount ELSE -payment[p].amount
PaidTotal(b) == MapThenSumSet(Signed, RowsOf(b))

\* ON DELETE CASCADE: the payments of the deleted bookings go with them.
Cascade(gone) == [p \in Payment |-> IF payment[p].booking \in gone THEN NoPayment ELSE payment[p]]
Insert(p, b, dir, a) ==
  [payment EXCEPT ![p] = [booking |-> b, direction |-> dir, amount |-> a]]

---------------------------------------------------------------------------
\* Handlers in flight.

Idle == [op |-> "idle"]
InFlight == {Idle}
       \cup [op : {"confirm"}, booking : Booking]
       \cup [op : {"update"}, booking : Booking, to : BookingStatus]
       \cup [op : {"cancel"}, booking : Booking, refund : Amount \cup {0}]
       \cup [op : {"removeCourt"}, court : Court]

Start(r, local) == inflight[r] = Idle /\ inflight' = [inflight EXCEPT ![r] = local]
Finish(r) == inflight' = [inflight EXCEPT ![r] = Idle]

SweepIdle == [phase |-> "idle", todo |-> {}, cancel |-> {}, delete |-> {}]

Init ==
  /\ reservation = [b \in Booking |-> NoRow]
  /\ payment = [p \in Payment |-> NoPayment]
  /\ inflight = [r \in Request |-> Idle]
  /\ sweep = SweepIdle
  /\ removed = {}

---------------------------------------------------------------------------
\* The owner's desk.

\* A row for a court that is removed would violate its foreign key.
OnSale(s) == \A k \in removed : s \notin k

\* reservations.create: the constraint, not the code, checks for an overlap.
QuickBook(b, s) ==
  /\ reservation[b].status = "unused"
  /\ OnSale(s)
  /\ Vacant(s, {})
  /\ reservation' = [reservation EXCEPT ![b] = Booked(s)]
  /\ UNCHANGED <<payment, inflight, sweep, removed>>

Block(b, s) ==
  /\ reservation[b].status = "unused"
  /\ OnSale(s)
  /\ Vacant(s, {})
  /\ reservation' = [reservation EXCEPT ![b] = Blocked(s)]
  /\ UNCHANGED <<payment, inflight, sweep, removed>>

AllowedTransitions ==
  [s \in LiveStatus |-> CASE s = "held"      -> {"confirmed"}
                          [] s = "confirmed" -> {"completed", "no_show"}
                          [] s = "completed" -> {"no_show"}
                          [] s = "no_show"   -> {"completed"}
                          [] OTHER           -> {}]

\* Mutant of Permitted: the kind is not looked at.
PermittedOnBlock(b, to) ==
  \/ to \in AllowedTransitions[reservation[b].status]
  \/ reservation[b].kind = "block" /\ to = "completed"

\* A change the owner may make; naming the status the booking has is allowed.
Permitted(b, to) ==
  /\ reservation[b].kind = "booking"
  /\ \/ to \in AllowedTransitions[reservation[b].status]
     \/ to = reservation[b].status /\ to \in {"confirmed", "completed", "no_show"}

\* reservations.update up to the UPDATE: the row is read and the change judged.
UpdateRead(r, b, to) ==
  /\ Exists(b)
  /\ Permitted(b, to)
  /\ Start(r, [op |-> "update", booking |-> b, to |-> to])
  /\ UNCHANGED <<reservation, payment, sweep, removed>>

\* The UPDATE is by id alone.  A row that is gone matches nothing, and a slot
\* sold in the meantime is a constraint violation and a 409.
UpdateWrite(r) ==
  LET b == inflight[r].booking
      to == inflight[r].to
      admitted == to \in Occupying => Vacant(reservation[b].slot, {b})
  IN  /\ inflight[r].op = "update"
      /\ reservation' = IF Exists(b) /\ admitted
                          THEN [reservation EXCEPT ![b].status = to]
                          ELSE reservation
      /\ Finish(r)
      /\ UNCHANGED <<payment, sweep, removed>>

\* reservations.cancel up to its transaction.  refund is the amount it will
\* write in the ledger, 0 when none is recorded.  It is the policy's quote,
\* capped at what was paid, or the owner's override; either is refused above
\* what was paid, a ledger below zero included.
CancelRead(r, b, refund) ==
  /\ Exists(b)
  /\ reservation[b].status # "cancelled"
  /\ refund <= PaidTotal(b)
  /\ Start(r, [op |-> "cancel", booking |-> b, refund |-> refund])
  /\ UNCHANGED <<reservation, payment, sweep, removed>>

\* The UPDATE is by id alone; the refund row needs its booking to exist.
CancelWrite(r) ==
  LET b == inflight[r].booking
      refund == inflight[r].refund
  IN  /\ inflight[r].op = "cancel"
      /\ Finish(r)
      /\ \/ /\ Exists(b)
            /\ reservation' = [reservation EXCEPT ![b].status = "cancelled"]
            /\ \/ refund = 0 /\ UNCHANGED payment
               \/ /\ refund > 0
                  /\ \E p \in Payment :
                       /\ payment[p] = NoPayment
                       /\ payment' = Insert(p, b, "refund", refund)
         \/ ~Exists(b) /\ UNCHANGED <<reservation, payment>>
      /\ UNCHANGED <<sweep, removed>>

\* reservations.remove: blocks only.
RemoveBlock(b) ==
  /\ Exists(b)
  /\ reservation[b].kind = "block"
  /\ reservation' = [reservation EXCEPT ![b] = GoneRow]
  /\ payment' = Cascade({b})
  /\ UNCHANGED <<inflight, sweep, removed>>

\* payments.create: against any booking, whatever its status.
RecordPayment(p, b, dir, a) ==
  /\ Exists(b)
  /\ reservation[b].kind = "booking"
  /\ payment[p] = NoPayment
  /\ payment' = Insert(p, b, dir, a)
  /\ UNCHANGED <<reservation, inflight, sweep, removed>>

\* payments.remove
RemovePayment(p) ==
  /\ payment[p] # NoPayment
  /\ payment' = [payment EXCEPT ![p] = NoPayment]
  /\ UNCHANGED <<reservation, inflight, sweep, removed>>

\* venues.deleteResource up to the DELETE: the rows that occupy the court are
\* counted, and there are none.
RemoveCourtRead(r, k) ==
  /\ k \notin removed
  /\ \A b \in Booking : Occupies(b) => reservation[b].slot \notin k
  /\ Start(r, [op |-> "removeCourt", court |-> k])
  /\ UNCHANGED <<reservation, payment, sweep, removed>>

\* The DELETE is by id alone: ON DELETE CASCADE takes what the count left out
\* and what was booked since.
RemoveCourtWrite(r) ==
  LET k == inflight[r].court
      lost == {b \in Booking : Exists(b) /\ reservation[b].slot \in k}
  IN  /\ inflight[r].op = "removeCourt"
      /\ reservation' = [b \in Booking |-> IF b \in lost THEN GoneRow ELSE reservation[b]]
      /\ payment' = Cascade(lost)
      /\ removed' = removed \cup {k}
      /\ Finish(r)
      /\ UNCHANGED sweep

---------------------------------------------------------------------------
\* The customer.

\* holds.insertHold: one attempt, and on a conflict a sweep of the expired
\* holds over the slot and one more.  A second conflict undoes the sweep.
Hold(b, s) ==
  LET swept == IF Vacant(s, {}) THEN {} ELSE SweepableOver(s)
  IN  /\ reservation[b].status = "unused"
      /\ OnSale(s)
      /\ Vacant(s, swept)
      /\ reservation' = [c \in Booking |-> IF c = b THEN Held(s)
                                           ELSE IF c \in swept THEN GoneRow
                                           ELSE reservation[c]]
      /\ payment' = Cascade(swept)
      /\ UNCHANGED <<inflight, sweep, removed>>

\* holds.confirm up to the UPDATE.  load() asks whose booking it is, not for
\* its status.
ConfirmRead(r, b) ==
  /\ ~RequiresPrepayment
  /\ Exists(b)
  /\ reservation[b].kind = "booking"
  /\ reservation[b].deadline # "past"
  /\ Start(r, [op |-> "confirm", booking |-> b])
  /\ UNCHANGED <<reservation, payment, sweep, removed>>

\* The UPDATE repeats status = 'held'.
ConfirmWrite(r) ==
  LET b == inflight[r].booking
  IN  /\ inflight[r].op = "confirm"
      /\ reservation' = IF reservation[b].status = "held"
                          THEN [reservation EXCEPT ![b].status = "confirmed",
                                                   ![b].deadline = "none"]
                          ELSE reservation
      /\ Finish(r)
      /\ UNCHANGED <<payment, sweep, removed>>

\* Mutant of Release: the DELETE by id alone.
ReleaseAnyStatus(b) ==
  /\ Exists(b)
  /\ reservation' = [reservation EXCEPT ![b] = GoneRow]
  /\ payment' = Cascade({b})
  /\ UNCHANGED <<inflight, sweep, removed>>

\* holds.release: the DELETE repeats status = 'held'.
Release(b) ==
  /\ reservation[b].status = "held"
  /\ reservation' = [reservation EXCEPT ![b] = GoneRow]
  /\ payment' = Cascade({b})
  /\ UNCHANGED <<inflight, sweep, removed>>

\* The clock passes a hold's expires_at.
DeadlinePasses(b) ==
  /\ reservation[b].deadline = "live"
  /\ reservation' = [reservation EXCEPT ![b].deadline = "past"]
  /\ UNCHANGED <<payment, inflight, sweep, removed>>

---------------------------------------------------------------------------
\* The scheduled sweep.  pg_try_advisory_xact_lock admits one at a time.

\* The SELECT of expired holds, at most SweepLimit of them, in no order.
SweepList ==
  LET expired == {b \in Booking : ExpiredHold(b)}
  IN  /\ sweep.phase = "idle"
      /\ \E todo \in SUBSET expired :
           /\ Cardinality(todo) <= SweepLimit
           /\ Cardinality(todo) = SweepLimit \/ todo = expired
           /\ sweep' = [SweepIdle EXCEPT !.phase = "run", !.todo = todo]
      /\ UNCHANGED <<reservation, payment, inflight, removed>>

\* Mutant of SweepCount: a hold with payments is left for later.
SweepCountSkipsPaid(b) ==
  /\ sweep.phase = "run"
  /\ b \in sweep.todo
  /\ sweep' = [sweep EXCEPT !.todo = @ \ {b},
                            !.delete = IF RowsOf(b) = {} THEN @ \cup {b} ELSE @]
  /\ UNCHANGED <<reservation, payment, inflight, removed>>

\* One turn of the loop up to its write: are there payments against b?
SweepCount(b) ==
  /\ sweep.phase = "run"
  /\ b \in sweep.todo
  /\ sweep' = [sweep EXCEPT !.todo = @ \ {b},
                            !.cancel = IF RowsOf(b) # {} THEN @ \cup {b} ELSE @,
                            !.delete = IF RowsOf(b) = {} THEN @ \cup {b} ELSE @]
  /\ UNCHANGED <<reservation, payment, inflight, removed>>

\* The writes, by id alone, and the commit that publishes them together.
SweepCommit ==
  /\ sweep.phase = "run"
  /\ sweep.todo = {}
  /\ reservation' = [b \in Booking |->
                       IF b \in sweep.delete /\ Exists(b) THEN GoneRow
                       ELSE IF b \in sweep.cancel /\ Exists(b)
                              THEN [reservation[b] EXCEPT !.status = "cancelled"]
                       ELSE reservation[b]]
  /\ payment' = Cascade(sweep.delete)
  /\ sweep' = SweepIdle
  /\ UNCHANGED <<inflight, removed>>

\* The transaction fails or the process dies.  Only reads and unpublished
\* writes came before, so when it does makes no difference to anybody.
SweepAbort ==
  /\ sweep.phase = "run"
  /\ sweep.todo = {}
  /\ sweep' = SweepIdle
  /\ UNCHANGED <<reservation, payment, inflight, removed>>

---------------------------------------------------------------------------

Desk ==
  \/ \E b \in Booking, s \in Slot : QuickBook(b, s) \/ Block(b, s)
  \/ \E r \in Request, b \in Booking, to \in BookingStatus : UpdateRead(r, b, to)
  \/ \E r \in Request, b \in Booking, a \in Amount \cup {0} : CancelRead(r, b, a)
  \/ \E r \in Request, k \in Court : RemoveCourtRead(r, k)
  \/ \E r \in Request : UpdateWrite(r) \/ CancelWrite(r) \/ RemoveCourtWrite(r)
  \/ \E b \in Booking : RemoveBlock(b)
  \/ \E p \in Payment, b \in Booking, dir \in {"in", "refund"}, a \in Amount :
       RecordPayment(p, b, dir, a)
  \/ \E p \in Payment : RemovePayment(p)

Customer ==
  \/ \E b \in Booking, s \in Slot : Hold(b, s)
  \/ \E r \in Request, b \in Booking : ConfirmRead(r, b)
  \/ \E r \in Request : ConfirmWrite(r)
  \/ \E b \in Booking : Release(b)

Sweeper == SweepList \/ (\E b \in Booking : SweepCount(b)) \/ SweepCommit \/ SweepAbort

Next == Desk \/ Customer \/ Sweeper \/ \E b \in Booking : DeadlinePasses(b)

Spec == Init /\ [][Next]_vars

\* The timer starts a sweep every thirty seconds and a sweep that is started
\* takes its steps; it may fail, but not for ever.
Fairness ==
  /\ WF_vars(SweepList)
  /\ WF_vars(\E b \in Booking : SweepCount(b))
  /\ SF_vars(SweepCommit)

FairSpec == Spec /\ Fairness
---------------------------------------------------------------------------
\* Properties.

TypeOK ==
  /\ reservation \in [Booking -> Row]
  /\ payment \in [Payment -> PaymentRow \cup {NoPayment}]
  /\ inflight \in [Request -> InFlight]
  /\ sweep \in [phase : {"idle", "run"}, todo : SUBSET Booking,
                cancel : SUBSET Booking, delete : SUBSET Booking]
  /\ removed \subseteq Court

\* No handler writes a row that the CHECK constraints would refuse, so none of
\* them fails half way with a violation nobody maps to an answer
\* (reservation_during_bounded, reservation_kind_status and
\* reservation_hold_has_expiry): the kind that a status change judged is still
\* the kind of the row it writes.
RowsPassChecks ==
  \A b \in Booking :
    LET row == reservation[b]
    IN  /\ row.kind = "block" => row.status \in {"blocked", "cancelled"}
        /\ row.kind = "booking" => row.status \in BookingStatus
        /\ row.kind = "none" <=> row.status \in {"unused", "gone"}
        /\ row.kind # "none" => row.slot \in Slot
        /\ row.status = "held" => row.deadline # "none"

\* No two reservations that occupy a court overlap, whatever the order of
\* quick-books, blocks, holds, retried holds and status changes that go back
\* from no_show to completed (reservation_no_overlap).
NoDoubleBooking ==
  \A b, c \in Booking :
    b # c /\ Occupies(b) /\ Occupies(c) => reservation[b].slot \cap reservation[c].slot = {}

\* The engine is a court market: a cell has one owner and a firm sale is never
\* handed straight to another booking.
Nobody == "nobody"
Owner(c) ==
  IF \E b \in Booking : Occupies(b) /\ c \in reservation[b].slot
    THEN CHOOSE b \in Booking : Occupies(b) /\ c \in reservation[b].slot
    ELSE Nobody
Cells == UNION Slot
Market == INSTANCE CourtMarket WITH
  Cell <- Cells,
  owner <- [c \in Cells |-> Owner(c)],
  firm <- {b \in Booking : reservation[b].status \in Occupying \ {"held"}}
MarketSpec == Market!Spec

\* A booking that was once more than a hold: it belongs to the venue's books.
Settled(b) ==
  /\ reservation[b].kind = "booking"
  /\ reservation[b].status \in {"confirmed", "completed", "cancelled", "no_show"}

\* A booking that is more than a hold leaves the table in two ways only: by a
\* sweep that listed it while it was an expired hold, or with its court.
SettledGoBySweepOrCourt ==
  [][\A b \in Booking : Settled(b) /\ ~Exists(b)' =>
       b \in sweep.delete \/ \E k \in removed' : reservation[b].slot \in k]_vars

\* A booking that is more than a hold stays in the table: "Bookings are
\* cancelled, not deleted, so revenue stays auditable."
SettledBookingsStay ==
  [][\A b \in Booking : Settled(b) => Exists(b)']_vars

\* A cancellation never writes a refund larger than what the ledger then shows
\* as collected: "An override still cannot hand back money that was never
\* collected."
RefundWithinCollected ==
  [][\A r \in Request :
       inflight[r].op = "cancel" /\ inflight'[r] = Idle /\ payment' # payment =>
         inflight[r].refund <= PaidTotal(inflight[r].booking)]_vars

\* An expired hold does not stay: the sweep releases it or cancels it, however
\* many failed sweeps come first.
ExpiredHoldsGo ==
  \A b \in Booking : ExpiredHold(b) ~> ~ExpiredHold(b)
===========================================================================
