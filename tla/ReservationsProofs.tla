------------------------ MODULE ReservationsProofs ------------------------
(***************************************************************************)
(* Theorems about Reservations, for every set of bookings, slots, payments *)
(* and requests: types, what keeps bookings apart and money in its rows,   *)
(* and that the reservation table implements CourtMarket.                  *)
(***************************************************************************)
EXTENDS Reservations, TLAPS

\* The rows the handlers write are rows.
LEMMA RowTypes ==
  /\ NoRow \in Row
  /\ GoneRow \in Row
  /\ \A s \in Slot : Booked(s) \in Row /\ Held(s) \in Row /\ Blocked(s) \in Row
BY DEF Row, NoRow, GoneRow, Booked, Held, Blocked, LiveStatus, BookingStatus

\* The ledger stays a ledger whatever a deletion takes with it.
LEMMA CascadeType ==
  ASSUME TypeOK, NEW gone
  PROVE  Cascade(gone) \in [Payment -> PaymentRow \cup {NoPayment}]
BY DEF TypeOK, Cascade

LEMMA InsertType ==
  ASSUME TypeOK, NEW p \in Payment, NEW b \in Booking, NEW dir \in {"in", "refund"},
         NEW a \in Amount
  PROVE  Insert(p, b, dir, a) \in [Payment -> PaymentRow \cup {NoPayment}]
BY DEF TypeOK, Insert, PaymentRow

LEMMA IdleType == Idle \in InFlight
BY DEF InFlight

LEMMA FinishType ==
  ASSUME TypeOK, NEW r \in Request, Finish(r)
  PROVE  inflight' \in [Request -> InFlight]
BY IdleType DEF TypeOK, Finish

\* What a handler in flight was about.
LEMMA InFlightBooking ==
  ASSUME TypeOK, NEW r \in Request
  PROVE  /\ inflight[r].op \in {"confirm", "update", "cancel"} => inflight[r].booking \in Booking
         /\ inflight[r].op = "update" => inflight[r].to \in BookingStatus
         /\ inflight[r].op = "cancel" => inflight[r].refund \in Amount \cup {0}
         /\ inflight[r].op = "removeCourt" => inflight[r].court \in Court
BY DEF TypeOK, InFlight, Idle

\* Every variable keeps its type: rows, ledger, handlers and sweep.
LEMMA TypeStep == TypeOK /\ [Next]_vars => TypeOK'
<1> SUFFICES ASSUME TypeOK, [Next]_vars PROVE TypeOK'
  OBVIOUS
<1>1. ASSUME NEW b \in Booking, NEW s \in Slot, QuickBook(b, s) PROVE TypeOK'
  BY <1>1, RowTypes DEF TypeOK, QuickBook
<1>2. ASSUME NEW b \in Booking, NEW s \in Slot, Block(b, s) PROVE TypeOK'
  BY <1>2, RowTypes DEF TypeOK, Block
<1>3. ASSUME NEW r \in Request, NEW b \in Booking, NEW to \in BookingStatus,
             UpdateRead(r, b, to)
      PROVE  TypeOK'
  BY <1>3 DEF TypeOK, UpdateRead, Start, InFlight
<1>4. ASSUME NEW r \in Request, UpdateWrite(r) PROVE TypeOK'
  <2>1. reservation' \in [Booking -> Row]
    BY <1>4, InFlightBooking DEF TypeOK, UpdateWrite, Row, LiveStatus
  <2>2. QED
    BY <1>4, <2>1, FinishType DEF TypeOK, UpdateWrite
<1>5. ASSUME NEW r \in Request, NEW b \in Booking, NEW a \in Amount \cup {0},
             CancelRead(r, b, a)
      PROVE  TypeOK'
  BY <1>5 DEF TypeOK, CancelRead, Start, InFlight
<1>6. ASSUME NEW r \in Request, CancelWrite(r) PROVE TypeOK'
  <2>0. /\ inflight[r].booking \in Booking
        /\ \/ reservation' = [reservation EXCEPT ![inflight[r].booking].status = "cancelled"]
           \/ UNCHANGED reservation
    BY <1>6, InFlightBooking DEF CancelWrite
  <2>1. reservation' \in [Booking -> Row]
    BY <2>0 DEF TypeOK, Row, LiveStatus, BookingStatus
  <2>2. payment' \in [Payment -> PaymentRow \cup {NoPayment}]
    <3>1. ASSUME inflight[r].refund > 0, NEW p \in Payment,
                 payment' = Insert(p, inflight[r].booking, "refund", inflight[r].refund)
          PROVE  payment' \in [Payment -> PaymentRow \cup {NoPayment}]
      <4>1. inflight[r].booking \in Booking /\ inflight[r].refund \in Amount
        BY <1>6, <3>1, InFlightBooking DEF CancelWrite
      <4>2. QED
        BY <3>1, <4>1, InsertType
    <3>2. QED
      BY <1>6, <3>1 DEF TypeOK, CancelWrite
  <2>3. QED
    BY <1>6, <2>1, <2>2, FinishType DEF TypeOK, CancelWrite
<1>7. ASSUME NEW b \in Booking, RemoveBlock(b) PROVE TypeOK'
  BY <1>7, RowTypes, CascadeType DEF TypeOK, RemoveBlock
<1>8. ASSUME NEW p \in Payment, NEW b \in Booking, NEW dir \in {"in", "refund"},
             NEW a \in Amount, RecordPayment(p, b, dir, a)
      PROVE  TypeOK'
  BY <1>8, InsertType DEF TypeOK, RecordPayment
<1>9. ASSUME NEW p \in Payment, RemovePayment(p) PROVE TypeOK'
  BY <1>9 DEF TypeOK, RemovePayment
<1>10. ASSUME NEW b \in Booking, NEW s \in Slot, Hold(b, s) PROVE TypeOK'
  BY <1>10, RowTypes, CascadeType DEF TypeOK, Hold
<1>11. ASSUME NEW r \in Request, NEW b \in Booking, ConfirmRead(r, b) PROVE TypeOK'
  BY <1>11 DEF TypeOK, ConfirmRead, Start, InFlight
<1>12. ASSUME NEW r \in Request, ConfirmWrite(r) PROVE TypeOK'
  <2>1. reservation' \in [Booking -> Row]
    BY <1>12, InFlightBooking DEF TypeOK, ConfirmWrite, Row, LiveStatus, BookingStatus
  <2>2. QED
    BY <1>12, <2>1, FinishType DEF TypeOK, ConfirmWrite
<1>13. ASSUME NEW b \in Booking, Release(b) PROVE TypeOK'
  BY <1>13, RowTypes, CascadeType DEF TypeOK, Release
<1>14. ASSUME NEW b \in Booking, DeadlinePasses(b) PROVE TypeOK'
  BY <1>14 DEF TypeOK, DeadlinePasses, Row
<1>15. CASE SweepList
  BY <1>15 DEF TypeOK, SweepList, SweepIdle
<1>16. ASSUME NEW b \in Booking, SweepCount(b) PROVE TypeOK'
  BY <1>16 DEF TypeOK, SweepCount
<1>17. CASE SweepCommit
  <2>1. reservation' \in [Booking -> Row]
    BY <1>17, RowTypes DEF TypeOK, SweepCommit, Row, LiveStatus, BookingStatus
  <2>2. QED
    BY <1>17, <2>1, CascadeType DEF TypeOK, SweepCommit, SweepIdle
<1>18. CASE SweepAbort
  BY <1>18 DEF TypeOK, SweepAbort, SweepIdle
<1>19. ASSUME NEW r \in Request, NEW k \in Court, RemoveCourtRead(r, k) PROVE TypeOK'
  BY <1>19 DEF TypeOK, RemoveCourtRead, Start, InFlight
<1>20. ASSUME NEW r \in Request, RemoveCourtWrite(r) PROVE TypeOK'
  <2>1. inflight[r].court \in Court
    BY <1>20, InFlightBooking DEF RemoveCourtWrite
  <2>2. QED
    BY <1>20, <2>1, RowTypes, CascadeType, FinishType DEF TypeOK, RemoveCourtWrite
<1>21. CASE UNCHANGED vars
  BY <1>21 DEF TypeOK, vars
<1>22. QED
  BY <1>1, <1>2, <1>3, <1>4, <1>5, <1>6, <1>7, <1>8, <1>9, <1>10, <1>11, <1>12,
     <1>13, <1>14, <1>15, <1>16, <1>17, <1>18, <1>19, <1>20, <1>21
     DEF Next, Desk, Customer, Sweeper

THEOREM TypeCorrect == Spec => []TypeOK
<1>1. Init => TypeOK
  BY RowTypes, IdleType DEF Init, TypeOK, SweepIdle
<1>2. QED
  BY <1>1, TypeStep, PTL DEF Spec

---------------------------------------------------------------------------
\* A status change in flight is about a booking that was there when it was
\* read.  Ids are not used twice, so it never writes a block: without this
\* RowsPassChecks is not inductive.
UpdatesAreOfBookings ==
  \A r \in Request : inflight[r].op = "update" =>
    /\ inflight[r].to \in {"confirmed", "completed", "no_show"}
    /\ reservation[inflight[r].booking].kind # "block"
    /\ reservation[inflight[r].booking].status # "unused"

\* The inductive invariant: the two safety invariants and what they rest on.
IInv == TypeOK /\ RowsPassChecks /\ UpdatesAreOfBookings /\ NoDoubleBooking

LEMMA InitIInv == Init => IInv
<1> SUFFICES ASSUME Init PROVE IInv
  OBVIOUS
<1>1. TypeOK
  BY RowTypes, IdleType DEF Init, TypeOK, SweepIdle
<1>2. RowsPassChecks /\ UpdatesAreOfBookings /\ NoDoubleBooking
  BY DEF Init, RowsPassChecks, UpdatesAreOfBookings, NoDoubleBooking, NoRow, Idle,
         Occupies, Occupying, BookingStatus
<1>3. QED
  BY <1>1, <1>2 DEF IInv

\* A step that writes no row and starts or ends no status change.
LEMMA RowsUntouched ==
  ASSUME IInv, TypeOK', UNCHANGED reservation,
         \A r \in Request : inflight'[r].op = "update" => inflight'[r] = inflight[r]
  PROVE  IInv'
<1>1. RowsPassChecks' /\ NoDoubleBooking'
  BY DEF IInv, RowsPassChecks, NoDoubleBooking, Occupies
<1>2. UpdatesAreOfBookings'
  BY DEF IInv, UpdatesAreOfBookings
<1>3. QED
  BY <1>1, <1>2 DEF IInv

\* A handler that ends leaves the others as they were.
LEMMA FinishOthers ==
  ASSUME TypeOK, NEW r \in Request, Finish(r)
  PROVE  \A q \in Request : inflight'[q].op = "update" => inflight'[q] = inflight[q]
BY DEF TypeOK, Finish, Idle

\* A step that only moves rows out of the constraint, deletes them, or leaves
\* them as they are.
LEMMA RowsLeave ==
  ASSUME IInv, TypeOK',
         \A b \in Booking :
           \/ reservation'[b] = reservation[b]
           \/ /\ Exists(b)
              /\ \/ reservation'[b] = GoneRow
                 \/ reservation'[b] = [reservation[b] EXCEPT !.status = "cancelled"],
         \A r \in Request : inflight'[r].op = "update" => inflight'[r] = inflight[r]
  PROVE  IInv'
<1>1. RowsPassChecks'
  BY DEF IInv, TypeOK, Row, RowsPassChecks, GoneRow, NoRow, Exists, LiveStatus, BookingStatus
<1>2. UpdatesAreOfBookings'
  BY InFlightBooking
     DEF IInv, TypeOK, Row, UpdatesAreOfBookings, GoneRow, NoRow, InFlight, Idle
<1>3. NoDoubleBooking'
  BY DEF IInv, TypeOK, Row, NoDoubleBooking, Occupies, Occupying, GoneRow, NoRow
<1>4. QED
  BY <1>1, <1>2, <1>3 DEF IInv

\* A step that writes one row, which the constraint lets in, and otherwise
\* only removes rows.
LEMMA RowEnters ==
  ASSUME IInv, TypeOK', NEW b \in Booking,
         reservation'[b].kind = "booking" =>
            reservation'[b].status \in BookingStatus,
         reservation'[b].kind = "block" => reservation'[b].status = "blocked",
         reservation'[b].kind # "none",
         reservation'[b].status = "held" => reservation'[b].deadline # "none",
         reservation'[b].slot \in Slot,
         reservation[b].status = "unused" \/ reservation'[b].kind = reservation[b].kind,
         reservation'[b].status \notin {"unused", "gone"},
         \A c \in Booking \ {b} : \/ reservation'[c] = reservation[c]
                                  \/ reservation'[c] = GoneRow,
         \A c \in Booking \ {b} :
            reservation'[c].status \in Occupying /\ reservation'[b].status \in Occupying
              => reservation'[c].slot \cap reservation'[b].slot = {},
         \A r \in Request : inflight'[r].op = "update" => inflight'[r] = inflight[r]
  PROVE  IInv'
<1>1. RowsPassChecks'
  BY DEF IInv, TypeOK, Row, RowsPassChecks, GoneRow, NoRow, BookingStatus
<1>2. UpdatesAreOfBookings'
  BY InFlightBooking DEF IInv, TypeOK, UpdatesAreOfBookings, GoneRow, NoRow
<1>3. NoDoubleBooking'
  BY DEF IInv, NoDoubleBooking, Occupies, GoneRow, NoRow, Occupying
<1>4. QED
  BY <1>1, <1>2, <1>3 DEF IInv

\* Every step of every handler keeps the inductive invariant.
LEMMA IInvStep == IInv /\ [Next]_vars => IInv'
<1> SUFFICES ASSUME IInv, [Next]_vars PROVE IInv'
  OBVIOUS
<1>0. TypeOK /\ TypeOK'
  BY TypeStep DEF IInv
<1>1. ASSUME NEW b \in Booking, NEW s \in Slot, QuickBook(b, s) PROVE IInv'
  BY <1>0, <1>1, RowEnters
     DEF QuickBook, Booked, Vacant, Occupies, TypeOK, BookingStatus
<1>2. ASSUME NEW b \in Booking, NEW s \in Slot, Block(b, s) PROVE IInv'
  BY <1>0, <1>2, RowEnters
     DEF Block, Blocked, Vacant, Occupies, TypeOK, BookingStatus
<1>3. ASSUME NEW r \in Request, NEW b \in Booking, NEW to \in BookingStatus,
             UpdateRead(r, b, to)
      PROVE  IInv'
  <2>1. to \in {"confirmed", "completed", "no_show"}
    BY <1>0, <1>3
       DEF UpdateRead, Permitted, AllowedTransitions, Exists, LiveStatus, BookingStatus, TypeOK, Row
  <2>2. UpdatesAreOfBookings'
    BY <1>0, <1>3, <2>1
       DEF UpdateRead, Permitted, Start, Idle, IInv, UpdatesAreOfBookings, TypeOK, Exists,
           LiveStatus, BookingStatus
  <2>3. RowsPassChecks' /\ NoDoubleBooking'
    BY <1>3 DEF UpdateRead, IInv, RowsPassChecks, NoDoubleBooking, Occupies
  <2>4. QED
    BY <1>0, <2>2, <2>3 DEF IInv
<1>4. ASSUME NEW r \in Request, UpdateWrite(r) PROVE IInv'
  <2> DEFINE b == inflight[r].booking
             to == inflight[r].to
  <2>1. b \in Booking /\ Finish(r)
    BY <1>0, <1>4, InFlightBooking DEF UpdateWrite
  <2>2. \A q \in Request : inflight'[q].op = "update" => inflight'[q] = inflight[q]
    BY <1>0, <2>1, FinishOthers
  <2>3. CASE UNCHANGED reservation
    BY <1>0, <2>2, <2>3, RowsUntouched
  <2>4. CASE /\ Exists(b)
             /\ to \in Occupying => Vacant(reservation[b].slot, {b})
             /\ reservation' = [reservation EXCEPT ![b].status = to]
    <3>1. /\ reservation[b].kind = "booking"
          /\ to \in {"confirmed", "completed", "no_show"}
      BY <1>0, <1>4, <2>1, <2>4
         DEF UpdateWrite, IInv, UpdatesAreOfBookings, RowsPassChecks, Exists, LiveStatus,
             BookingStatus, TypeOK, Row
    <3>2. reservation[b].slot \in Slot
      BY <2>1, <3>1 DEF IInv, RowsPassChecks
    <3>3. /\ reservation'[b].kind = "booking" /\ reservation'[b].status = to
          /\ reservation'[b].slot = reservation[b].slot
          /\ \A c \in Booking \ {b} : reservation'[c] = reservation[c]
      BY <1>0, <2>1, <2>4, <3>1 DEF TypeOK, Row
    <3>4. \A c \in Booking \ {b} :
            reservation'[c].status \in Occupying /\ reservation'[b].status \in Occupying
              => reservation'[c].slot \cap reservation'[b].slot = {}
      BY <2>1, <2>4, <3>3 DEF Vacant, Occupies
    <3> HIDE DEF b, to
    <3>5. QED
      BY <1>0, <2>1, <2>2, <3>1, <3>2, <3>3, <3>4, RowEnters DEF BookingStatus
  <2>5. QED
    BY <1>4, <2>3, <2>4 DEF UpdateWrite
<1>5. ASSUME NEW r \in Request, NEW b \in Booking, NEW a \in Amount \cup {0},
             CancelRead(r, b, a)
      PROVE  IInv'
  BY <1>0, <1>5, RowsUntouched DEF CancelRead, Start, TypeOK
<1>6. ASSUME NEW r \in Request, CancelWrite(r) PROVE IInv'
  <2>1. inflight[r].booking \in Booking /\ Finish(r)
    BY <1>0, <1>6, InFlightBooking DEF CancelWrite
  <2>2. \A q \in Request : inflight'[q].op = "update" => inflight'[q] = inflight[q]
    BY <1>0, <2>1, FinishOthers
  <2>3. QED
    BY <1>0, <1>6, <2>1, <2>2, RowsLeave DEF CancelWrite, TypeOK
<1>7. ASSUME NEW b \in Booking, RemoveBlock(b) PROVE IInv'
  BY <1>0, <1>7, RowsLeave DEF RemoveBlock, TypeOK
<1>8. ASSUME NEW p \in Payment, NEW b \in Booking, NEW dir \in {"in", "refund"},
             NEW a \in Amount, RecordPayment(p, b, dir, a)
      PROVE  IInv'
  BY <1>0, <1>8, RowsUntouched DEF RecordPayment
<1>9. ASSUME NEW p \in Payment, RemovePayment(p) PROVE IInv'
  BY <1>0, <1>9, RowsUntouched DEF RemovePayment
<1>10. ASSUME NEW b \in Booking, NEW s \in Slot, Hold(b, s) PROVE IInv'
  <2> DEFINE swept == IF Vacant(s, {}) THEN {} ELSE SweepableOver(s)
  <2>1. /\ reservation[b].status = "unused"
        /\ reservation'[b] = Held(s)
        /\ \A c \in Booking \ {b} : reservation'[c] = IF c \in swept THEN GoneRow
                                                      ELSE reservation[c]
        /\ Vacant(s, swept)
        /\ inflight' = inflight
    BY <1>10 DEF Hold
  <2>2. \A c \in Booking \ {b} :
          reservation'[c].status \in Occupying => reservation'[c].slot \cap s = {}
    BY <2>1 DEF Vacant, Occupies, GoneRow, NoRow, Occupying
  <2>3. QED
    BY <1>0, <2>1, <2>2, RowEnters DEF Held, BookingStatus
<1>11. ASSUME NEW r \in Request, NEW b \in Booking, ConfirmRead(r, b) PROVE IInv'
  BY <1>0, <1>11, RowsUntouched DEF ConfirmRead, Start, TypeOK
<1>12. ASSUME NEW r \in Request, ConfirmWrite(r) PROVE IInv'
  <2> DEFINE b == inflight[r].booking
  <2>1. b \in Booking /\ Finish(r)
    BY <1>0, <1>12, InFlightBooking DEF ConfirmWrite
  <2>2. \A q \in Request : inflight'[q].op = "update" => inflight'[q] = inflight[q]
    BY <1>0, <2>1, FinishOthers
  <2>3. CASE UNCHANGED reservation
    BY <1>0, <2>2, <2>3, RowsUntouched
  <2>4. CASE /\ reservation[b].status = "held"
             /\ reservation' = [reservation EXCEPT ![b].status = "confirmed",
                                                   ![b].deadline = "none"]
    <3>1. reservation[b].kind = "booking"
      BY <1>0, <2>1, <2>4 DEF IInv, RowsPassChecks, TypeOK, Row
    <3>2. reservation'[b] = [reservation[b] EXCEPT !.status = "confirmed", !.deadline = "none"]
      BY <1>0, <2>1, <2>4 DEF TypeOK
    <3>3. /\ reservation'[b].kind = "booking"
          /\ reservation'[b].status = "confirmed"
          /\ reservation'[b].slot = reservation[b].slot
      BY <1>0, <2>1, <3>1, <3>2 DEF TypeOK, Row
    <3>4. \A c \in Booking \ {b} : reservation'[c] = reservation[c]
      BY <1>0, <2>1, <2>4 DEF TypeOK
    <3>5. \A c \in Booking \ {b} : reservation'[c].status \in Occupying
            => reservation'[c].slot \cap reservation'[b].slot = {}
      BY <2>1, <2>4, <3>3, <3>4 DEF IInv, NoDoubleBooking, Occupies, Occupying
    <3>6. reservation[b].slot \in Slot
      BY <2>1, <3>1 DEF IInv, RowsPassChecks
    <3>7. QED
      BY <1>0, <2>1, <2>2, <3>1, <3>3, <3>4, <3>5, <3>6, RowEnters DEF BookingStatus
  <2>5. QED
    BY <1>12, <2>3, <2>4 DEF ConfirmWrite
<1>13. ASSUME NEW b \in Booking, Release(b) PROVE IInv'
  BY <1>0, <1>13, RowsLeave DEF Release, TypeOK, Exists, LiveStatus, BookingStatus
<1>14. ASSUME NEW b \in Booking, DeadlinePasses(b) PROVE IInv'
  <2>1. /\ \A c \in Booking \ {b} : reservation'[c] = reservation[c]
        /\ reservation'[b] = [reservation[b] EXCEPT !.deadline = "past"]
        /\ inflight' = inflight
    BY <1>0, <1>14 DEF DeadlinePasses, TypeOK
  <2>2. \A c \in Booking : /\ reservation'[c].kind = reservation[c].kind
                           /\ reservation'[c].status = reservation[c].status
                           /\ reservation'[c].slot = reservation[c].slot
                           /\ reservation'[c].deadline \in {reservation[c].deadline, "past"}
    BY <1>0, <2>1 DEF TypeOK, Row
  <2>3. RowsPassChecks'
    BY <2>2 DEF IInv, RowsPassChecks
  <2>4. UpdatesAreOfBookings'
    BY <1>0, <2>1, <2>2, InFlightBooking DEF IInv, UpdatesAreOfBookings
  <2>5. NoDoubleBooking'
    BY <2>2 DEF IInv, NoDoubleBooking, Occupies
  <2>6. QED
    BY <1>0, <2>3, <2>4, <2>5 DEF IInv
<1>15. CASE SweepList
  BY <1>0, <1>15, RowsUntouched DEF SweepList
<1>16. ASSUME NEW b \in Booking, SweepCount(b) PROVE IInv'
  BY <1>0, <1>16, RowsUntouched DEF SweepCount
<1>17. CASE SweepCommit
  BY <1>0, <1>17, RowsLeave DEF SweepCommit
<1>18. CASE SweepAbort
  BY <1>0, <1>18, RowsUntouched DEF SweepAbort
<1>19. ASSUME NEW r \in Request, NEW k \in Court, RemoveCourtRead(r, k) PROVE IInv'
  BY <1>0, <1>19, RowsUntouched DEF RemoveCourtRead, Start, TypeOK
<1>20. ASSUME NEW r \in Request, RemoveCourtWrite(r) PROVE IInv'
  <2>1. \A q \in Request : inflight'[q].op = "update" => inflight'[q] = inflight[q]
    BY <1>0, <1>20, FinishOthers DEF RemoveCourtWrite
  <2>2. \A b \in Booking : \/ reservation'[b] = reservation[b]
                           \/ Exists(b) /\ reservation'[b] = GoneRow
    BY <1>20 DEF RemoveCourtWrite
  <2>3. QED
    BY <1>0, <2>1, <2>2, RowsLeave
<1>21. CASE UNCHANGED vars
  BY <1>0, <1>21, RowsUntouched DEF vars
<1>22. QED
  BY <1>1, <1>2, <1>3, <1>4, <1>5, <1>6, <1>7, <1>8, <1>9, <1>10, <1>11, <1>12,
     <1>13, <1>14, <1>15, <1>16, <1>17, <1>18, <1>19, <1>20, <1>21
     DEF Next, Desk, Customer, Sweeper

\* No two reservations that occupy a court ever overlap: for every set of
\* slots, whatever handlers are in flight and whatever the sweep has listed.
THEOREM NeverDoubleBooked == Spec => []NoDoubleBooking
<1>1. IInv => NoDoubleBooking
  BY DEF IInv
<1>2. QED
  BY InitIInv, IInvStep, <1>1, PTL DEF Spec

\* No handler ever writes a row that the table's CHECK constraints refuse.
THEOREM RowsAlwaysPassChecks == Spec => []RowsPassChecks
<1>1. IInv => RowsPassChecks
  BY DEF IInv
<1>2. QED
  BY InitIInv, IInvStep, <1>1, PTL DEF Spec

\* A booking that is more than a hold is deleted by a sweep that had listed it
\* or with its court, and by nothing else: release and the sweep before a
\* retried hold repeat their condition in the DELETE, remove takes blocks only.
THEOREM SettledGoNoOtherWay == Spec => SettledGoBySweepOrCourt
<1> DEFINE Kept == \A b \in Booking : Settled(b) /\ ~Exists(b)' =>
                     b \in sweep.delete \/ \E k \in removed' : reservation[b].slot \in k
<1>1. IInv /\ [Next]_vars => [Kept]_vars
  <2> SUFFICES ASSUME IInv, [Next]_vars, NEW b \in Booking, Settled(b), ~Exists(b)'
               PROVE  b \in sweep.delete \/ \E k \in removed' : reservation[b].slot \in k
    BY DEF vars
  <2>0. TypeOK /\ Exists(b) /\ reservation[b].kind = "booking"
    BY DEF IInv, Settled, Exists, LiveStatus, BookingStatus
  <2>1. reservation'[b] # reservation[b]
    BY <2>0 DEF Exists
  <2>2. ASSUME NEW c \in Booking, NEW s \in Slot, QuickBook(c, s) \/ Block(c, s) PROVE FALSE
    BY <2>0, <2>1, <2>2 DEF QuickBook, Block, TypeOK, Settled
  <2>3. ASSUME NEW r \in Request, UpdateWrite(r) PROVE FALSE
    BY <2>0, <2>1, <2>3, InFlightBooking DEF UpdateWrite, TypeOK, Row, Exists, LiveStatus
  <2>4. ASSUME NEW r \in Request, CancelWrite(r) PROVE FALSE
    BY <2>0, <2>1, <2>4, InFlightBooking
       DEF CancelWrite, TypeOK, Row, Exists, LiveStatus, BookingStatus
  <2>5. ASSUME NEW c \in Booking, RemoveBlock(c) \/ Release(c) \/ DeadlinePasses(c) PROVE FALSE
    BY <2>0, <2>1, <2>5 DEF RemoveBlock, Release, DeadlinePasses, TypeOK, Row, Settled, Exists
  <2>6. ASSUME NEW c \in Booking, NEW s \in Slot, Hold(c, s) PROVE FALSE
    BY <2>0, <2>1, <2>6 DEF Hold, SweepableOver, ExpiredHold, TypeOK, Settled
  <2>7. ASSUME NEW r \in Request, ConfirmWrite(r) PROVE FALSE
    BY <2>0, <2>1, <2>7, InFlightBooking DEF ConfirmWrite, TypeOK, Settled
  <2>8. ASSUME SweepCommit PROVE b \in sweep.delete
    BY <2>0, <2>1, <2>8 DEF SweepCommit, TypeOK, Row, Exists, LiveStatus, BookingStatus
  <2>9. ASSUME NEW r \in Request, RemoveCourtWrite(r)
        PROVE  \E k \in removed' : reservation[b].slot \in k
    BY <2>0, <2>1, <2>9 DEF RemoveCourtWrite
  <2>10. QED
    BY <2>1, <2>2, <2>3, <2>4, <2>5, <2>6, <2>7, <2>8, <2>9
       DEF Next, Desk, Customer, Sweeper, UpdateRead, CancelRead, RecordPayment,
           RemovePayment, RemoveCourtRead, ConfirmRead, SweepList, SweepCount,
         SweepAbort, vars
<1>2. QED
  BY InitIInv, IInvStep, <1>1, PTL DEF Spec, SettledGoBySweepOrCourt
---------------------------------------------------------------------------
\* Refinement of CourtMarket.  Each step of a handler is one of three things
\* to the market: somebody gives cells up, a hold becomes firm, or one booking
\* takes cells that are free or whose holders are deleted in the same step.

FirmStatus == Occupying \ {"held"}

\* Occupies, after the step.
WillOccupy(b) == reservation'[b].status \in Occupying

\* What Owner's CHOOSE returns when nothing is double booked: the one booking
\* that occupies the cell, if any.  Stated for a state and for its successor.
LEMMA OwnerIs ==
  ASSUME NoDoubleBooking, NEW c
  PROVE  /\ \A b \in Booking : Owner(c) = b <=> Occupies(b) /\ c \in reservation[b].slot
         /\ Owner(c) \in Booking \cup {Nobody}
<1>1. CASE \E b \in Booking : Occupies(b) /\ c \in reservation[b].slot
  <2>1. /\ Owner(c) \in Booking
        /\ Occupies(Owner(c)) /\ c \in reservation[Owner(c)].slot
    BY <1>1 DEF Owner
  <2>2. QED
    BY <2>1 DEF NoDoubleBooking
<1>2. CASE ~\E b \in Booking : Occupies(b) /\ c \in reservation[b].slot
  BY <1>2, NobodyAssumption DEF Owner, Nobody
<1>3. QED
  BY <1>1, <1>2

LEMMA OwnerWillBe ==
  ASSUME NoDoubleBooking', NEW c
  PROVE  /\ \A b \in Booking : Owner(c)' = b <=> WillOccupy(b) /\ c \in reservation'[b].slot
         /\ Owner(c)' \in Booking \cup {Nobody}
<1>1. CASE \E b \in Booking : WillOccupy(b) /\ c \in reservation'[b].slot
  <2>1. PICK b \in Booking : Owner(c)' = b /\ WillOccupy(b) /\ c \in reservation'[b].slot
    BY <1>1 DEF Owner, Occupies, WillOccupy
  <2>2. QED
    BY <2>1 DEF NoDoubleBooking, Occupies, WillOccupy
<1>2. CASE ~\E b \in Booking : WillOccupy(b) /\ c \in reservation'[b].slot
  BY <1>2, NobodyAssumption DEF Owner, Nobody, Occupies, WillOccupy
<1>3. QED
  BY <1>1, <1>2

\* A step after which every booking that occupies cells already did, the same
\* ones and as firmly.  A step that touches no row is one: nobody leaves.
LEMMA LeavingIsGiveUp ==
  ASSUME IInv, IInv',
         \A b \in Booking : WillOccupy(b) =>
           /\ Occupies(b)
           /\ reservation'[b].slot = reservation[b].slot
           /\ reservation'[b].status \in FirmStatus <=> reservation[b].status \in FirmStatus
  PROVE  Market!Next
<1>0. PICK leavers \in SUBSET Booking : leavers = {b \in Booking : ~WillOccupy(b)}
  OBVIOUS
<1>1. ASSUME NEW c \in Cells
      PROVE  Owner(c)' = IF Owner(c) \in leavers THEN Nobody ELSE Owner(c)
  BY <1>0, OwnerIs, OwnerWillBe, NobodyAssumption DEF IInv, Nobody
<1>2. {b \in Booking : reservation[b].status \in Occupying \ {"held"}}' =
        {b \in Booking : reservation[b].status \in Occupying \ {"held"}} \ leavers
  BY <1>0 DEF Occupies, WillOccupy, FirmStatus
<1>3. Market!GiveUp(leavers)
  BY <1>1, <1>2 DEF Market!GiveUp
<1>4. QED
  BY <1>3 DEF Market!Next

\* A hold that becomes a firm sale of its own slot.
LEMMA ConfirmingIsMakeFirm ==
  ASSUME IInv, IInv', NEW b \in Booking, reservation[b].status = "held",
         reservation'[b].status \in FirmStatus,
         reservation'[b].slot = reservation[b].slot,
         \A c \in Booking \ {b} : reservation'[c] = reservation[c]
  PROVE  Market!Next
<1>1. ASSUME NEW c \in Cells PROVE Owner(c)' = Owner(c)
  BY OwnerIs, OwnerWillBe DEF IInv, Occupies, WillOccupy, Occupying, FirmStatus, Nobody
<1>2. \E c \in Cells : Owner(c) = b
  <2>1. /\ Occupies(b)
        /\ reservation[b].slot \in Slot
    BY DEF IInv, RowsPassChecks, Occupies, Occupying
  <2>2. PICK c \in Cells : c \in reservation[b].slot
    BY <2>1, SlotAssumption DEF Cells
  <2>3. QED
    BY <2>1, <2>2, OwnerIs DEF IInv
<1>3. {a \in Booking : reservation[a].status \in Occupying \ {"held"}}' =
        {a \in Booking : reservation[a].status \in Occupying \ {"held"}} \cup {b}
  BY DEF FirmStatus
<1>4. Market!MakeFirm(b)
  BY <1>1, <1>2, <1>3 DEF Market!MakeFirm, Market!Owns
<1>5. QED
  BY <1>4 DEF Market!Next

\* A booking that had no cells takes those of s; the rows over it are deleted,
\* and they were only held.
LEMMA TakingIsSell ==
  ASSUME IInv, IInv', NEW b \in Booking, NEW s \in Slot, NEW swept \in SUBSET Booking,
         ~Occupies(b), WillOccupy(b), reservation'[b].slot = s,
         \A c \in swept : reservation[c].status = "held",
         \A c \in Booking \ {b} :
           reservation'[c] = IF c \in swept THEN GoneRow ELSE reservation[c],
         Vacant(s, swept \cup {b})
  PROVE  Market!Next
<1>1. ASSUME NEW c \in Cells
      PROVE  /\ Owner(c) # b
             /\ c \in s => Owner(c) \in swept \cup {Nobody}
             /\ Owner(c)' = IF c \in s THEN b
                            ELSE IF Owner(c) \in swept THEN Nobody
                            ELSE Owner(c)
  <2>1. Owner(c) # b
    BY OwnerIs DEF IInv
  <2>2. ASSUME c \in s PROVE Owner(c) \in swept \cup {Nobody}
    BY <2>1, <2>2, OwnerIs DEF IInv, Vacant
  <2>3. ASSUME c \in s PROVE Owner(c)' = b
    BY <2>3, OwnerWillBe DEF IInv
  <2>4. ASSUME c \notin s, NEW a \in Booking
        PROVE  (WillOccupy(a) /\ c \in reservation'[a].slot)
               <=> (a \notin swept /\ Occupies(a) /\ c \in reservation[a].slot)
    BY <2>4 DEF Occupies, WillOccupy, Occupying, GoneRow, NoRow
  <2>5. ASSUME c \notin s
        PROVE  Owner(c)' = IF Owner(c) \in swept THEN Nobody ELSE Owner(c)
    BY <2>4, <2>5, OwnerIs, OwnerWillBe, NobodyAssumption DEF IInv, Nobody
  <2>6. QED
    BY <2>1, <2>2, <2>3, <2>5
<1>2. {a \in Booking : reservation[a].status \in Occupying \ {"held"}}' \in
        {{a \in Booking : reservation[a].status \in Occupying \ {"held"}},
         {a \in Booking : reservation[a].status \in Occupying \ {"held"}} \cup {b}}
  <2>1. ASSUME NEW a \in Booking \ {b}
        PROVE  reservation'[a].status \in Occupying \ {"held"}
               <=> reservation[a].status \in Occupying \ {"held"}
    BY DEF Occupying, GoneRow, NoRow
  <2>2. reservation[b].status \notin Occupying
    BY DEF Occupies
  <2>3. CASE reservation'[b].status = "held"
    BY <2>1, <2>2, <2>3
  <2>4. CASE reservation'[b].status # "held"
    BY <2>1, <2>2, <2>4 DEF WillOccupy
  <2>5. QED
    BY <2>3, <2>4
<1>3. swept \cap {a \in Booking : reservation[a].status \in Occupying \ {"held"}} = {}
  OBVIOUS
<1>4. s \in SUBSET Cells
  BY DEF Cells
<1>5. Market!Sell(b, s, swept)
  <2>1. [c \in Cells |-> Owner(c)]' =
          [c \in Cells |-> IF c \in s THEN b
                           ELSE IF Owner(c) \in swept THEN Nobody
                           ELSE Owner(c)]
    BY <1>1
  <2>2. \A c \in Cells : ~Market!Owns(b, c)
    BY <1>1 DEF Market!Owns
  <2>3. \A c \in s : [d \in Cells |-> Owner(d)][c] \in swept \cup {Nobody}
    BY <1>1, <1>4
  <2>4. QED
    BY <1>2, <1>3, <2>1, <2>2, <2>3 DEF Market!Sell
<1>6. QED
  BY <1>4, <1>5 DEF Market!Next

\* Each step of a handler is a step of the market.
LEMMA StepIsMarketStep == IInv /\ IInv' /\ [Next]_vars => Market!Next
<1> SUFFICES ASSUME IInv, IInv', [Next]_vars PROVE Market!Next
  OBVIOUS
<1>0. TypeOK /\ TypeOK'
  BY DEF IInv
<1>1. CASE UNCHANGED reservation
  BY <1>1, LeavingIsGiveUp DEF Occupies, WillOccupy, Occupying
<1>2. ASSUME NEW b \in Booking, NEW s \in Slot, QuickBook(b, s) \/ Block(b, s)
      PROVE  Market!Next
  <2>1. /\ reservation[b].status = "unused"
        /\ reservation'[b] \in {Booked(s), Blocked(s)}
        /\ \A c \in Booking \ {b} : reservation'[c] = reservation[c]
        /\ Vacant(s, {b})
    BY <1>0, <1>2 DEF QuickBook, Block, TypeOK, Vacant
  <2>2. ~Occupies(b) /\ WillOccupy(b) /\ reservation'[b].slot = s
    BY <2>1 DEF Occupies, WillOccupy, Occupying, Booked, Blocked
  <2>3. Vacant(s, {} \cup {b}) /\ {} \in SUBSET Booking
    BY <2>1
  <2>4. QED
    BY <2>1, <2>2, <2>3, TakingIsSell
<1>3. ASSUME NEW b \in Booking, NEW s \in Slot, Hold(b, s) PROVE Market!Next
  <2> DEFINE swept == IF Vacant(s, {}) THEN {} ELSE SweepableOver(s)
  <2>1. /\ reservation[b].status = "unused"
        /\ reservation'[b] = Held(s)
        /\ \A c \in Booking \ {b} : reservation'[c] = IF c \in swept THEN GoneRow
                                                      ELSE reservation[c]
        /\ Vacant(s, swept)
    BY <1>3 DEF Hold
  <2>2. swept \in SUBSET Booking /\ \A c \in swept : reservation[c].status = "held"
    BY DEF SweepableOver, ExpiredHold
  <2>3. ~Occupies(b) /\ WillOccupy(b) /\ reservation'[b].slot = s
    BY <2>1 DEF Occupies, WillOccupy, Occupying, Held
  <2>4. Vacant(s, swept \cup {b})
    BY <2>1 DEF Vacant
  <2> HIDE DEF swept
  <2>5. QED
    BY <2>1, <2>2, <2>3, <2>4, TakingIsSell
<1>4. ASSUME NEW r \in Request, UpdateWrite(r) PROVE Market!Next
  <2> DEFINE b == inflight[r].booking
             to == inflight[r].to
  <2>1. b \in Booking /\ to \in {"confirmed", "completed", "no_show"}
    BY <1>0, <1>4, InFlightBooking DEF UpdateWrite, IInv, UpdatesAreOfBookings
  <2>2. SUFFICES ASSUME /\ Exists(b)
                        /\ to \in Occupying => Vacant(reservation[b].slot, {b})
                        /\ reservation' = [reservation EXCEPT ![b].status = to]
                 PROVE  Market!Next
    BY <1>1, <1>4 DEF UpdateWrite
  <2>3. /\ reservation'[b].status = to
        /\ reservation'[b].slot = reservation[b].slot
        /\ reservation[b].slot \in Slot
        /\ \A c \in Booking \ {b} : reservation'[c] = reservation[c]
    <3>1. reservation[b] \in Row
      BY <1>0, <2>1 DEF TypeOK
    <3>2. reservation[b].slot \in Slot
      <4>1. reservation[b].kind # "none"
        BY <2>1, <2>2 DEF IInv, RowsPassChecks, Exists, LiveStatus, BookingStatus
      <4>2. QED
        BY <2>1, <4>1 DEF IInv, RowsPassChecks
    <3>3. reservation' = [reservation EXCEPT ![b] = [reservation[b] EXCEPT !.status = to]]
      BY <2>2
    <3>4. QED
      BY <1>0, <2>1, <3>1, <3>2, <3>3 DEF TypeOK, Row
  <2> HIDE DEF b, to
  <2>4. CASE to = "no_show"
    BY <2>1, <2>3, <2>4, LeavingIsGiveUp DEF Occupies, WillOccupy, Occupying
  <2>5. CASE to # "no_show" /\ ~Occupies(b)
    <3>1. WillOccupy(b) /\ Vacant(reservation[b].slot, {} \cup {b}) /\ {} \in SUBSET Booking
      BY <2>1, <2>2, <2>3, <2>5 DEF WillOccupy, Occupying
    <3>2. QED
      BY <2>1, <2>3, <2>5, <3>1, TakingIsSell
  <2>6. CASE to # "no_show" /\ reservation[b].status = "held"
    BY <2>1, <2>3, <2>6, ConfirmingIsMakeFirm DEF FirmStatus, Occupying
  <2>7. CASE to # "no_show" /\ reservation[b].status \in FirmStatus
    BY <2>1, <2>3, <2>7, LeavingIsGiveUp DEF Occupies, WillOccupy, Occupying, FirmStatus
  <2>8. QED
    BY <2>4, <2>5, <2>6, <2>7 DEF Occupies, FirmStatus
<1>5. ASSUME NEW r \in Request, CancelWrite(r) PROVE Market!Next
  <2>1. \A b \in Booking :
          reservation'[b] \in {reservation[b], [reservation[b] EXCEPT !.status = "cancelled"]}
    BY <1>0, <1>5, InFlightBooking DEF CancelWrite, TypeOK
  <2>2. QED
    BY <1>0, <2>1, LeavingIsGiveUp DEF Occupies, WillOccupy, Occupying, TypeOK, Row
<1>6. ASSUME NEW b \in Booking, RemoveBlock(b) \/ Release(b) PROVE Market!Next
  BY <1>0, <1>6, LeavingIsGiveUp
     DEF RemoveBlock, Release, TypeOK, Occupies, WillOccupy, Occupying, GoneRow, NoRow
<1>7. ASSUME NEW b \in Booking, DeadlinePasses(b) PROVE Market!Next
  BY <1>0, <1>7, LeavingIsGiveUp DEF DeadlinePasses, TypeOK, Row, Occupies, WillOccupy
<1>8. ASSUME NEW r \in Request, ConfirmWrite(r) PROVE Market!Next
  <2> DEFINE b == inflight[r].booking
  <2>1. SUFFICES ASSUME /\ reservation[b].status = "held"
                        /\ reservation' = [reservation EXCEPT ![b].status = "confirmed",
                                                              ![b].deadline = "none"]
                 PROVE  Market!Next
    BY <1>1, <1>8 DEF ConfirmWrite
  <2>2. b \in Booking
    BY <1>0, <1>8, InFlightBooking DEF ConfirmWrite
  <2>3. /\ reservation'[b].status \in FirmStatus
        /\ reservation'[b].slot = reservation[b].slot
        /\ \A c \in Booking \ {b} : reservation'[c] = reservation[c]
    BY <1>0, <2>1, <2>2 DEF TypeOK, Row, FirmStatus, Occupying
  <2> HIDE DEF b
  <2>4. QED
    BY <2>1, <2>2, <2>3, ConfirmingIsMakeFirm
<1>9. CASE SweepCommit
  <2>1. \A b \in Booking :
          reservation'[b] \in {GoneRow, reservation[b],
                               [reservation[b] EXCEPT !.status = "cancelled"]}
    BY <1>9 DEF SweepCommit
  <2>2. QED
    BY <1>0, <2>1, LeavingIsGiveUp
       DEF Occupies, WillOccupy, Occupying, TypeOK, Row, GoneRow, NoRow
<1>10. ASSUME NEW r \in Request, RemoveCourtWrite(r) PROVE Market!Next
  <2>1. \A b \in Booking : reservation'[b] \in {GoneRow, reservation[b]}
    BY <1>10 DEF RemoveCourtWrite
  <2>2. QED
    BY <1>0, <2>1, LeavingIsGiveUp
       DEF Occupies, WillOccupy, Occupying, TypeOK, GoneRow, NoRow
<1>11. QED
  BY <1>1, <1>2, <1>3, <1>4, <1>5, <1>6, <1>7, <1>8, <1>9, <1>10
     DEF Next, Desk, Customer, Sweeper, UpdateRead, CancelRead, RecordPayment,
         RemovePayment, RemoveCourtRead, ConfirmRead, SweepList, SweepCount,
         SweepAbort, vars

\* The reservation table implements the court market: a cell has one owner,
\* and one that is firmly sold is given up before anybody else has it.
THEOREM ImplementsMarket == Spec => MarketSpec
<1>1. Init => Market!Init
  BY DEF Init, Market!Init, Owner, Occupies, Occupying, NoRow, Nobody
<1>2. IInv /\ IInv' /\ [Next]_vars => [Market!Next]_(Market!vars)
  BY StepIsMarketStep
<1>3. QED
  BY InitIInv, IInvStep, <1>1, <1>2, PTL DEF Spec, MarketSpec, Market!Spec
===========================================================================
