------------------------------- MODULE Offers -------------------------------
(***************************************************************************)
(* What a court offers on one day, and what a visitor may hold             *)
(* (backend/src/availability, public.service, holds.service): the weekly   *)
(* windows of that weekday, overrides for the date, the slots made from    *)
(* them, the reservations in the way, the prices, and how long before and  *)
(* how far ahead one may book.  The page and the hold judge by different   *)
(* functions: one generates the slots of a date, the other takes any span. *)
(*                                                                         *)
(* Time is counted in ticks from the start of the day; before it, below 0. *)
(***************************************************************************)
EXTENDS Integers, FiniteSets

CONSTANTS
  DayEnd,      \* ticks of a day
  SlotTicks,   \* length of a slot of the court
  MaxWindows,  \* windows in one submitted week (bound)
  SpecialDay,  \* the windows that overrides give
  Asked,       \* the spans that are asked for, on the grid of slots and off it
  MinNotice,      \* min_notice_minutes, in ticks
  BookingWindow,  \* booking_window_days
  Clock,          \* the times at which somebody looks
  Tariff,         \* the starts that the court's price rules can cover
  HoursSave, HoursEditor

ASSUME OffersAssumption ==
  /\ DayEnd \in Nat \ {0} /\ SlotTicks \in Nat \ {0} /\ MaxWindows \in Nat
  /\ MinNotice \in Nat /\ BookingWindow \in Nat /\ Clock \subseteq Int
  /\ SpecialDay \cup Asked \subseteq {s \in (0 .. DayEnd) \X (0 .. DayEnd) : s[1] < s[2]}

VARIABLES
  windows, hoursSaves, hoursContested,  \* the weekly rules, and saves in flight
  override,                             \* by level, what is said for the date
  taken,                                \* the reservation of the court on that day
  active,                               \* the court is on sale at all
  priced,                               \* the starts that some price rule covers
  now

hoursVars == <<windows, hoursSaves, hoursContested, override>>
saleVars == <<active, priced, now>>
offerVars == <<hoursVars, taken, saleVars>>

---------------------------------------------------------------------------
\* Spans of ticks: <<start, end>>.

Span == {s \in (0 .. DayEnd) \X (0 .. DayEnd) : s[1] < s[2]}

overlaps(a, b) == a[1] < b[2] /\ b[1] < a[2]
Apart(a, b) == ~overlaps(a, b)

\* assertWindowsSane.
Sane(W) == \A a, b \in W : a # b => Apart(a, b)

Weeks == {W \in SUBSET Span : Cardinality(W) <= MaxWindows /\ Sane(W)}

Hours == INSTANCE SavedSet WITH
  Save <- HoursSave, Editor <- HoursEditor, Compatible <- Apart, Choice <- Weeks,
  rows <- windows, saving <- hoursSaves, contested <- hoursContested

---------------------------------------------------------------------------
\* The pure functions.

Level == {"court", "venue"}
NoOverride == <<"none">>
Closed == <<"closed">>

\* openingFor: the windows of the day; a closed day has none.
openingFor ==
  LET said == IF override["court"] # NoOverride THEN override["court"] ELSE override["venue"]
  IN  IF said = NoOverride THEN Hours!AllRows
      ELSE IF said = Closed THEN {} ELSE {said}

\* generateSlots of one window, and of the day.
generateSlots(w) ==
  {<<w[1] + SlotTicks * i, w[1] + SlotTicks * (i + 1)>> :
     i \in {j \in 0 .. DayEnd : w[1] + SlotTicks * (j + 1) <= w[2]}}
slotsForWindows == UNION {generateSlots(w) : w \in openingFor}

\* Mutant of isWithinOpening: what ends at closing time is outside.
isWithinOpeningStrictly(span) == \E w \in openingFor : span[1] >= w[1] /\ span[2] < w[2]

isWithinOpening(span) == \E w \in openingFor : span[1] >= w[1] /\ span[2] <= w[2]

---------------------------------------------------------------------------
\* The reservations of the day are one row: enough to be in the way of a span.

Free == [status |-> "none"]
TakenRow == [status : {"held", "lapsed", "confirmed"}, span : Span]

Occupies(span) == taken # Free /\ overlaps(taken.span, span)

\* availability(): slots the page shows as available.  It compares days for
\* the booking window, and a lapsed hold still has an occupying status.
today == now \div DayEnd
withinWindow == today <= 0 /\ 0 <= today + BookingWindow
tooSoon(s) == s[1] < now + MinNotice

PageShows ==
  {s \in slotsForWindows :
     active /\ ~Occupies(s) /\ ~tooSoon(s) /\ withinWindow /\ s[1] \in priced}

\* assertBookable compares the start with the end of the last day, and lets
\* a start at that very midnight pass.
assertBookable(span) ==
  /\ span[1] >= now + MinNotice
  /\ span[1] <= (today + BookingWindow + 1) * DayEnd

\* holds.create: and the constraint admits it at once, or after the sweep of
\* lapsed holds in its way.
HoldAccepts(span) ==
  /\ active /\ assertBookable(span) /\ isWithinOpening(span) /\ span[1] \in priced
  /\ Occupies(span) => taken.status = "lapsed"

OfferInit ==
  /\ Hours!SavedSetInit
  /\ override = [l \in Level |-> NoOverride]
  /\ taken = Free
  /\ active = TRUE /\ priced = {} /\ now \in Clock

SaveHours == Hours!SavedSetNext /\ UNCHANGED <<override, taken, saleVars>>

\* One override for a date at each level.
CreateOverride(l, said) ==
  /\ override[l] = NoOverride
  /\ override' = [override EXCEPT ![l] = said]
  /\ UNCHANGED <<windows, hoursSaves, hoursContested, taken, saleVars>>

RemoveOverride(l) ==
  /\ override[l] # NoOverride
  /\ override' = [override EXCEPT ![l] = NoOverride]
  /\ UNCHANGED <<windows, hoursSaves, hoursContested, taken, saleVars>>

\* The owner switches the court on or off, or changes its price rules.
SwitchCourt == active' = ~active /\ UNCHANGED <<hoursVars, taken, priced, now>>
SavePrices(starts) == priced # starts /\ priced' = starts /\ UNCHANGED <<hoursVars, taken, active, now>>

Passes(time) == time > now /\ now' = time /\ UNCHANGED <<hoursVars, taken, active, priced>>

Take(row) == taken' = row /\ UNCHANGED <<hoursVars, saleVars>>

TakeHold(span) == HoldAccepts(span) /\ (taken = Free \/ taken.status = "lapsed")
                  /\ Take([status |-> "held", span |-> span])

\* At the desk, outside the hours when it is said so.
QuickBookSpan(span) == active /\ taken = Free /\ Take([status |-> "confirmed", span |-> span])

LapseOfHold == taken # Free /\ taken.status = "held" /\ Take([taken EXCEPT !.status = "lapsed"])

\* Cancelled, released or swept.
GiveBack == taken # Free /\ Take(Free)

OfferNext ==
  \/ SaveHours
  \/ \E l \in Level :
       \/ \E said \in SpecialDay \cup {Closed} : CreateOverride(l, said)
       \/ RemoveOverride(l)
  \/ \E span \in Asked : TakeHold(span) \/ QuickBookSpan(span)
  \/ LapseOfHold \/ GiveBack
  \/ SwitchCourt
  \/ \E starts \in Tariff : SavePrices(starts)
  \/ \E time \in Clock : Passes(time)

---------------------------------------------------------------------------
\* Properties.

OffersTypeOK ==
  /\ Hours!SavedSetTypeOK
  /\ override \in [Level -> Span \cup {NoOverride, Closed}]
  /\ taken \in TakenRow \cup {Free}
  /\ active \in BOOLEAN /\ now \in Clock /\ priced \in Tariff \cup {{}}

\* The midnight with which the first day after the booking window begins.
JustAfterWindow(s) == s[1] = 0 /\ today + BookingWindow = -1

\* The two ways to judge agree, also when saves of the week have merged:
\* what the page shows as available a hold is accepted for, and no two of its
\* slots overlap.  The other way round, a slot that a hold is accepted for is
\* shown, but for two cases in which the page says no and the server yes: a
\* lapsed hold is in its way, or it begins at the midnight after the window.
PageAndHoldAgree ==
  /\ \A s \in PageShows : HoldAccepts(s)
  /\ \A s \in slotsForWindows : HoldAccepts(s) => s \in PageShows \/ Occupies(s) \/ JustAfterWindow(s)
  /\ \A s, t \in slotsForWindows : s # t => Apart(s, t)
=============================================================================
