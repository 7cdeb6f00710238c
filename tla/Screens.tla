------------------------------ MODULE Screens ------------------------------
(***************************************************************************)
(* What the pages show after a change made on them (frontend/src).  Every  *)
(* list and form is a query of one cache; a query is young for some        *)
(* seconds, and then, or when a command drops it, it is fetched again the  *)
(* next time it is looked at.  Which queries a command drops is written by *)
(* hand, beside each command; which tables a query reads and a command     *)
(* writes is decided on the server.                                        *)
(*                                                                         *)
(* One query is watched, any of them, and one command of this browser is   *)
(* under way at a time: queries meet only in what a command drops, and a   *)
(* command that neither touches nor drops what is watched only closes its  *)
(* dialog, which is a step here as well.  Signing in, accepting an invite  *)
(* and starting a payment drop nothing and change nothing that is shown    *)
(* beside them; they are left out.                                         *)
(***************************************************************************)
EXTENDS Integers, FiniteSets

VARIABLES
  watched,  \* the query
  page,     \* the page that is open
  dialog,   \* the dialog over it
  data,     \* what the cache has: nothing, the truth, or what was true before the last change
  stale,    \* it is no longer young, or was dropped
  fetch,    \* the request for it: none, on its way, or answered from the data of then
  sent,     \* the command under way
  owed      \* for checking: a change made on this page has been answered, and is to be
            \* shown "now", or when the dialog over it is "closing"

screenVars == <<watched, page, dialog, data, stale, fetch, sent, owed>>

---------------------------------------------------------------------------
\* The queries, by the tables that the server reads for them.

OccupancyReads == {"reservation", "customer", "payment"}
CalendarReads == {"venue", "resource", "hours", "override", "rule"} \cup OccupancyReads
WeekReads == {"venue", "resource", "hours", "override"} \cup OccupancyReads
BookingsReads == {"reservation", "resource", "venue", "customer", "payment"}
ReservationReads == {"reservation", "resource", "venue", "customer", "payment"}
CancellationQuoteReads == {"reservation", "payment", "tier"}
InvoicesReads == {"invoice"}
QuoteReads == {"venue", "resource", "rule"}
CustomersReads == {"customer"}
CustomerReads == {"customer", "reservation", "resource"}
SeriesReads == {"series", "resource", "venue", "customer", "reservation"}
ResourcesRead == {"resource"}
VenuesRead == {"venue"}
HoursRead == {"hours"}
OverridesRead == {"override"}
RulesRead == {"rule"}
TiersRead == {"tier"}
MessagesRead == {"message"}
StaffRead == {"staff"}
InvitesRead == {"invite"}
EnquiriesRead == {"enquiry", "resource"}
HallAvailabilityReads == {"venue", "resource", "reservation", "customer"}
ReportReads == {"venue", "resource", "reservation", "payment"}
AuditRead == {"audit"}
PublicVenueReads == {"venue", "resource"}
PublicAvailabilityReads == {"venue", "resource", "hours", "override", "rule", "reservation"}
MyBookingsReads == {"reservation", "resource", "venue", "payment"}

Reads == [
  calendar |-> CalendarReads, week |-> WeekReads, bookings |-> BookingsReads,
  reservation |-> ReservationReads, cancellationQuote |-> CancellationQuoteReads,
  invoices |-> InvoicesReads, quote |-> QuoteReads, customers |-> CustomersReads,
  customersPage |-> CustomersReads, customer |-> CustomerReads, series |-> SeriesReads,
  courts |-> ResourcesRead, halls |-> ResourcesRead, venues |-> VenuesRead,
  hours |-> HoursRead, overrides |-> OverridesRead, priceRules |-> RulesRead,
  policy |-> TiersRead, messages |-> MessagesRead, staff |-> StaffRead,
  staffInvites |-> InvitesRead, enquiries |-> EnquiriesRead,
  hallAvailability |-> HallAvailabilityReads, report |-> ReportReads, audit |-> AuditRead,
  publicVenue |-> PublicVenueReads, publicAvailability |-> PublicAvailabilityReads,
  myBookings |-> MyBookingsReads, cancelQuote |-> CancellationQuoteReads,
  myPrefs |-> CustomersReads]

Query == DOMAIN Reads

---------------------------------------------------------------------------
\* The commands: the tables they write, the queries they drop, and what
\* stands over the page when they have succeeded.  Same leaves it as it is.

Same == "same"
NoDialog == "none"

Booked == {"calendar", "week"}
Refreshed == {"reservation", "calendar", "week", "bookings"}
Trailed(writes) == writes \cup {"audit"}

\* venues.service; a court is removed with all that hangs on it.
VenueMade == {"venue"}
VenueSaved == {"venue"}
CourtMade == {"resource", "hours"}
CourtSaved == {"resource"}
CourtRemoved == {"resource", "hours", "override", "rule", "series", "reservation", "payment"}

quickBook == [writes |-> Trailed({"reservation", "customer", "message"}), drops |-> Booked, then |-> NoDialog]
createSeries == [writes |-> Trailed({"series", "reservation", "customer"}),
                 drops |-> Booked \cup {"series"}, then |-> "SeriesResult"]
block == [writes |-> Trailed({"reservation"}), drops |-> Booked, then |-> NoDialog]
addPayment == [writes |-> Trailed({"payment"}), drops |-> Refreshed, then |-> Same]
setStatus == [writes |-> Trailed({"reservation"}), drops |-> Refreshed, then |-> Same]
removeBlock == [writes |-> {"reservation"}, drops |-> Refreshed, then |-> NoDialog]
cancelBooking == [writes |-> Trailed({"reservation", "payment", "message"}), drops |-> Refreshed, then |-> NoDialog]
issueInvoice == [writes |-> Trailed({"invoice"}), drops |-> {"invoices"}, then |-> Same]
extendSeries == [writes |-> {"series", "reservation"}, drops |-> {"series", "calendar"}, then |-> Same]
endSeries == [writes |-> Trailed({"series", "reservation"}), drops |-> {"series", "calendar"}, then |-> NoDialog]
saveCustomer == [writes |-> {"customer"}, drops |-> {"customer", "customersPage"}, then |-> Same]
createEnquiry == [writes |-> Trailed({"enquiry"}), drops |-> {"enquiries"}, then |-> NoDialog]
updateEnquiry == [writes |-> Trailed({"enquiry"}), drops |-> {"enquiries", "hallAvailability"}, then |-> Same]
bookEnquiry == [writes |-> Trailed({"enquiry", "reservation", "customer"}),
                drops |-> {"enquiries", "hallAvailability", "bookings"}, then |-> NoDialog]
firstRun == [writes |-> VenueMade \cup CourtMade \cup {"rule"}, drops |-> Query, then |-> Same]
addVenue == [writes |-> VenueMade, drops |-> {"venues"}, then |-> NoDialog]
saveVenue == [writes |-> VenueSaved, drops |-> {"venues"}, then |-> Same]
publish == [writes |-> VenueSaved, drops |-> {"venues"}, then |-> Same]
saveTax == [writes |-> VenueSaved, drops |-> {"venues"}, then |-> Same]
saveMessaging == [writes |-> VenueSaved, drops |-> {"venues"}, then |-> Same]
addCourt == [writes |-> CourtMade, drops |-> {"courts", "halls", "calendar"}, then |-> NoDialog]
updateCourt == [writes |-> CourtSaved, drops |-> {"courts", "calendar"}, then |-> Same]
removeCourt == [writes |-> CourtRemoved, drops |-> {"courts", "calendar"}, then |-> Same]
saveHours == [writes |-> Trailed({"hours"}), drops |-> {"hours", "calendar", "week"}, then |-> NoDialog]
addPriceRule == [writes |-> {"rule"}, drops |-> {"priceRules", "calendar"}, then |-> Same]
removePriceRule == [writes |-> {"rule"}, drops |-> {"priceRules", "calendar"}, then |-> Same]
addClosure == [writes |-> Trailed({"override"}), drops |-> {"overrides", "calendar", "week"}, then |-> Same]
removeClosure == [writes |-> Trailed({"override"}), drops |-> {"overrides", "calendar", "week"}, then |-> Same]
savePolicy == [writes |-> Trailed({"tier"}), drops |-> {"policy"}, then |-> Same]
updateStaff == [writes |-> Trailed({"staff"}), drops |-> {"staff", "staffInvites"}, then |-> Same]
revokeInvite == [writes |-> Trailed({"invite"}), drops |-> {"staff", "staffInvites"}, then |-> Same]
inviteStaff == [writes |-> Trailed({"invite"}), drops |-> {"staff", "staffInvites"}, then |-> NoDialog]
takeHold == [writes |-> Trailed({"reservation"}), drops |-> {}, then |-> Same]
bookOnline == [writes |-> Trailed({"reservation", "message"}), drops |-> {}, then |-> Same]
release == [writes |-> {"reservation"}, drops |-> {}, then |-> Same]
cancelOwn == [writes |-> Trailed({"reservation", "payment", "message"}),
              drops |-> {"myBookings", "publicAvailability"}, then |-> "MyBookings"]
saveWish == [writes |-> {"customer"}, drops |-> {}, then |-> Same]

Does == [
  quickBook |-> quickBook, createSeries |-> createSeries, block |-> block,
  addPayment |-> addPayment, setStatus |-> setStatus, removeBlock |-> removeBlock,
  cancelBooking |-> cancelBooking, issueInvoice |-> issueInvoice,
  extendSeries |-> extendSeries, endSeries |-> endSeries, saveCustomer |-> saveCustomer,
  createEnquiry |-> createEnquiry, updateEnquiry |-> updateEnquiry, bookEnquiry |-> bookEnquiry,
  firstRun |-> firstRun, addVenue |-> addVenue, saveVenue |-> saveVenue, publish |-> publish,
  saveTax |-> saveTax, saveMessaging |-> saveMessaging, addCourt |-> addCourt,
  updateCourt |-> updateCourt, removeCourt |-> removeCourt, saveHours |-> saveHours,
  addPriceRule |-> addPriceRule, removePriceRule |-> removePriceRule,
  addClosure |-> addClosure, removeClosure |-> removeClosure, savePolicy |-> savePolicy,
  updateStaff |-> updateStaff, revokeInvite |-> revokeInvite, inviteStaff |-> inviteStaff,
  takeHold |-> takeHold, bookOnline |-> bookOnline, release |-> release, cancelOwn |-> cancelOwn, saveWish |-> saveWish]

Command == DOMAIN Does

---------------------------------------------------------------------------
\* Pages, their cards and dialogs: the queries they show, the commands on
\* them, and the dialogs that open from them.

Has(shows, does, opens) == [shows |-> shows, does |-> does, opens |-> opens]
Holding(cards) == [k \in {"shows", "does", "opens"} |-> UNION {c[k] : c \in cards}]

CalendarPage == Has({"calendar", "week"}, {}, {"QuickBookModal", "BookingDetailModal", "BlockModal"})
QuickBookModal == Has({"quote", "customers"}, {"quickBook", "createSeries"}, {"SeriesResult"})
SeriesResult == Has({}, {}, {})
BlockModal == Has({}, {"block"}, {})
InvoiceSection == Has({"invoices"}, {"issueInvoice"}, {})
BookingDetailModal == Holding({InvoiceSection,
  Has({"reservation"}, {"addPayment", "setStatus", "removeBlock"}, {"CancelBookingPanel"})})
CancelBookingPanel == Has({"reservation", "cancellationQuote"}, {"cancelBooking"}, {})
BookingsPage == Has({"bookings"}, {}, {"BookingDetailModal"})
SeriesPage == Has({"series"}, {"extendSeries"}, {"SeriesDetailModal"})
SeriesDetailModal == Has({"series"}, {"endSeries"}, {})
CustomersPage == Has({"customersPage", "customer"}, {"saveCustomer"}, {})
HallsPage == Has({"halls", "enquiries", "hallAvailability"}, {}, {"NewEnquiryModal", "EnquiryModal"})
NewEnquiryModal == Has({}, {"createEnquiry"}, {})
EnquiryModal == Has({}, {"updateEnquiry"}, {"BookModal"})
BookModal == Has({}, {"bookEnquiry"}, {})
ReportsPage == Has({"report"}, {}, {})
ActivityPage == Has({"audit"}, {}, {})
FirstRun == Has({}, {"firstRun"}, {})

VenueCard == Has({}, {"saveVenue"}, {})
PublishCard == Has({}, {"publish"}, {})
CourtsCard == Has({"courts"}, {"updateCourt", "removeCourt"}, {"AddCourtModal", "HoursModal", "PricingModal"})
ClosuresCard == Has({"overrides"}, {"addClosure", "removeClosure"}, {})
CancellationPolicyCard == Has({"policy"}, {"savePolicy"}, {})
TaxCard == Has({}, {"saveTax"}, {})
MessagesCard == Has({"messages"}, {"saveMessaging"}, {})
TeamCard == Has({"staff", "staffInvites"}, {"updateStaff", "revokeInvite"}, {"InviteModal"})
SettingsPage == Holding({VenueCard, PublishCard, CourtsCard, ClosuresCard, CancellationPolicyCard,
  TaxCard, MessagesCard, TeamCard, Has({"courts"}, {}, {"AddVenueModal"})})
AddVenueModal == Has({}, {"addVenue"}, {})
AddCourtModal == Has({}, {"addCourt"}, {})
HoursModal == Has({"hours"}, {"saveHours"}, {})
PricingModal == Has({"priceRules"}, {"addPriceRule", "removePriceRule"}, {})
InviteModal == Has({}, {"inviteStaff"}, {})

PublicVenuePage == Has({"publicVenue", "publicAvailability"}, {}, {"BookingFlow", "MyBookings"})
PublicBookingDialog == Has({}, {"takeHold", "bookOnline", "release"}, {})
MyBookings == Has({"myBookings", "myPrefs"}, {"saveWish"}, {"BookingRow"})
BookingRow == Has({"myBookings", "myPrefs", "cancelQuote"}, {"cancelOwn", "saveWish"}, {})

Screen == [
  CalendarPage |-> CalendarPage, BookingsPage |-> BookingsPage, SeriesPage |-> SeriesPage,
  CustomersPage |-> CustomersPage, HallsPage |-> HallsPage, ReportsPage |-> ReportsPage,
  ActivityPage |-> ActivityPage, SettingsPage |-> SettingsPage, FirstRun |-> FirstRun,
  PublicVenuePage |-> PublicVenuePage,
  QuickBookModal |-> QuickBookModal, SeriesResult |-> SeriesResult, BlockModal |-> BlockModal,
  BookingDetailModal |-> BookingDetailModal, CancelBookingPanel |-> CancelBookingPanel,
  SeriesDetailModal |-> SeriesDetailModal, NewEnquiryModal |-> NewEnquiryModal,
  EnquiryModal |-> EnquiryModal, BookModal |-> BookModal, AddVenueModal |-> AddVenueModal,
  AddCourtModal |-> AddCourtModal, HoursModal |-> HoursModal, PricingModal |-> PricingModal,
  InviteModal |-> InviteModal, BookingFlow |-> PublicBookingDialog, MyBookings |-> MyBookings,
  BookingRow |-> BookingRow, none |-> Has({}, {}, {})]

ConsolePage == {"CalendarPage", "BookingsPage", "SeriesPage", "CustomersPage", "HallsPage",
                "ReportsPage", "ActivityPage", "SettingsPage", "FirstRun"}
Site == {ConsolePage, {"PublicVenuePage"}}

\* The bar of the console asks for the venues and for the halls.
Bar(p) == IF p \in ConsolePage THEN {"venues", "halls"} ELSE {}
Shown(p, d) == Bar(p) \cup Screen[p].shows \cup Screen[d].shows

\* The dialog d can follow the view of p with the dialog c.
Follows(p, c, d) ==
  \/ d = NoDialog
  \/ c = NoDialog /\ d \in Screen[p].opens
  \/ d \in Screen[c].opens \/ c \in Screen[d].opens

\* What closing a dialog drops, whatever was done in it.
DropsOnClosing(d) == IF d = "BookingFlow" THEN {"publicAvailability"} ELSE {}

---------------------------------------------------------------------------
\* The cache.

NotSent == [phase |-> "idle"]
Sent == [phase : {"sent", "committed"}, command : Command, onScreen : BOOLEAN]

ScreenInit ==
  /\ watched \in Query
  /\ page \in UNION Site
  /\ dialog = NoDialog
  /\ data = "nothing" /\ stale = TRUE
  /\ fetch = IF watched \in Shown(page, NoDialog) THEN "asked" ELSE "none"
  /\ sent = NotSent
  /\ owed = "no"

OnScreen == watched \in Shown(page, dialog)

\* What is dropped in view is fetched again, also when a fetch is on its way,
\* unless it is the first one.
FetchedAgain == OnScreen /\ (fetch = "none" \/ data # "nothing")

\* The view changes.  A query that comes into view is fetched unless it is
\* young or on its way; one that goes out of view is let alone.
View(p, d) ==
  LET comes   == ~OnScreen /\ watched \in Shown(p, d)
      dropped == d # dialog /\ watched \in DropsOnClosing(dialog)
  IN  /\ page' = p /\ dialog' = d
      /\ stale' = (stale \/ dropped)
      /\ fetch' = IF (comes /\ fetch = "none" /\ stale) \/ (dropped /\ FetchedAgain) THEN "asked" ELSE fetch
      /\ owed' = IF watched \notin Shown(p, d) THEN "no"
                 ELSE IF dropped /\ owed = "closing" THEN "now" ELSE owed
      /\ UNCHANGED <<watched, data>>

Look(p, d) ==
  /\ View(p, d)
  /\ sent' = IF sent # NotSent /\ watched \notin Shown(p, d) THEN [sent EXCEPT !.onScreen = FALSE] ELSE sent

GoTo(p) == p # page /\ (\E S \in Site : {p, page} \subseteq S) /\ Look(p, NoDialog)
OpenDialog(d) == d # dialog /\ Follows(page, dialog, d) /\ Look(page, d)

Grows == ~stale /\ stale' = TRUE /\ UNCHANGED <<watched, page, dialog, data, fetch, sent, owed>>

\* The window comes back to the front, or a list that asks at intervals asks.
Refetch ==
  /\ OnScreen /\ fetch = "none" /\ (stale \/ watched = "messages")
  /\ fetch' = "asked"
  /\ UNCHANGED <<watched, page, dialog, data, stale, sent, owed>>

\* What has been out of view for long is forgotten.
Forget ==
  /\ ~OnScreen /\ fetch = "none" /\ data # "nothing"
  /\ data' = "nothing" /\ stale' = TRUE
  /\ UNCHANGED <<watched, page, dialog, fetch, sent, owed>>

FetchIsRead ==
  /\ fetch = "asked"
  /\ fetch' = "true"
  /\ UNCHANGED <<watched, page, dialog, data, stale, sent, owed>>

FetchEnds ==
  /\ fetch \in {"true", "past"}
  /\ data' = fetch /\ stale' = FALSE /\ fetch' = "none"
  /\ UNCHANGED <<watched, page, dialog, sent, owed>>

\* It fails, and is not tried again: what is shown stays.
FetchFails ==
  /\ fetch # "none"
  /\ fetch' = "none" /\ owed' = IF owed = "now" THEN "no" ELSE owed
  /\ UNCHANGED <<watched, page, dialog, data, stale, sent>>

---------------------------------------------------------------------------
\* The commands.

Touches(c) == Does[c].writes \cap Reads[watched] # {}

\* Mutant of Drops: the week is forgotten.
DropsNoWeek(c) == watched \in Does[c].drops \ {"week"}

Drops(c) == watched \in Does[c].drops

\* The pairs that the answer does not drop.  Some the code overlooks: the
\* halls in the bar when a hall is renamed, switched off or removed, and the
\* closures of a court that is removed.  What a customer wishes is shown from
\* the answer itself.  The commands of the booking dialog leave the page under
\* it to the closing of the dialog.
Overlooked == {<<"updateCourt", "halls">>, <<"removeCourt", "halls">>,
               <<"removeCourt", "overrides">>, <<"saveWish", "myPrefs">>,
               <<"takeHold", "publicAvailability">>, <<"bookOnline", "publicAvailability">>,
               <<"release", "publicAvailability">>}

Requested(c) == [phase |-> "sent", command |-> c, onScreen |-> OnScreen /\ data # "nothing"]

SendCommand(c) ==
  /\ sent = NotSent
  /\ c \in Screen[IF dialog = NoDialog THEN page ELSE dialog].does \ {"release"}
  /\ Touches(c) \/ Drops(c)
  /\ sent' = Requested(c)
  /\ UNCHANGED <<watched, page, dialog, data, stale, fetch, owed>>

\* release(): the DELETE is sent, and the dialog closes without waiting for it.
SendRelease ==
  /\ sent = NotSent
  /\ "release" \in Screen[dialog].does
  /\ Touches("release")
  /\ View(page, NoDialog)
  /\ sent' = Requested("release")

AsOfThen(version) == IF version = "true" THEN "past" ELSE version

\* The server has done it: what was read before is no longer true.
CommandCommits ==
  /\ sent.phase = "sent"
  /\ sent' = [sent EXCEPT !.phase = "committed"]
  /\ IF Touches(sent.command)
       THEN data' = AsOfThen(data) /\ fetch' = AsOfThen(fetch) /\ owed' = "no"
       ELSE UNCHANGED <<data, fetch, owed>>
  /\ UNCHANGED <<watched, page, dialog, stale>>

\* It is refused, or the answer is lost.
CommandFails ==
  /\ sent # NotSent
  /\ sent' = NotSent
  /\ UNCHANGED <<watched, page, dialog, data, stale, fetch, owed>>

\* The answer: queries are dropped.
CommandAnswered ==
  LET c == sent.command
      over == IF Does[c].then = Same \/ ~(c \in Screen[dialog].does) THEN dialog ELSE Does[c].then
      owes == IF <<c, watched>> \notin Overlooked THEN "now"
              ELSE IF watched \in DropsOnClosing(dialog) THEN "closing" ELSE owed
  IN  /\ sent.phase = "committed"
      /\ sent' = NotSent
      /\ dialog' = over
      /\ stale' = (stale \/ Drops(c))
      /\ fetch' = IF Drops(c) /\ FetchedAgain THEN "asked" ELSE fetch
      /\ owed' = IF watched \notin Shown(page, over) THEN "no"
                 ELSE IF sent.onScreen /\ Touches(c) THEN owes ELSE owed
      /\ UNCHANGED <<watched, page, data>>

ScreenNext ==
  \/ \E p \in UNION Site : GoTo(p)
  \/ \E d \in DOMAIN Screen \ UNION Site : OpenDialog(d)
  \/ Grows \/ Refetch \/ Forget \/ FetchIsRead \/ FetchEnds \/ FetchFails
  \/ \E c \in Command : SendCommand(c)
  \/ SendRelease
  \/ CommandCommits \/ CommandFails \/ CommandAnswered

---------------------------------------------------------------------------
\* Properties.

ScreensTypeOK ==
  /\ watched \in Query /\ page \in UNION Site /\ dialog \in DOMAIN Screen \ UNION Site
  /\ data \in {"nothing", "true", "past"} /\ stale \in BOOLEAN
  /\ fetch \in {"none", "asked", "true", "past"}
  /\ sent \in Sent \cup {NotSent} /\ owed \in {"no", "closing", "now"}

\* After a change made on a page has been answered, what that page still
\* shows is not older than the change, unless it is being fetched or the
\* fetch failed: whatever was in flight, looked at or lost its youth between.
\* A hold taken and a booking made in the booking dialog are shown when it has
\* been closed, if they were answered before that; what comes after, the
\* release of the hold above all, may leave the page as it was, and so may the
\* other commands of Overlooked.
ShownIsUpToDate == owed = "now" /\ fetch = "none" => data = "true"
=============================================================================
