----------------------------- MODULE Enquiries -----------------------------
(***************************************************************************)
(* The sales pipeline of a hall (backend/src/halls): an enquiry blocks no  *)
(* date; booking it, tentatively or for good, inserts a reservation and    *)
(* links the two in one transaction.  The desk, the clock and the sweeper  *)
(* change the reservation afterwards and know nothing of the enquiry,      *)
(* except that deleting it empties the link, which a CHECK may refuse.     *)
(*                                                                         *)
(* A handler reads the enquiry, decides, and writes later by id.  What the *)
(* exclusion constraint compares is one value: a hall over one span.       *)
(***************************************************************************)
EXTENDS Integers, FiniteSets

CONSTANTS
  Enquiry,    \* ids of enquiries
  Place,      \* a hall and the span it is held for; different ones do not meet
  Hire,       \* ids of the reservations of halls
  Agent,      \* requests of the desk that can be in flight at one time
  NoHire      \* no reservation

VARIABLES
  enquiry,    \* the enquiries
  hire,       \* the reservations
  agent,      \* the requests in flight
  listed,     \* the reservations a running sweep has listed
  contested   \* for checking: enquiries two requests have worked on at once

enquiryVars == <<enquiry, hire, agent, listed, contested>>

---------------------------------------------------------------------------
\* The rows.  A scheduled visit is one more open stage, like new.

Stage == {"new", "quoted", "won", "lost"}
NoEnquiry == [status |-> "none", link |-> NoHire]
EnquiryRow == [status : Stage, link : Hire \cup {NoHire}]

\* for is the enquiry it was booked for, deal whether it was for good.
Deal == {"tentative", "firm"}
Walk == [status |-> "other"]  \* booked for no enquiry, over a hall at the desk
Unused == [status |-> "none"]
Deleted == [status |-> "gone"]
ASSUME EnquiryAssumption == NoHire \notin Hire /\ Walk \notin Enquiry

HireRow == [status : {"held", "confirmed", "cancelled"}, place : Place,
            for : Enquiry \cup {Walk}, deal : Deal, expired : BOOLEAN]

NoDeed == [phase |-> "idle"]
Deed ==
       [phase : {"booking"}, enquiry : Enquiry, place : Place, deal : Deal]
  \cup [phase : {"moving"}, enquiry : Enquiry, to : Stage \ {"won"}]

\* reservation_no_overlap: held and confirmed rows occupy, expired or not.
Taken(place) == \E h \in Hire : hire[h].status \in {"held", "confirmed"} /\ hire[h].place = place

EnquiryInit ==
  /\ enquiry = [e \in Enquiry |-> NoEnquiry]
  /\ hire = [h \in Hire |-> Unused]
  /\ agent = [a \in Agent |-> NoDeed]
  /\ listed = {}
  /\ contested = {}

WorksOn(a, e) == agent[a].phase # "idle" /\ agent[a].enquiry = e

Starts(a, deed) ==
  /\ agent[a].phase = "idle"
  /\ agent' = [agent EXCEPT ![a] = deed]
  /\ contested' = IF \E b \in Agent : WorksOn(b, deed.enquiry)
                    THEN contested \cup {deed.enquiry} ELSE contested

Ends(a) ==
  /\ agent' = [agent EXCEPT ![a] = NoDeed]
  /\ UNCHANGED contested

---------------------------------------------------------------------------
\* The desk's requests.

CreateEnquiry(e) ==
  /\ enquiry[e] = NoEnquiry
  /\ enquiry' = [enquiry EXCEPT ![e] = [status |-> "new", link |-> NoHire]]
  /\ UNCHANGED <<hire, agent, listed, contested>>

\* Mutant of Open: only a lost enquiry is closed.
OpenUnlessLost(e) == enquiry[e].status # "lost"

\* update and book refuse an enquiry that is won.
Open(e) == enquiry[e].status # "won"

\* update up to its UPDATE; lost is given its reason.
MoveJudge(a, e, to) ==
  /\ enquiry[e] # NoEnquiry /\ Open(e)
  /\ Starts(a, [phase |-> "moving", enquiry |-> e, to |-> to])
  /\ UNCHANGED <<enquiry, hire, listed>>

\* The UPDATE is by id alone.
MoveWrite(a) ==
  /\ agent[a].phase = "moving"
  /\ enquiry' = [enquiry EXCEPT ![agent[a].enquiry].status = agent[a].to]
  /\ Ends(a)
  /\ UNCHANGED <<hire, listed>>

\* book up to its transaction.
BookJudge(a, e, place, deal) ==
  /\ enquiry[e] # NoEnquiry /\ Open(e)
  /\ Starts(a, [phase |-> "booking", enquiry |-> e, place |-> place, deal |-> deal])
  /\ UNCHANGED <<enquiry, hire, listed>>

\* Mutant of StageAfter: a hold wins the enquiry, too.
StageAfterWon(deal) == "won"

\* "A tentative hold is not a win yet".
StageAfter(deal) == IF deal = "tentative" THEN "quoted" ELSE "won"

\* The transaction of book.
BookWrite(a, h) ==
  LET deed == agent[a]
  IN  /\ deed.phase = "booking"
      /\ ~Taken(deed.place)
      /\ hire[h] = Unused
      /\ hire' = [hire EXCEPT ![h] =
           [status |-> IF deed.deal = "tentative" THEN "held" ELSE "confirmed", place |-> deed.place,
            for |-> deed.enquiry, deal |-> deed.deal, expired |-> FALSE]]
      /\ enquiry' = [enquiry EXCEPT ![deed.enquiry] = [status |-> StageAfter(deed.deal), link |-> h]]
      /\ Ends(a)
      /\ UNCHANGED listed

\* The hall is taken, by somebody else or by the enquiry's own hold, or the
\* request fails: everything is rolled back.
DeedFails(a) ==
  /\ agent[a].phase # "idle"
  /\ Ends(a)
  /\ UNCHANGED <<enquiry, hire, listed>>

---------------------------------------------------------------------------
\* What happens to a reservation without its enquiry.

SetHire(h, row) == hire' = [hire EXCEPT ![h] = row]
Held(h) == hire[h].status = "held"

BookWalkIn(h, place) ==
  /\ hire[h] = Unused /\ ~Taken(place)
  /\ SetHire(h, [status |-> "confirmed", place |-> place, for |-> Walk, deal |-> "firm", expired |-> FALSE])
  /\ UNCHANGED <<enquiry, agent, listed, contested>>

ConfirmHire(h) ==
  /\ Held(h)
  /\ SetHire(h, [hire[h] EXCEPT !.status = "confirmed"])
  /\ UNCHANGED <<enquiry, agent, listed, contested>>

CancelHire(h) ==
  /\ hire[h].status \in {"held", "confirmed"}
  /\ SetHire(h, [hire[h] EXCEPT !.status = "cancelled"])
  /\ UNCHANGED <<enquiry, agent, listed, contested>>

HireLapses(h) ==
  /\ Held(h) /\ ~hire[h].expired
  /\ SetHire(h, [hire[h] EXCEPT !.expired = TRUE])
  /\ UNCHANGED <<enquiry, agent, listed, contested>>

ListLapsed ==
  /\ listed = {}
  /\ listed' = {h \in Hire : Held(h) /\ hire[h].expired}
  /\ listed' # {}
  /\ UNCHANGED <<enquiry, hire, agent, contested>>

\* enquiry_won_has_booking refuses the SET NULL under a won enquiry.
Deletable(h) == \A e \in Enquiry : enquiry[e].link = h => enquiry[e].status # "won"

\* The sweep deletes by id, whatever the row is by now.
DeleteLapsed(h) ==
  /\ h \in listed /\ Deletable(h)
  /\ hire[h] # Deleted
  /\ SetHire(h, Deleted)
  /\ enquiry' = [e \in Enquiry |-> IF enquiry[e].link = h THEN [enquiry[e] EXCEPT !.link = NoHire] ELSE enquiry[e]]
  /\ listed' = listed \ {h}
  /\ UNCHANGED <<agent, contested>>

\* The sweep ends, or fails on a row and stops there.
SweepEnds ==
  /\ listed # {}
  /\ listed' = {}
  /\ UNCHANGED <<enquiry, hire, agent, contested>>

EnquiryNext ==
  \/ \E e \in Enquiry : CreateEnquiry(e)
  \/ \E a \in Agent :
       \/ \E e \in Enquiry, to \in Stage \ {"won"} : MoveJudge(a, e, to)
       \/ \E e \in Enquiry, place \in Place, deal \in Deal : BookJudge(a, e, place, deal)
       \/ MoveWrite(a)
       \/ \E h \in Hire : BookWrite(a, h)
       \/ DeedFails(a)
  \/ \E h \in Hire :
       \/ \E place \in Place : BookWalkIn(h, place)
       \/ ConfirmHire(h) \/ CancelHire(h) \/ HireLapses(h) \/ DeleteLapsed(h)
  \/ ListLapsed \/ SweepEnds

EnquirySpec == EnquiryInit /\ [][EnquiryNext]_enquiryVars

---------------------------------------------------------------------------
\* Properties.

EnquiriesTypeOK ==
  /\ enquiry \in [Enquiry -> EnquiryRow \cup {NoEnquiry}]
  /\ hire \in [Hire -> HireRow \cup {Unused, Deleted}]
  /\ agent \in [Agent -> Deed \cup {NoDeed}]
  /\ listed \subseteq Hire /\ contested \subseteq Enquiry

\* What book has booked for good from e.  A hold that the desk confirms later
\* is not among it: nothing tells the enquiry, which stays what it is.
MadeForGood(e) ==
  {h \in Hire : hire[h].status \in {"confirmed", "cancelled"} /\ hire[h].for = e /\ hire[h].deal = "firm"}

\* "An enquiry becomes won by producing a booking": behind each won enquiry is
\* a booking that was made from it, and for good, whatever the requests at work
\* on it at one time, the desk and the sweep have done; and such a booking is
\* the one that won its enquiry, unless two requests worked on it at once.
WonByBooking ==
  /\ \A e \in Enquiry : enquiry[e].status = "won" => enquiry[e].link \in MadeForGood(e)
  /\ \A e \in Enquiry \ contested : \A h \in MadeForGood(e) : enquiry[e] = [status |-> "won", link |-> h]

\* The sweep can delete every hold that has lapsed: none is the booking of a
\* won enquiry, where the CHECK would refuse the DELETE and end the whole
\* sweep with it, also when requests worked on the enquiry at once.
LapsedHoldsCanGo == \A h \in Hire : (Held(h) \/ h \in listed) /\ hire[h] # Deleted => Deletable(h)
=============================================================================
