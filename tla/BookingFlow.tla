---------------------------- MODULE BookingFlow ----------------------------
(***************************************************************************)
(* The booking dialog of the public page, and the server as it sees it:    *)
(* one slot that is held while the visitor signs in, reads and pays, and   *)
(* calls whose requests and answers may be lost or come after the dialog   *)
(* is gone.                                                                *)
(*                                                                         *)
(* On the server's side the one row the dialog asked for is followed, with *)
(* all that is done to it meanwhile: by the webhook, the sweep, the desk,  *)
(* the customer's page of bookings and the removal of the court.  What     *)
(* goes on inside those handlers is Reservations' and Checkout's; those    *)
(* that write by what they read earlier are two steps here as well.        *)
(***************************************************************************)
EXTENDS Integers

CONSTANTS
  MaxLost  \* bound: calls that get no answer

ASSUME FlowAssumption == MaxLost \in Nat

VARIABLES
  step,     \* what the dialog shows; "lapsed" is the summary after the
            \* countdown, "closed" and "left" is a dialog that is gone
  session,  \* the customer token
  call,     \* its calls: idle, sent, judged by the server, or the answer
            \* under way
  prepay,   \* the venue takes payment online
  row,      \* the status of the reservation made last; "expired" is held past
            \* its deadline
  listed,   \* the sweep has its id and will write to it
  court,    \* the court: open, counted by its removal, or removed
  intent,   \* the payment
  lost

dialog == <<step, session>>
server == <<prepay, row, listed, court, intent>>
flowVars == <<dialog, call, server, lost>>

---------------------------------------------------------------------------
Call == {"takeHold", "confirm", "startPayment", "poll", "release"}

\* "ended" is a 401, "refused" any other error, "nothing" no answer at all;
\* the others are what the status of the payment can be.
Answer == {"ok", "refused", "ended", "nothing", "confirmed", "refunded", "failed", "waiting"}

Quiet(k) == call[k] = "idle"
Gone == step \in {"closed", "left"}
Back(k) == call[k] \in Answer
Takes(k) == call' = [call EXCEPT ![k] = "idle"]
Sends(k) == call' = [call EXCEPT ![k] = "sent"]

FlowInit ==
  /\ step = "identify" /\ session \in {"none", "good"}
  /\ call = [k \in Call |-> "idle"]
  /\ prepay \in BOOLEAN
  /\ row = "none" /\ intent = "none"
  /\ listed = FALSE /\ court = "open"
  /\ lost = 0

---------------------------------------------------------------------------
\* The dialog.

\* onSignedIn, after the code, or the effect of somebody signed in already:
\* the slot is held before anything is read.
TakeHold ==
  /\ step = "identify" /\ Quiet("takeHold")
  /\ session' = IF session = "none" THEN "good" ELSE session
  /\ Sends("takeHold")
  /\ UNCHANGED <<step, server, lost>>

\* The countdown.
Lapse ==
  /\ step = "confirm"
  /\ step' = "lapsed"
  /\ UNCHANGED <<session, call, server, lost>>

\* The button of the summary: pay, or book and pay at the venue.
Press ==
  /\ step = "confirm"
  /\ Quiet("confirm") /\ Quiet("startPayment")
  /\ Sends(IF prepay THEN "startPayment" ELSE "confirm")
  /\ UNCHANGED <<dialog, server, lost>>

\* Every three seconds while the payment is waited for.
Poll ==
  /\ step = "paying" /\ Quiet("poll")
  /\ Sends("poll")
  /\ UNCHANGED <<dialog, server, lost>>

\* The dialog knows the hold it took.
HasHold == step \in {"confirm", "lapsed", "paying", "done"}

\* Any way of closing the dialog, at any step: release, but for the button
\* under Booked.
Close ==
  /\ ~Gone
  /\ step' = "closed"
  /\ \/ HasHold /\ Sends("release")
     \/ step \in {"identify", "done"} /\ UNCHANGED call
  /\ UNCHANGED <<session, server, lost>>

\* Mutant of AfterStart: the checkout's own word is taken for the booking.
AfterStartTrusting == "done"

\* startPayment's onSuccess: wait for the server to say so.
AfterStart == "paying"

AfterOk(k) == IF k = "takeHold" THEN "confirm" ELSE IF k = "confirm" THEN "done"
              ELSE IF k = "startPayment" THEN AfterStart ELSE step

\* An answer other than the poll's.  A dialog that is gone takes no notice,
\* not even of a hold; 401 takes the visitor away from the page (api.ts).
Hear(k) ==
  /\ k # "poll" /\ Back(k)
  /\ Takes(k)
  /\ step' = IF call[k] = "ended" THEN "left"
             ELSE IF call[k] = "ok" /\ ~Gone THEN AfterOk(k) ELSE step
  /\ UNCHANGED <<session, server, lost>>

\* Mutant of PollOn: an error ends the polling.
PollOnUnlessFailed == call["poll"] \notin {"refused", "nothing"}

\* "A blip is not a failure": the next poll comes whatever this one brought.
PollOn == TRUE

\* The poll's answer; the effect has been cleaned up when the step is over.  A
\* refunded or failed payment is put in words and waited for all the same.
HearPoll ==
  /\ Back("poll")
  /\ call' = [call EXCEPT !["poll"] = IF PollOn THEN "idle" ELSE "stopped"]
  /\ step' = IF call["poll"] = "ended" THEN "left"
             ELSE IF step = "paying" /\ call["poll"] = "confirmed" THEN "done" ELSE step
  /\ UNCHANGED <<session, server, lost>>

---------------------------------------------------------------------------
\* The server.

Held == row \in {"held", "expired"}
\* "over" is completed or no_show; the second of them does not occupy its slot.
Settled == {"confirmed", "over", "cancelled"}
Exists == Held \/ row \in Settled
Occupies == Held \/ row = "confirmed"

\* A row that is deleted, as a hold or as a booking.  What was to be done to it
\* finds nothing, and its payment is cut loose.
Delete ==
  /\ row' = IF row \in Settled THEN "lost" ELSE "gone"
  /\ listed' = FALSE /\ intent' = "none"

\* A call reaches the server and is answered.
Answers(k, answer) ==
  /\ call' = [call EXCEPT ![k] = answer]
  /\ UNCHANGED <<dialog, prepay, court, lost>>
Serve(k, answer) == call[k] = "sent" /\ session = "good" /\ Answers(k, answer)

\* Any call may be turned down, a judged one by a failure of its transaction.
Refuse(k) ==
  /\ k \in {"takeHold", "confirm", "startPayment"}
  /\ call[k] = "judged" \/ (call[k] = "sent" /\ session = "good")
  /\ Answers(k, "refused")
  /\ UNCHANGED <<row, listed, intent>>

\* A new row, with an id of its own.
ServeTakeHold ==
  /\ ~Occupies /\ court # "removed"
  /\ Serve("takeHold", "ok")
  /\ row' = "held" /\ listed' = FALSE /\ intent' = "none"

\* confirm and startPayment read the row and judge it before they write.
Judge(k) ==
  /\ row = "held"
  /\ k \in {"confirm", "startPayment"} /\ (k = "confirm" => ~prepay)
  /\ Serve(k, "judged")
  /\ UNCHANGED <<row, listed, intent>>

\* The UPDATE repeats status = 'held', not the deadline.
ServeConfirm ==
  /\ call["confirm"] = "judged" /\ Held
  /\ Answers("confirm", "ok")
  /\ row' = "confirmed" /\ UNCHANGED <<listed, intent>>

\* The intent refers to a row that is there.
ServeStartPayment ==
  /\ call["startPayment"] = "judged" /\ Exists
  /\ Answers("startPayment", "ok")
  /\ intent' = "created" /\ UNCHANGED <<row, listed>>

\* Mutant of Releasable: the hold is deleted by id alone.
ReleasableById == Exists

Releasable == Held

ServeRelease ==
  /\ Serve("release", "ok")
  /\ IF Releasable THEN Delete ELSE UNCHANGED <<row, listed, intent>>

StatusOf == IF row \in {"gone", "lost"} THEN "refused"
            ELSE IF row = "confirmed" THEN "confirmed"
            ELSE IF intent \in {"refunded", "failed"} THEN intent ELSE "waiting"

ServePoll == Serve("poll", StatusOf) /\ UNCHANGED <<row, listed, intent>>

\* The token has run out.
ServeEnded(k) ==
  /\ call[k] = "sent" /\ session = "ended"
  /\ call' = [call EXCEPT ![k] = "ended"]
  /\ UNCHANGED <<dialog, server, lost>>

SessionEnds ==
  /\ session = "good"
  /\ session' = "ended"
  /\ UNCHANGED <<step, call, server, lost>>

\* A request or an answer is lost.
Lose(k) ==
  /\ lost < MaxLost
  /\ call[k] = "sent" \/ (Back(k) /\ call[k] # "nothing")
  /\ call' = [call EXCEPT ![k] = "nothing"]
  /\ lost' = lost + 1
  /\ UNCHANGED <<dialog, server>>

---------------------------------------------------------------------------
\* What else is done to the row.

Aside == UNCHANGED <<dialog, call, prepay, lost>>

\* The webhook of a payment that went through, early, late or after a failure;
\* one that is too late, or short, is sent back.
Captured ==
  /\ intent \in {"created", "failed"}
  /\ \/ /\ Exists /\ row # "cancelled"
        /\ row' = IF Held THEN "confirmed" ELSE row
        /\ intent' = "paid"
     \/ row' = row /\ intent' = "refunded"
  /\ Aside /\ UNCHANGED <<listed, court>>

PaymentFailed ==
  /\ intent = "created"
  /\ intent' = "failed"
  /\ Aside /\ UNCHANGED <<row, listed, court>>

Expire ==
  /\ row = "held"
  /\ row' = "expired"
  /\ Aside /\ UNCHANGED <<listed, court, intent>>

\* Mutant of Sweepable: a hold with a payment started is kept.
SweepableUnlessStarted == row = "expired" /\ intent = "none"

Sweepable == row = "expired"

\* A competitor's hold clears the way: its DELETE looks at the status again.
Displaced == Sweepable /\ Delete /\ Aside /\ UNCHANGED court

\* The scheduled sweep: its SELECT, and its write, which is by id alone.  A row
\* the desk took a payment for is not deleted but cancelled.
SweepList ==
  /\ Sweepable /\ ~listed
  /\ listed' = TRUE
  /\ Aside /\ UNCHANGED <<row, court, intent>>
SweepWrite ==
  /\ listed
  /\ Delete \/ (row' = "cancelled" /\ listed' = FALSE /\ UNCHANGED intent)
  /\ Aside /\ UNCHANGED court
SweepAbort ==
  /\ listed
  /\ listed' = FALSE
  /\ Aside /\ UNCHANGED <<row, court, intent>>

\* The desk confirms the hold or says how the booking went; it, or the customer
\* on the page of their bookings, cancels, and the money goes back.
DeskConfirms ==
  /\ Held
  /\ row' = "confirmed"
  /\ Aside /\ UNCHANGED <<listed, court, intent>>
DeskMarks ==
  /\ row = "confirmed"
  /\ row' = "over"
  /\ Aside /\ UNCHANGED <<listed, court, intent>>
Cancels ==
  /\ Exists /\ row # "cancelled"
  /\ row' = "cancelled"
  /\ intent' \in {intent, IF intent = "paid" THEN "refunded" ELSE intent}
  /\ Aside /\ UNCHANGED <<listed, court>>

\* The removal of the court: no row occupies it when it counts, and later it
\* takes every row along (ON DELETE CASCADE).
CourtCounted ==
  /\ court = "open" /\ ~Occupies
  /\ court' = "counted"
  /\ Aside /\ UNCHANGED <<row, listed, intent>>
CourtRemoved ==
  /\ court = "counted"
  /\ court' = "removed"
  /\ IF Exists THEN Delete ELSE UNCHANGED <<row, listed, intent>>
  /\ Aside

FlowNext ==
  \/ TakeHold \/ Lapse \/ Press \/ Poll \/ Close
  \/ HearPoll
  \/ ServeTakeHold \/ ServeConfirm \/ ServeStartPayment \/ ServeRelease \/ ServePoll
  \/ \E k \in Call : Hear(k) \/ Judge(k) \/ Refuse(k) \/ ServeEnded(k) \/ Lose(k)
  \/ SessionEnds
  \/ Captured \/ PaymentFailed \/ Expire
  \/ Displaced \/ SweepList \/ SweepWrite \/ SweepAbort
  \/ DeskConfirms \/ DeskMarks \/ Cancels \/ CourtCounted \/ CourtRemoved

\* The page's timer and the event loop run, requests are served, the clock
\* moves and the scheduler sweeps; a sweep may fail, but not for ever.
FlowFairness ==
  /\ WF_flowVars(Poll) /\ WF_flowVars(HearPoll)
  /\ WF_flowVars(ServePoll) /\ WF_flowVars(ServeEnded("poll"))
  /\ WF_flowVars(Expire) /\ WF_flowVars(SweepList) /\ SF_flowVars(SweepWrite)
  /\ WF_flowVars(ServeTakeHold \/ Refuse("takeHold")) /\ WF_flowVars(ServeEnded("takeHold"))

FlowSpec == FlowInit /\ [][FlowNext]_flowVars /\ FlowFairness

---------------------------------------------------------------------------
\* Properties.

FlowTypeOK ==
  /\ step \in {"identify", "confirm", "lapsed", "paying", "done", "closed", "left"}
  /\ session \in {"none", "good", "ended"}
  /\ {prepay, listed} \subseteq BOOLEAN
  /\ call \in [Call -> Answer \cup {"idle", "sent", "judged"}]
  /\ row \in Settled \cup {"none", "held", "expired", "gone", "lost"}
  /\ court \in {"open", "counted", "removed"}
  /\ intent \in {"none", "created", "paid", "failed", "refunded"}
  /\ lost \in 0..MaxLost

\* "The booking is confirmed when our server says so": a dialog that says
\* Booked stands before a booking, whatever was lost, late or released on the
\* way.  Only a booking that the sweep or the removal of its court deleted
\* (BookedIsKept has when) is not there behind it.
DoneMeansBooked == step = "done" => row \in Settled \cup {"lost"}

\* Nothing that is done from the page deletes a booking, however late it comes:
\* not closing the dialog, not a hold over it.  What deletes one had decided so
\* before it was a booking: a sweep that listed it as an expired hold, or a
\* removal of its court that counted no booking.
Kept ==
  \/ row' \in Settled
  \/ row' = "lost" /\ (listed \/ court = "counted")
BookedIsKept == [][row = "confirmed" => Kept]_flowVars

\* "This confirms itself": a dialog left open on a payment that went through
\* comes to say so, blips of the network or not, while the booking stands.
BookedIsNoticed ==
  (step = "paying" /\ row = "confirmed") ~> (step # "paying" \/ row # "confirmed")

\* A slot nobody waits for any more comes back, also when the hold was made
\* after the dialog was closed and so is released by no one.
SlotComesBack == (Gone /\ Held) ~> ~Held
=============================================================================
