------------------------- MODULE BookingFlowProofs -------------------------
(***************************************************************************)
(* What a dialog says of a booking, and what closing one may undo, for any *)
(* number of lost calls.                                                   *)
(***************************************************************************)
EXTENDS BookingFlow, TLAPS

\* There is or was a booking: it stands, or was deleted as one.
Booked == row \in Settled \cup {"lost"}

\* The dialog has its hold, and is still there to hear of it.
Underway == step \in {"confirm", "lapsed", "paying", "done"}

\* Before the hold nothing else is asked, and afterwards no hold is.
OneThingAtATime ==
  /\ step = "identify" => \A k \in {"confirm", "startPayment", "poll"} : call[k] = "idle"
  /\ Underway => call["takeHold"] = "idle"

\* Good news under way is still true while the dialog is there to hear it.
NewsIsTrue ==
  Underway => /\ call["confirm"] = "ok" => Booked
              /\ call["poll"] = "confirmed" => Booked

\* What the sweep has listed is there, as a hold or as what became of it.
ListedIsThere == listed => Exists

FlowInv == FlowTypeOK /\ OneThingAtATime /\ NewsIsTrue /\ ListedIsThere /\ DoneMeansBooked

---------------------------------------------------------------------------
\* What a step that is not the dialog's does to the row, in one definition:
\* the dialog and its calls are left alone.
Elsewhere ==
  \/ Captured \/ PaymentFailed \/ Expire
  \/ Displaced \/ SweepList \/ SweepWrite \/ SweepAbort
  \/ DeskConfirms \/ DeskMarks \/ Cancels \/ CourtCounted \/ CourtRemoved

LEMMA ElsewhereTypes ==
  ASSUME FlowTypeOK, Elsewhere
  PROVE  FlowTypeOK'
<1>1. UNCHANGED <<dialog, call, prepay, lost>>
  BY DEF Elsewhere, Captured, PaymentFailed, Expire, Displaced, SweepList, SweepWrite, SweepAbort,
         DeskConfirms, DeskMarks, Cancels, CourtCounted, CourtRemoved, Aside
<1>2. /\ row' \in Settled \cup {"none", "held", "expired", "gone", "lost"}
      /\ listed' \in BOOLEAN
      /\ court' \in {"open", "counted", "removed"}
      /\ intent' \in {"none", "created", "paid", "failed", "refunded"}
  BY DEF Elsewhere, Captured, PaymentFailed, Expire, Displaced, SweepList, SweepWrite, SweepAbort,
         DeskConfirms, DeskMarks, Cancels, CourtCounted, CourtRemoved, Delete, FlowTypeOK, Settled
<1> QED
  BY <1>1, <1>2 DEF FlowTypeOK, dialog

\* A booking that is there stays, or is lost; a row that is listed is there.
LEMMA ElsewhereRows ==
  ASSUME Elsewhere, ListedIsThere
  PROVE  Booked => Booked'
BY DEF Elsewhere, Captured, PaymentFailed, Expire, Displaced, Sweepable, SweepList, SweepWrite,
       SweepAbort, DeskConfirms, DeskMarks, Cancels, CourtCounted, CourtRemoved, Delete, Booked,
       Settled, Held, Exists, ListedIsThere

LEMMA ElsewhereListed ==
  ASSUME Elsewhere, ListedIsThere
  PROVE  ListedIsThere'
BY DEF Elsewhere, Captured, PaymentFailed, Expire, Displaced, Sweepable, SweepList, SweepWrite,
       SweepAbort, DeskConfirms, DeskMarks, Cancels, CourtCounted, CourtRemoved, Delete, Booked,
       Settled, Held, Exists, ListedIsThere

---------------------------------------------------------------------------
\* Types.

LEMMA FlowTypeInit == FlowInit => FlowTypeOK
<1> SUFFICES ASSUME FlowInit PROVE FlowTypeOK
  OBVIOUS
<1>1. call \in [Call -> {"idle"}]
  BY DEF FlowInit
<1>2. lost \in 0 .. MaxLost
  BY FlowAssumption DEF FlowInit
<1> QED
  BY <1>1, <1>2 DEF FlowInit, FlowTypeOK, Answer, Settled

LEMMA FlowTypeStep == FlowTypeOK /\ [FlowNext]_flowVars => FlowTypeOK'
<1> SUFFICES ASSUME FlowTypeOK, [FlowNext]_flowVars PROVE FlowTypeOK'
  OBVIOUS
<1>0. CASE Elsewhere
  BY <1>0, ElsewhereTypes
<1> USE FlowAssumption DEF FlowTypeOK, Answer, Settled, dialog, server
<1>1. CASE TakeHold
  BY <1>1 DEF TakeHold, Sends, Call
<1>2. CASE Lapse \/ SessionEnds
  BY <1>2 DEF Lapse, SessionEnds
<1>3. CASE Press
  <2>1. CASE prepay
    BY <1>3, <2>1 DEF Press, Sends, Call
  <2>2. CASE ~prepay
    BY <1>3, <2>2 DEF Press, Sends, Call
  <2> QED
    BY <2>1, <2>2
<1>4. CASE Poll
  BY <1>4 DEF Poll, Sends, Call
<1>5. CASE Close
  BY <1>5 DEF Close, Sends, Call
<1>6. CASE HearPoll
  BY <1>6 DEF HearPoll, PollOn, Call
<1>7. CASE ServeTakeHold
  BY <1>7 DEF ServeTakeHold, Serve, Answers, Call
<1>8. CASE ServeConfirm
  BY <1>8 DEF ServeConfirm, Answers, Call
<1>9. CASE ServeStartPayment
  BY <1>9 DEF ServeStartPayment, Answers, Call
<1>10. CASE ServeRelease
  BY <1>10 DEF ServeRelease, Serve, Answers, Delete, Call
<1>11. CASE ServePoll
  BY <1>11 DEF ServePoll, Serve, Answers, StatusOf, Call
<1>12. ASSUME NEW k \in Call, Hear(k) PROVE FlowTypeOK'
  BY <1>12 DEF Hear, Takes, AfterOk, AfterStart
<1>13. ASSUME NEW k \in Call, ServeEnded(k) \/ Lose(k) PROVE FlowTypeOK'
  BY <1>13 DEF ServeEnded, Lose
<1>14. ASSUME NEW k \in Call, Judge(k) \/ Refuse(k) PROVE FlowTypeOK'
  BY <1>14 DEF Judge, Refuse, Serve, Answers
<1>15. CASE UNCHANGED flowVars
  BY <1>15 DEF flowVars
<1> QED
  BY <1>0, <1>1, <1>2, <1>3, <1>4, <1>5, <1>6, <1>7, <1>8, <1>9, <1>10, <1>11, <1>12, <1>13,
     <1>14, <1>15 DEF FlowNext, Elsewhere

---------------------------------------------------------------------------
\* What the dialog hears.

LEMMA FlowInvStep == FlowInv /\ [FlowNext]_flowVars => FlowInv'
<1> SUFFICES ASSUME FlowInv, [FlowNext]_flowVars PROVE FlowInv'
  OBVIOUS
<1>z. FlowTypeOK'
  BY FlowTypeStep DEF FlowInv
<1> DEFINE Told == OneThingAtATime /\ NewsIsTrue /\ ListedIsThere /\ DoneMeansBooked
<1>t. /\ step \in {"identify", "confirm", "lapsed", "paying", "done", "closed", "left"}
      /\ call \in [Call -> Answer \cup {"idle", "sent", "judged"}]
      /\ row \in Settled \cup {"none", "held", "expired", "gone", "lost"}
  BY DEF FlowInv, FlowTypeOK
<1>told. Told
  BY DEF FlowInv
<1> SUFFICES Told'
  BY <1>z DEF FlowInv
<1>0. CASE Elsewhere
  <2>1. UNCHANGED <<step, call>>
    BY <1>0 DEF Elsewhere, Captured, PaymentFailed, Expire, Displaced, SweepList, SweepWrite,
                SweepAbort, DeskConfirms, DeskMarks, Cancels, CourtCounted, CourtRemoved, Aside,
                dialog
  <2>2. (Booked => Booked') /\ ListedIsThere'
    BY <1>0, <1>told, ElsewhereRows, ElsewhereListed
  <2> QED
    BY <1>told, <2>1, <2>2 DEF OneThingAtATime, NewsIsTrue, DoneMeansBooked, Underway, Booked
<1> USE <1>t, <1>told DEF OneThingAtATime, NewsIsTrue, ListedIsThere, DoneMeansBooked, Underway,
                          Booked, Settled, Exists, Held, dialog, server
<1>1. CASE TakeHold
  BY <1>1 DEF TakeHold, Sends, Quiet, Call
<1>2. CASE Lapse \/ SessionEnds
  BY <1>2 DEF Lapse, SessionEnds
<1>3. CASE Press
  <2>1. CASE prepay
    BY <1>3, <2>1 DEF Press, Sends, Call
  <2>2. CASE ~prepay
    BY <1>3, <2>2 DEF Press, Sends, Call
  <2> QED
    BY <2>1, <2>2
<1>4. CASE Poll
  BY <1>4 DEF Poll, Sends, Call
<1>5. CASE Close
  BY <1>5 DEF Close, Sends, Call
<1>6. CASE HearPoll
  BY <1>6 DEF HearPoll, PollOn, Back, Answer, Call
<1>7. CASE ServeTakeHold
  <2>1. step' = step /\ call' = [call EXCEPT !["takeHold"] = "ok"] /\ call["takeHold"] = "sent"
    BY <1>7 DEF ServeTakeHold, Serve, Answers
  <2>2. ListedIsThere'
    BY <1>7 DEF ServeTakeHold, Serve, Answers
  <2> QED
    BY <2>1, <2>2 DEF Call
<1>8. CASE ServeConfirm
  <2>1. step' = step /\ call' = [call EXCEPT !["confirm"] = "ok"] /\ call["confirm"] = "judged"
    BY <1>8 DEF ServeConfirm, Answers
  <2>2. Booked' /\ ListedIsThere'
    BY <1>8 DEF ServeConfirm, Answers
  <2> QED
    BY <2>1, <2>2 DEF Call
<1>9. CASE ServeStartPayment
  <2>1. step' = step /\ call' = [call EXCEPT !["startPayment"] = "ok"] /\ call["startPayment"] = "judged"
    BY <1>9 DEF ServeStartPayment, Answers
  <2>2. (Booked => Booked') /\ ListedIsThere'
    BY <1>9 DEF ServeStartPayment, Answers
  <2> QED
    BY <2>1, <2>2 DEF Call
<1>10. CASE ServeRelease
  <2>1. step' = step /\ call' = [call EXCEPT !["release"] = "ok"]
    BY <1>10 DEF ServeRelease, Serve, Answers
  <2>2. (Booked => Booked') /\ ListedIsThere'
    BY <1>10 DEF ServeRelease, Serve, Answers, Releasable, Delete
  <2> QED
    BY <2>1, <2>2 DEF Call
<1>11. CASE ServePoll
  <2>1. step' = step /\ call' = [call EXCEPT !["poll"] = StatusOf] /\ call["poll"] = "sent"
    BY <1>11 DEF ServePoll, Serve, Answers
  <2>2. (StatusOf = "confirmed" => Booked) /\ (Booked => Booked') /\ ListedIsThere'
    BY <1>11 DEF ServePoll, Serve, Answers, StatusOf
  <2> QED
    BY <2>1, <2>2 DEF Call
<1>12. ASSUME NEW k \in Call, Hear(k) PROVE Told'
  <2>1. /\ k # "poll" /\ UNCHANGED <<row, listed>> /\ call' = [call EXCEPT ![k] = "idle"]
        /\ step' = IF call[k] = "ended" THEN "left"
                   ELSE IF step \notin {"closed", "left"} /\ call[k] = "ok" THEN AfterOk(k) ELSE step
    BY <1>12 DEF Hear, Takes, Gone
  <2>2. call[k] # "idle"
    BY <1>12 DEF Hear, Back, Answer
  <2>3. CASE step' = step
    BY <2>1, <2>3, <1>12 DEF Call
  <2>4. CASE step' = "left"
    BY <2>1, <2>4
  <2>5. CASE call[k] = "ok" /\ k = "takeHold" /\ step' = "confirm" /\ step \notin {"closed", "left"}
    BY <2>1, <2>2, <2>5 DEF Call
  <2>6. CASE call[k] = "ok" /\ k = "confirm" /\ step' = "done" /\ Underway
    BY <2>1, <2>6 DEF Call
  <2>7. CASE call[k] = "ok" /\ k = "startPayment" /\ step' = "paying" /\ Underway
    BY <2>1, <2>7 DEF Call
  <2>8. k \in {"confirm", "startPayment"} /\ step \notin {"closed", "left"} => Underway
    BY <2>2
  <2> QED
    BY <2>1, <2>3, <2>4, <2>5, <2>6, <2>7, <2>8 DEF AfterOk, AfterStart, Call
<1>13. ASSUME NEW k \in Call, ServeEnded(k) PROVE Told'
  BY <1>13 DEF ServeEnded, Call
<1>14. ASSUME NEW k \in Call, Lose(k) PROVE Told'
  BY <1>14 DEF Lose, Back, Answer, Call
<1>15. ASSUME NEW k \in Call, Judge(k) \/ Refuse(k) PROVE Told'
  BY <1>15 DEF Judge, Refuse, Serve, Answers, Call
<1>16. CASE UNCHANGED flowVars
  BY <1>16 DEF flowVars
<1> QED
  BY <1>0, <1>1, <1>2, <1>3, <1>4, <1>5, <1>6, <1>7, <1>8, <1>9, <1>10, <1>11, <1>12, <1>13,
     <1>14, <1>15, <1>16 DEF FlowNext, Elsewhere

LEMMA FlowInvInit == FlowInit => FlowInv
BY FlowTypeInit
   DEF FlowInit, FlowInv, OneThingAtATime, NewsIsTrue, ListedIsThere, DoneMeansBooked, Underway, Call

LEMMA FlowInvAlways == FlowSpec => []FlowInv
<1>1. FlowInit => FlowInv
  BY FlowInvInit
<1>2. FlowInv /\ [FlowNext]_flowVars => FlowInv'
  BY FlowInvStep
<1> QED
  BY <1>1, <1>2, PTL DEF FlowSpec

---------------------------------------------------------------------------

\* The dialog, its calls and the server's rows keep their types
\* (BookingFlow.tsx and what it calls).
THEOREM FlowTypeCorrect == FlowSpec => []FlowTypeOK
<1>1. FlowInv => FlowTypeOK
  BY DEF FlowInv
<1> QED
  BY <1>1, FlowInvAlways, PTL

\* A dialog that says Booked stands before a booking, or one that the sweep or
\* the removal of the court deleted, however many calls are lost and however
\* late their answers come (BookingFlow.tsx and CheckoutService.statusFor).
THEOREM SaysBookedTruly == FlowSpec => []DoneMeansBooked
<1>1. FlowInv => DoneMeansBooked
  BY DEF FlowInv
<1> QED
  BY <1>1, FlowInvAlways, PTL

\* A booking is deleted by what had decided on it before it was one, and by
\* nothing that is done from the page, whenever the call arrives
\* (HoldsService.release, sweepExpired, VenuesService.deleteResource).
THEOREM PageKeepsBookings == FlowSpec => BookedIsKept
<1>1. FlowInv /\ [FlowNext]_flowVars => [row = "confirmed" => Kept]_flowVars
  <2> SUFFICES ASSUME FlowInv, [FlowNext]_flowVars, row = "confirmed"
               PROVE Kept
    OBVIOUS
  <2> USE DEF Kept, Settled, Held, dialog, server
  <2>1. CASE TakeHold \/ Lapse \/ Press \/ Poll \/ Close \/ HearPoll \/ SessionEnds
    BY <2>1 DEF TakeHold, Lapse, Press, Poll, Close, HearPoll, SessionEnds
  <2>2. CASE ServeTakeHold \/ ServeConfirm \/ ServeStartPayment \/ ServeRelease \/ ServePoll
    BY <2>2 DEF ServeTakeHold, ServeConfirm, ServeStartPayment, ServeRelease, ServePoll,
                Releasable, Occupies
  <2>3. ASSUME NEW k \in Call, Hear(k) \/ Judge(k) \/ Refuse(k) \/ ServeEnded(k) \/ Lose(k)
        PROVE Kept
    BY <2>3 DEF Hear, Judge, Refuse, ServeEnded, Lose
  <2>4. CASE Captured \/ PaymentFailed \/ Expire \/ DeskConfirms \/ DeskMarks \/ Cancels
    BY <2>4 DEF Captured, PaymentFailed, Expire, DeskConfirms, DeskMarks, Cancels
  <2>5. CASE Displaced \/ SweepList \/ SweepWrite \/ SweepAbort \/ CourtCounted \/ CourtRemoved
    BY <2>5 DEF Displaced, Sweepable, SweepList, SweepWrite, SweepAbort, CourtCounted,
                CourtRemoved, Delete, Exists
  <2>6. CASE UNCHANGED flowVars
    BY <2>6 DEF flowVars
  <2> QED
    BY <2>1, <2>2, <2>3, <2>4, <2>5, <2>6 DEF FlowNext
<1> QED
  BY <1>1, FlowInvAlways, PTL DEF FlowSpec, BookedIsKept
=============================================================================
