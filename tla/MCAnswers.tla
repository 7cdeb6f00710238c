----------------------------- MODULE MCAnswers -----------------------------
(***************************************************************************)
(* Three things that wait, in one run: the messages of Outbox, the dialog  *)
(* of BookingFlow, and the expired holds of Reservations, these in two     *)
(* instances: more of them than a sweep takes, and one that a slow handler *)
(* may be confirming or cancelling meanwhile.  They share no state, so     *)
(* each behaviour is one of them, with the others where they began; there  *)
(* none of their fair actions is enabled, and the sweep's fairness is      *)
(* stated for its own scenes.                                              *)
(***************************************************************************)
EXTENDS Outbox, BookingFlow, TLC

CONSTANTS
  b1, b2, r1, r2, p1

VARIABLES reservation, payment, inflight, sweep, removed, scene

engineVars == <<reservation, payment, inflight, sweep, removed>>
vars == <<outboxVars, flowVars, engineVars, scene>>

Backlog == INSTANCE Reservations WITH
  Booking <- {b1, b2}, Slot <- {{1}, {2}}, Court <- {}, Payment <- {p1}, Amount <- {1},
  Request <- {}, RequiresPrepayment <- FALSE, SweepLimit <- 1
Race == INSTANCE Reservations WITH
  Booking <- {b1}, Slot <- {{1}}, Court <- {}, Payment <- {p1}, Amount <- {1},
  Request <- {r1}, RequiresPrepayment <- FALSE, SweepLimit <- 1

Init ==
  /\ scene \in {"messages", "dialog", "backlog", "race"}
  /\ OutboxInit /\ FlowInit
  /\ IF scene = "race" THEN Race!Init ELSE Backlog!Init
  /\ scene # "dialog" => ~prepay /\ session = "none"

Next ==
  /\ UNCHANGED scene
  /\ \/ scene = "messages" /\ UNCHANGED <<flowVars, engineVars>> /\ OutboxNext
     \/ scene = "dialog" /\ UNCHANGED <<outboxVars, engineVars>> /\ FlowNext
     \/ scene = "backlog" /\ UNCHANGED <<outboxVars, flowVars>> /\ Backlog!Next
     \/ scene = "race" /\ UNCHANGED <<outboxVars, flowVars>> /\ Race!Next

\* Reservations' Fairness, of the scenes that have holds.
SweepLists ==
  \/ scene = "backlog" /\ Backlog!SweepList
  \/ scene = "race" /\ Race!SweepList
SweepCounts ==
  \/ scene = "backlog" /\ \E b \in {b1, b2} : Backlog!SweepCount(b)
  \/ scene = "race" /\ Race!SweepCount(b1)
SweepCommits ==
  \/ scene = "backlog" /\ Backlog!SweepCommit
  \/ scene = "race" /\ Race!SweepCommit
FairSweep ==
  WF_engineVars(SweepLists) /\ WF_engineVars(SweepCounts) /\ SF_engineVars(SweepCommits)

Spec == Init /\ [][Next]_vars /\ FairDelivery /\ FlowFairness /\ FairSweep

\* A hold that has expired goes, by the next sweep or a later one, although
\* sweeps fail, take fewer than there are, and meet handlers that confirm or
\* cancel what they listed (HoldsService.sweepExpired).
ExpiredHold(b) ==
  \/ scene = "backlog" /\ Backlog!ExpiredHold(b)
  \/ scene = "race" /\ b = b1 /\ Race!ExpiredHold(b)
ExpiredHoldsGo == \A b \in {b1, b2} : ExpiredHold(b) ~> ~ExpiredHold(b)
=============================================================================
