---------------------------- MODULE RefundPolicy ----------------------------
(***************************************************************************)
(* The ladder of a venue's cancellation policy, its replacement, and what a*)
(* cancellation is worth by it (backend/src/cancellation).  Time is counted*)
(* in ticks; TicksPerHour of them make an hour.                            *)
(***************************************************************************)
EXTENDS Integers, FiniteSets

CONSTANTS
  TierHours, TierPct,   \* thresholds and percentages that tiers use
  PolicySave, PolicyEditor,
  TicksPerHour,
  Ticks,                \* how long before the start it is cancelled; negative after it
  Billed, Collected     \* amounts of bookings, and what was paid for them

ASSUME RefundPolicyAssumption ==
  /\ TierHours \subseteq Nat /\ TierPct \subseteq 0 .. 100
  /\ TicksPerHour \in Nat \ {0} /\ Ticks \subseteq Int
  /\ Billed \subseteq Nat /\ Collected \subseteq Int

VARIABLES tiers, policySaves, policyContested

policyVars == <<tiers, policySaves, policyContested>>

---------------------------------------------------------------------------
\* A tier is <<min_hours_before, refund_pct>>.

\* Mutant of Sane ladders: the order of refunds is not looked at.
LadderOfAnyOrder(L) == \A a, b \in L : a # b => a[1] # b[1]

\* replace() refuses two tiers of the same hours, and a later one that
\* refunds more.
Ladder(L) == \A a, b \in L : a # b => a[1] # b[1] /\ (a[1] > b[1] => b[2] <= a[2])

\* cancellation_tier_unique.
Different(a, b) == a[1] # b[1]

Ladders == {L \in SUBSET (TierHours \X TierPct) : Ladder(L)}

Policy == INSTANCE SavedSet WITH
  Save <- PolicySave, Editor <- PolicyEditor, Compatible <- Different, Choice <- Ladders,
  rows <- tiers, saving <- policySaves, contested <- policyContested

---------------------------------------------------------------------------
\* The pure functions.

AtLeast(a, b) == IF a >= b THEN a ELSE b
AtMost(a, b) == IF a <= b THEN a ELSE b

\* Math.floor of the hours between now and the start.
hoursUntil(ticks) == ticks \div TicksPerHour

\* Math.round of a percentage.
Percent(amount, pct) == (2 * amount * pct + 100) \div 200

\* The tier of the largest threshold that is still cleared.
TierFor(hours) ==
  {t \in Policy!AllRows : hours >= t[1] /\ \A s \in Policy!AllRows : hours >= s[1] => s[1] <= t[1]}

quoteRefund(hours, amount, paid) ==
  LET pct == IF TierFor(hours) = {} THEN 0 ELSE (CHOOSE t \in TierFor(hours) : TRUE)[2]
  IN  IF Policy!AllRows = {} THEN [configured |-> FALSE, refund |-> 0]
      ELSE [configured |-> TRUE,
            refund |-> AtMost(Percent(AtLeast(amount, 0), pct), AtLeast(paid, 0))]

---------------------------------------------------------------------------
PolicyInit == Policy!SavedSetInit
PolicyNext == Policy!SavedSetNext

---------------------------------------------------------------------------
\* Properties.

PolicyTypeOK == Policy!SavedSetTypeOK

Refund(ticks, amount, paid) == quoteRefund(hoursUntil(ticks), amount, paid).refund

\* "Cancelling later should not refund more", whatever is billed and paid,
\* unless two saves of the policy overlapped and what is left of both is a
\* ladder that was never looked at.  In any case one tier applies, nothing is
\* refunded that was not collected, nothing once the booking has begun.
EarlierIsNoWorse ==
  \A amount \in Billed, paid \in Collected, s, t \in Ticks :
    /\ policyContested \/ s > t \/ Refund(s, amount, paid) <= Refund(t, amount, paid)
    /\ Cardinality(TierFor(hoursUntil(t))) <= 1
    /\ Refund(t, amount, paid) \in 0 .. AtLeast(paid, 0)
    /\ t < 0 => Refund(t, amount, paid) = 0
=============================================================================
