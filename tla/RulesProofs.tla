---------------------------- MODULE RulesProofs ----------------------------
(***************************************************************************)
(* What is proved of the rules: the tables keep their types, the page and  *)
(* a hold judge a slot alike, one price is charged whatever order the rules*)
(* are read in, a later cancellation is not worth more, and what a page    *)
(* shows after a change is not older than the change.                      *)
(***************************************************************************)
EXTENDS MCRules, FiniteSetTheorems, NaturalsInduction, TLAPS

\* The cancellation policy.

PolicySaving ==
  [phase : {"idle"}] \cup [phase : {"saving"}, seen : SUBSET PolicySave, alone : BOOLEAN]

\* A save that has been alone so far has seen every row there is.
PolicyAlone ==
  \A e \in PolicyEditor : Policy!Saving(e) /\ policySaves[e].alone =>
    /\ \A f \in PolicyEditor \ {e} : ~Policy!Saving(f)
    /\ \A k \in PolicySave : tiers[k] # {} => k \in policySaves[e].seen

\* What is in force is made of tiers of different hours, and is a ladder that
\* was looked at unless two saves met.
PolicyInv ==
  /\ PolicyTypeOK /\ PolicyAlone
  /\ \A a, b \in Policy!AllRows : a # b => a[1] # b[1]
  /\ policyContested \/ Ladder(Policy!AllRows)

LEMMA PolicyStep == PolicyInv /\ [PolicyNext]_policyVars => PolicyInv'
<1> SUFFICES ASSUME PolicyInv, [PolicyNext]_policyVars PROVE PolicyInv'
  OBVIOUS
<1>0. /\ PolicyTypeOK /\ PolicyAlone
      /\ tiers \in [PolicySave -> Ladders] /\ policySaves \in [PolicyEditor -> PolicySaving]
  BY DEF PolicyInv, PolicyTypeOK, Policy!SavedSetTypeOK, PolicySaving
<1>e. {} \in Ladders
  BY DEF Ladders, Ladder
<1>1. ASSUME NEW e \in PolicyEditor, Policy!SaveRead(e) PROVE PolicyInv'
  <2>1. UNCHANGED <<tiers, policyContested>>
    BY <1>1 DEF Policy!SaveRead
  <2>2. Policy!AllRows' = Policy!AllRows
    BY <2>1 DEF Policy!AllRows
  <2>3. PICK x : x = [phase |-> "saving", seen |-> {k \in PolicySave : tiers[k] # {}},
                      alone |-> \A g \in PolicyEditor : ~Policy!Saving(g)]
    OBVIOUS
  <2>4. /\ policySaves'[e] = x
        /\ \A f \in PolicyEditor \ {e} : policySaves'[f] =
             IF Policy!Saving(f) THEN [policySaves[f] EXCEPT !.alone = FALSE] ELSE policySaves[f]
    BY <1>1, <2>3 DEF Policy!SaveRead
  <2>5. x \in PolicySaving /\ x.alone = (\A g \in PolicyEditor : ~Policy!Saving(g))
        /\ x.seen = {k \in PolicySave : tiers[k] # {}} /\ x.phase = "saving"
    BY <2>3 DEF PolicySaving
  <2>6. ASSUME NEW f \in PolicyEditor \ {e}
        PROVE  /\ policySaves'[f] \in PolicySaving
               /\ policySaves'[f].phase = policySaves[f].phase
               /\ Policy!Saving(f) => ~policySaves'[f].alone
    BY <1>0, <2>4 DEF PolicySaving, Policy!Saving
  <2>7. PolicyTypeOK'
    BY <1>0, <1>1, <2>1, <2>4, <2>5, <2>6 DEF PolicyTypeOK, Policy!SavedSetTypeOK, Policy!SaveRead, PolicySaving
  <2>8. PolicyAlone'
    BY <2>1, <2>4, <2>5, <2>6 DEF PolicyAlone, Policy!Saving
  <2>9. QED
    BY <2>1, <2>2, <2>7, <2>8 DEF PolicyInv
<1>2. ASSUME NEW e \in PolicyEditor, NEW k \in PolicySave, NEW choice \in Ladders,
             Policy!SaveWrite(e, k, choice)
      PROVE PolicyInv'
  <2> DEFINE kept == Policy!Kept(policySaves[e].seen)
  <2>1. /\ Policy!Saving(e) /\ tiers' = [kept EXCEPT ![k] = choice]
        /\ \A j \in PolicySave : \A a \in kept[j], b \in choice : a[1] # b[1]
        /\ policyContested' = ~policySaves[e].alone
        /\ policySaves' = [policySaves EXCEPT ![e] = [phase |-> "idle"]]
    BY <1>2 DEF Policy!SaveWrite, Different
  <2>2. \A j \in PolicySave : kept[j] = IF j \in policySaves[e].seen THEN {} ELSE tiers[j]
    BY DEF Policy!Kept
  <2>3. kept \in [PolicySave -> Ladders]
    BY <1>0, <1>e DEF Policy!Kept
  <2> HIDE DEF kept
  <2>4. \A j \in PolicySave : tiers'[j] = IF j = k THEN choice ELSE kept[j]
    BY <2>1, <2>3
  <2>5. /\ policySaves'[e].phase = "idle" /\ policySaves' \in [PolicyEditor -> PolicySaving]
        /\ \A f \in PolicyEditor \ {e} : policySaves'[f] = policySaves[f]
    BY <1>0, <2>1 DEF PolicySaving
  <2>6. tiers' \in [PolicySave -> Ladders] /\ policyContested' \in BOOLEAN
    BY <2>1, <2>3
  <2>7. PolicyTypeOK'
    BY <2>5, <2>6 DEF PolicyTypeOK, Policy!SavedSetTypeOK, PolicySaving
  <2>8. PolicyAlone'
    <3>1. ASSUME NEW f \in PolicyEditor, policySaves'[f].phase = "saving", policySaves'[f].alone PROVE FALSE
      BY <1>0, <2>1, <2>5, <3>1 DEF PolicyAlone, Policy!Saving
    <3>2. QED
      BY <3>1 DEF PolicyAlone, Policy!Saving
  <2>9. \A a \in Policy!AllRows' : a \in choice \/ \E j \in PolicySave : a \in kept[j] /\ a \in tiers[j]
    BY <2>2, <2>4 DEF Policy!AllRows
  <2>10. ASSUME NEW a \in Policy!AllRows', NEW b \in Policy!AllRows', a # b PROVE a[1] # b[1]
    <3>1. CASE a \in choice /\ b \in choice
      BY <2>10, <3>1 DEF Ladders, Ladder
    <3>2. CASE a \in choice /\ b \notin choice
      BY <2>1, <2>9, <3>2
    <3>3. CASE a \notin choice /\ b \in choice
      BY <2>1, <2>9, <3>3
    <3>4. CASE a \notin choice /\ b \notin choice
      <4>1. a \in Policy!AllRows /\ b \in Policy!AllRows
        BY <2>9, <3>4 DEF Policy!AllRows
      <4>2. QED
        BY <2>10, <4>1 DEF PolicyInv
    <3>5. QED
      BY <3>1, <3>2, <3>3, <3>4
  <2>11. ASSUME ~policyContested' PROVE Ladder(Policy!AllRows')
    <3>1. policySaves[e].alone
      BY <1>0, <2>1, <2>11
    <3>2. \A j \in PolicySave : kept[j] = {}
      BY <1>0, <2>1, <2>2, <3>1 DEF PolicyAlone
    <3>3. Policy!AllRows' \subseteq choice
      BY <2>9, <3>2
    <3>4. QED
      BY <3>3 DEF Ladders, Ladder
  <2>12. QED
    BY <2>7, <2>8, <2>10, <2>11 DEF PolicyInv, Ladder
<1>3. ASSUME NEW e \in PolicyEditor, Policy!SaveFails(e) PROVE PolicyInv'
  <2>1. UNCHANGED <<tiers, policyContested>> /\ policySaves' = [policySaves EXCEPT ![e] = [phase |-> "idle"]]
    BY <1>3 DEF Policy!SaveFails
  <2>2. /\ policySaves'[e].phase = "idle" /\ policySaves' \in [PolicyEditor -> PolicySaving]
        /\ \A f \in PolicyEditor \ {e} : policySaves'[f] = policySaves[f]
    BY <1>0, <2>1 DEF PolicySaving
  <2>3. PolicyTypeOK'
    BY <1>0, <2>1, <2>2 DEF PolicyTypeOK, Policy!SavedSetTypeOK, PolicySaving
  <2>4. PolicyAlone'
    BY <1>0, <2>1, <2>2 DEF PolicyAlone, Policy!Saving
  <2>5. Policy!AllRows' = Policy!AllRows
    BY <2>1 DEF Policy!AllRows
  <2>6. QED
    BY <2>1, <2>3, <2>4, <2>5 DEF PolicyInv
<1>4. CASE UNCHANGED policyVars
  <2>1. Policy!AllRows' = Policy!AllRows
    BY <1>4 DEF policyVars, Policy!AllRows
  <2>2. PolicyTypeOK' /\ PolicyAlone'
    BY <1>0, <1>4 DEF policyVars, PolicyTypeOK, Policy!SavedSetTypeOK, PolicyAlone, Policy!Saving
  <2>3. QED
    BY <1>4, <2>1, <2>2 DEF PolicyInv, policyVars
<1>5. QED
  BY <1>1, <1>2, <1>3, <1>4 DEF PolicyNext, Policy!SavedSetNext

LEMMA PolicyInitInv == PolicyInit => PolicyInv
<1> SUFFICES ASSUME PolicyInit PROVE PolicyInv
  OBVIOUS
<1>1. /\ tiers = [k \in PolicySave |-> {}] /\ policySaves = [e \in PolicyEditor |-> [phase |-> "idle"]]
      /\ policyContested = FALSE
  BY DEF PolicyInit, Policy!SavedSetInit
<1>2. {} \in Ladders
  BY DEF Ladders, Ladder
<1>3. PolicyTypeOK
  BY <1>1, <1>2 DEF PolicyTypeOK, Policy!SavedSetTypeOK
<1>4. Policy!AllRows = {}
  BY <1>1 DEF Policy!AllRows
<1>5. PolicyAlone
  BY <1>1 DEF PolicyAlone, Policy!Saving
<1>6. QED
  BY <1>3, <1>4, <1>5 DEF PolicyInv, Ladder

\* Hours and percentages are in order: later is not more hours, a smaller
\* percentage not more money.
LEMMA HoursInOrder ==
  ASSUME NEW s \in Int, NEW t \in Int, s <= t
  PROVE  /\ hoursUntil(s) \in Int /\ hoursUntil(t) \in Int
         /\ hoursUntil(s) <= hoursUntil(t)
         /\ s < 0 => hoursUntil(s) < 0
<1>1. PICK n \in Int : n = TicksPerHour /\ n > 0
  BY RefundPolicyAssumption
<1>2. PICK q \in Int : q = s \div n
  BY <1>1
<1>3. PICK r \in Int : r = t \div n
  BY <1>1
<1>4. q * n <= s /\ s < q * n + n
  BY <1>1, <1>2
<1>5. r * n <= t /\ t < r * n + n
  BY <1>1, <1>3
<1>6. q <= r
  <2> SUFFICES ASSUME r + 1 <= q PROVE FALSE
    OBVIOUS
  <2>1. (r + 1) * n <= q * n
    BY <1>1
  <2>2. (r + 1) * n = r * n + n
    BY <1>1
  <2>3. QED
    BY <1>1, <1>4, <1>5, <2>1, <2>2
<1>7. s < 0 => q < 0
  <2> SUFFICES ASSUME s < 0, 0 <= q PROVE FALSE
    OBVIOUS
  <2>1. 0 <= q * n
    BY <1>1
  <2>2. QED
    BY <1>1, <1>4, <2>1
<1>8. hoursUntil(s) = q /\ hoursUntil(t) = r
  BY <1>1, <1>2, <1>3 DEF hoursUntil
<1>9. QED
  BY <1>6, <1>7, <1>8

LEMMA PercentInOrder ==
  ASSUME NEW amount \in Nat, NEW p \in Nat, NEW q \in Nat, p <= q
  PROVE  /\ Percent(amount, p) \in Nat /\ Percent(amount, q) \in Nat
         /\ Percent(amount, p) <= Percent(amount, q)
         /\ Percent(amount, 0) = 0
<1>1. PICK x \in Nat : x = amount * p
  OBVIOUS
<1>2. PICK y \in Nat : y = amount * q
  OBVIOUS
<1>3. PICK d \in Nat : q = p + d
  OBVIOUS
<1>4. y = x + amount * d /\ amount * d \in Nat
  BY <1>1, <1>2, <1>3
<1>5. x <= y
  BY <1>4
<1>6. 2 * amount * p = 2 * x /\ 2 * amount * q = 2 * y /\ 2 * amount * 0 = 0
  BY <1>1, <1>2
<1>7. /\ Percent(amount, p) = (2 * x + 100) \div 200
      /\ Percent(amount, q) = (2 * y + 100) \div 200
      /\ Percent(amount, 0) = 100 \div 200
  BY <1>6 DEF Percent
<1>8. QED
  BY <1>5, <1>7

\* The tiers in force.
LEMMA TierRows ==
  ASSUME PolicyInv, NEW t \in Policy!AllRows
  PROVE  t[1] \in Nat /\ t[2] \in Nat /\ t[2] <= 100
<1>1. PICK k \in PolicySave : t \in tiers[k]
  BY DEF Policy!AllRows
<1>2. tiers[k] \subseteq TierHours \X TierPct
  BY DEF PolicyInv, PolicyTypeOK, Policy!SavedSetTypeOK, Ladders
<1>3. t \in TierHours \X TierPct
  BY <1>1, <1>2
<1>4. t[1] \in TierHours /\ t[2] \in TierPct
  BY <1>3
<1>5. t[1] \in Nat
  BY <1>4, RefundPolicyAssumption
<1>6. t[2] \in 0 .. 100
  BY <1>4, RefundPolicyAssumption
<1>7. QED
  BY <1>5, <1>6

\* One tier applies as soon as one threshold is cleared, and never two.
LEMMA OneTier ==
  ASSUME PolicyInv, NEW hours \in Int
  PROVE  /\ \A a, b \in TierFor(hours) : a = b
         /\ TierFor(hours) = {} => \A t \in Policy!AllRows : hours < t[1]
<1>1. ASSUME NEW a \in TierFor(hours), NEW b \in TierFor(hours) PROVE a = b
  <2>1. a \in Policy!AllRows /\ b \in Policy!AllRows /\ a[1] <= b[1] /\ b[1] <= a[1]
    BY DEF TierFor
  <2>2. a[1] = b[1]
    BY <2>1, TierRows
  <2>3. QED
    BY <2>1, <2>2 DEF PolicyInv
<1>2. ASSUME NEW t \in Policy!AllRows, hours >= t[1] PROVE TierFor(hours) # {}
  <2> DEFINE over == {n \in Nat : \E s \in Policy!AllRows : hours >= s[1] /\ n = hours - s[1]}
  <2>1. hours - t[1] \in over
    BY <1>2, TierRows
  <2>2. IsWellFoundedOn(OpToRel(<, Nat), Nat)
    BY NatLessThanWellFounded
  <2>3. over \subseteq Nat /\ over # {}
    BY <2>1
  <2> HIDE DEF over
  <2>4. PICK least \in over : \A y \in over : ~ (<<y, least>> \in OpToRel(<, Nat))
    BY <2>2, <2>3, WFMin
  <2>5. \A y \in over : ~ (y < least)
    BY <2>3, <2>4 DEF OpToRel
  <2>6. PICK s \in Policy!AllRows : hours >= s[1] /\ least = hours - s[1]
    BY <2>4 DEF over
  <2>7. ASSUME NEW u \in Policy!AllRows, hours >= u[1] PROVE u[1] <= s[1]
    <3>1. u[1] \in Nat /\ s[1] \in Nat
      BY TierRows
    <3>2. hours - u[1] \in over
      BY <2>7, <3>1 DEF over
    <3>3. QED
      BY <2>5, <2>6, <3>1, <3>2
  <2>8. s \in TierFor(hours)
    BY <2>6, <2>7 DEF TierFor
  <2>9. QED
    BY <2>8
<1>3. QED
  BY <1>1, <1>2, TierRows

LEMMA RefundsInOrder == PolicyInv => EarlierIsNoWorse
<1> SUFFICES ASSUME PolicyInv, NEW amount \in Billed, NEW paid \in Collected,
                    NEW s \in Ticks, NEW t \in Ticks
    PROVE  /\ policyContested \/ s > t \/ Refund(s, amount, paid) <= Refund(t, amount, paid)
           /\ Cardinality(TierFor(hoursUntil(t))) <= 1
           /\ Refund(t, amount, paid) \in 0 .. AtLeast(paid, 0)
           /\ t < 0 => Refund(t, amount, paid) = 0
  BY DEF EarlierIsNoWorse
<1> DEFINE pct(h) == IF TierFor(h) = {} THEN 0 ELSE (CHOOSE a \in TierFor(h) : TRUE)[2]
           worth(p) == AtMost(Percent(AtLeast(amount, 0), p), AtLeast(paid, 0))
<1>1. /\ amount \in Nat /\ AtLeast(amount, 0) = amount
      /\ AtLeast(paid, 0) \in Nat
      /\ s \in Int /\ t \in Int
      /\ hoursUntil(s) \in Int /\ hoursUntil(t) \in Int
  <2>1. amount \in Nat /\ paid \in Int /\ s \in Int /\ t \in Int
    BY RefundPolicyAssumption
  <2>2. hoursUntil(s) \in Int /\ hoursUntil(t) \in Int
    BY <2>1, HoursInOrder
  <2>3. QED
    BY <2>1, <2>2 DEF AtLeast
<1>2. \A u \in {s, t} :
        Refund(u, amount, paid) = IF Policy!AllRows = {} THEN 0 ELSE worth(pct(hoursUntil(u)))
  BY DEF Refund, quoteRefund
<1>3. ASSUME NEW h \in Int
      PROVE  /\ pct(h) \in Nat
             /\ TierFor(h) # {} => \E a \in TierFor(h) : pct(h) = a[2]
  <2>1. CASE TierFor(h) = {}
    BY <2>1
  <2>2. CASE TierFor(h) # {}
    <3>1. PICK a \in TierFor(h) : a = CHOOSE b \in TierFor(h) : TRUE
      BY <2>2
    <3>2. pct(h) = a[2] /\ a \in Policy!AllRows
      BY <2>2, <3>1 DEF TierFor
    <3>3. QED
      BY <3>1, <3>2, TierRows
  <2>3. QED
    BY <2>1, <2>2
<1>4. ASSUME NEW h \in Int, h < 0 PROVE pct(h) = 0
  <2>1. ASSUME NEW a \in TierFor(h) PROVE FALSE
    <3>1. a \in Policy!AllRows /\ h >= a[1]
      BY DEF TierFor
    <3>2. QED
      BY <1>4, <3>1, TierRows
  <2>2. QED
    BY <2>1
<1>5. ASSUME NEW g \in Int, NEW h \in Int, g <= h, ~policyContested PROVE pct(g) <= pct(h)
  <2>1. CASE TierFor(g) = {}
    BY <1>3, <2>1
  <2>2. CASE TierFor(g) # {}
    <3>1. PICK a \in TierFor(g) : pct(g) = a[2]
      BY <1>3, <2>2
    <3>2. a \in Policy!AllRows /\ g >= a[1] /\ a[1] \in Nat /\ a[2] \in Nat
      BY TierRows DEF TierFor
    <3>3. h >= a[1]
      BY <1>5, <3>2
    <3>4. TierFor(h) # {}
      BY <3>2, <3>3, OneTier
    <3>5. PICK b \in TierFor(h) : pct(h) = b[2]
      BY <1>3, <3>4
    <3>6. b \in Policy!AllRows /\ a[1] <= b[1] /\ b[1] \in Nat /\ b[2] \in Nat
      BY <3>2, <3>3, TierRows DEF TierFor
    <3>7. a = b \/ b[1] > a[1]
      BY <3>2, <3>6 DEF PolicyInv
    <3>8. a[2] <= b[2]
      BY <1>5, <3>2, <3>6, <3>7 DEF PolicyInv, Ladder
    <3>9. QED
      BY <3>1, <3>5, <3>8
  <2>3. QED
    BY <2>1, <2>2
<1> HIDE DEF pct
<1>6. ASSUME NEW p \in Nat, NEW q \in Nat, p <= q
      PROVE  /\ worth(p) \in 0 .. AtLeast(paid, 0) /\ worth(q) \in 0 .. AtLeast(paid, 0)
             /\ worth(p) <= worth(q) /\ worth(0) = 0
  <2>1. /\ Percent(amount, p) \in Nat /\ Percent(amount, q) \in Nat
        /\ Percent(amount, p) <= Percent(amount, q) /\ Percent(amount, 0) = 0
    BY <1>1, <1>6, PercentInOrder
  <2>2. QED
    BY <1>1, <2>1 DEF AtMost
<1> HIDE DEF worth
<1>7. Refund(t, amount, paid) \in 0 .. AtLeast(paid, 0)
  <2>1. pct(hoursUntil(t)) \in Nat
    BY <1>1, <1>3
  <2>2. worth(pct(hoursUntil(t))) \in 0 .. AtLeast(paid, 0)
    BY <1>6, <2>1
  <2>3. QED
    BY <1>1, <1>2, <2>2
<1>8. t < 0 => Refund(t, amount, paid) = 0
  <2> SUFFICES ASSUME t < 0 PROVE Refund(t, amount, paid) = 0
    OBVIOUS
  <2>1. hoursUntil(t) < 0
    BY <1>1, HoursInOrder
  <2>2. pct(hoursUntil(t)) = 0
    BY <1>1, <1>4, <2>1
  <2>3. worth(0) = 0
    BY <1>6
  <2>4. QED
    BY <1>2, <2>2, <2>3
<1>9. policyContested \/ s > t \/ Refund(s, amount, paid) <= Refund(t, amount, paid)
  <2> SUFFICES ASSUME ~policyContested, s <= t
               PROVE  Refund(s, amount, paid) <= Refund(t, amount, paid)
    BY <1>1
  <2>1. hoursUntil(s) <= hoursUntil(t)
    BY <1>1, HoursInOrder
  <2>2. pct(hoursUntil(s)) <= pct(hoursUntil(t))
    BY <1>1, <1>5, <2>1
  <2>3. pct(hoursUntil(s)) \in Nat /\ pct(hoursUntil(t)) \in Nat
    BY <1>1, <1>3
  <2>4. worth(pct(hoursUntil(s))) <= worth(pct(hoursUntil(t)))
    BY <1>6, <2>2, <2>3
  <2>5. QED
    BY <1>2, <2>4
<1>10. Cardinality(TierFor(hoursUntil(t))) <= 1
  <2>1. CASE TierFor(hoursUntil(t)) = {}
    BY <2>1, FS_EmptySet
  <2>2. CASE TierFor(hoursUntil(t)) # {}
    <3>1. PICK a : a \in TierFor(hoursUntil(t))
      BY <2>2
    <3>2. \A b \in TierFor(hoursUntil(t)) : b = a
      BY <1>1, <3>1, OneTier
    <3>3. TierFor(hoursUntil(t)) = {a}
      BY <3>1, <3>2
    <3>4. Cardinality({a}) = 1
      BY FS_Singleton
    <3>5. QED
      BY <3>3, <3>4
  <2>3. QED
    BY <2>1, <2>2
<1>11. QED
  BY <1>7, <1>8, <1>9, <1>10

---------------------------------------------------------------------------
\* What is on sale.

HoursSaving ==
  [phase : {"idle"}] \cup [phase : {"saving"}, seen : SUBSET HoursSave, alone : BOOLEAN]

\* The windows that are left when saves have met still lie apart.
HoursApart == \A a, b \in Hours!AllRows : a # b => Apart(a, b)

OfferInv == OffersTypeOK /\ HoursApart

LEMMA SavedHoursStep ==
  ASSUME OfferInv, Hours!SavedSetNext
  PROVE  Hours!SavedSetTypeOK' /\ HoursApart'
<1>0. windows \in [HoursSave -> Weeks] /\ hoursSaves \in [HoursEditor -> HoursSaving] /\ HoursApart
      /\ hoursContested \in BOOLEAN
  BY DEF OfferInv, OffersTypeOK, Hours!SavedSetTypeOK, HoursSaving
<1>e. {} \in Weeks
  BY FS_EmptySet, OffersAssumption DEF Weeks, Sane
<1>1. ASSUME NEW e \in HoursEditor, Hours!SaveRead(e) PROVE Hours!SavedSetTypeOK' /\ HoursApart'
  <2>1. UNCHANGED <<windows, hoursContested>>
    BY <1>1 DEF Hours!SaveRead
  <2>2. Hours!AllRows' = Hours!AllRows
    BY <2>1 DEF Hours!AllRows
  <2>3. PICK x : x = [phase |-> "saving", seen |-> {k \in HoursSave : windows[k] # {}},
                      alone |-> \A g \in HoursEditor : ~Hours!Saving(g)]
    OBVIOUS
  <2>4. hoursSaves' = [f \in HoursEditor |->
          IF f = e THEN x
          ELSE IF Hours!Saving(f) THEN [hoursSaves[f] EXCEPT !.alone = FALSE] ELSE hoursSaves[f]]
    BY <1>1, <2>3 DEF Hours!SaveRead
  <2>5. x \in HoursSaving
    BY <2>3 DEF HoursSaving
  <2>6. ASSUME NEW f \in HoursEditor, Hours!Saving(f)
        PROVE  [hoursSaves[f] EXCEPT !.alone = FALSE] \in HoursSaving
    BY <1>0, <2>6 DEF HoursSaving, Hours!Saving
  <2>7. hoursSaves' \in [HoursEditor -> HoursSaving]
    BY <1>0, <2>4, <2>5, <2>6
  <2>8. QED
    BY <1>0, <2>1, <2>2, <2>7 DEF Hours!SavedSetTypeOK, HoursSaving, HoursApart
<1>2. ASSUME NEW e \in HoursEditor, NEW k \in HoursSave, NEW choice \in Weeks,
             Hours!SaveWrite(e, k, choice)
      PROVE Hours!SavedSetTypeOK' /\ HoursApart'
  <2> DEFINE kept == Hours!Kept(hoursSaves[e].seen)
  <2>1. /\ windows' = [kept EXCEPT ![k] = choice]
        /\ \A j \in HoursSave : \A a \in kept[j], b \in choice : Apart(a, b)
        /\ hoursContested' = ~hoursSaves[e].alone
        /\ hoursSaves' = [hoursSaves EXCEPT ![e] = [phase |-> "idle"]]
    BY <1>2 DEF Hours!SaveWrite
  <2>2. \A j \in HoursSave : kept[j] = IF j \in hoursSaves[e].seen THEN {} ELSE windows[j]
    BY DEF Hours!Kept
  <2>3. kept \in [HoursSave -> Weeks]
    BY <1>0, <1>e DEF Hours!Kept
  <2> HIDE DEF kept
  <2>4. \A j \in HoursSave : windows'[j] = IF j = k THEN choice ELSE kept[j]
    BY <2>1, <2>3
  <2>5. hoursSaves' \in [HoursEditor -> HoursSaving]
    BY <1>0, <2>1 DEF HoursSaving
  <2>6. windows' \in [HoursSave -> Weeks] /\ hoursContested' \in BOOLEAN
    BY <2>1, <2>3
  <2>7. \A a \in Hours!AllRows' : a \in choice \/ \E j \in HoursSave : a \in kept[j] /\ a \in windows[j]
    BY <2>2, <2>4 DEF Hours!AllRows
  <2>8. ASSUME NEW a \in Hours!AllRows', NEW b \in Hours!AllRows', a # b PROVE Apart(a, b)
    <3>1. CASE a \in choice /\ b \in choice
      BY <2>8, <3>1 DEF Weeks, Sane
    <3>2. CASE a \in choice /\ b \notin choice
      BY <2>1, <2>7, <3>2 DEF Apart, overlaps
    <3>3. CASE a \notin choice /\ b \in choice
      BY <2>1, <2>7, <3>3
    <3>4. CASE a \notin choice /\ b \notin choice
      <4>1. a \in Hours!AllRows /\ b \in Hours!AllRows
        BY <2>7, <3>4 DEF Hours!AllRows
      <4>2. QED
        BY <1>0, <2>8, <4>1 DEF HoursApart
    <3>5. QED
      BY <3>1, <3>2, <3>3, <3>4
  <2>9. QED
    BY <2>5, <2>6, <2>8 DEF Hours!SavedSetTypeOK, HoursSaving, HoursApart
<1>3. ASSUME NEW e \in HoursEditor, Hours!SaveFails(e) PROVE Hours!SavedSetTypeOK' /\ HoursApart'
  <2>1. UNCHANGED <<windows, hoursContested>> /\ hoursSaves' = [hoursSaves EXCEPT ![e] = [phase |-> "idle"]]
    BY <1>3 DEF Hours!SaveFails
  <2>2. hoursSaves' \in [HoursEditor -> HoursSaving]
    BY <1>0, <2>1 DEF HoursSaving
  <2>3. Hours!AllRows' = Hours!AllRows
    BY <2>1 DEF Hours!AllRows
  <2>4. QED
    BY <1>0, <2>1, <2>2, <2>3 DEF Hours!SavedSetTypeOK, HoursSaving, HoursApart
<1>4. QED
  BY <1>1, <1>2, <1>3 DEF Hours!SavedSetNext

LEMMA OfferStep == OfferInv /\ [OfferNext]_offerVars => OfferInv'
<1> SUFFICES ASSUME OfferInv, [OfferNext]_offerVars PROVE OfferInv'
  OBVIOUS
<1> DEFINE Said == Span \cup {NoOverride, Closed}
<1>0. /\ Hours!SavedSetTypeOK /\ HoursApart
      /\ override \in [Level -> Said] /\ taken \in TakenRow \cup {Free}
      /\ active \in BOOLEAN /\ now \in Clock /\ priced \in Tariff \cup {{}}
  BY DEF OfferInv, OffersTypeOK
<1>1. SpecialDay \subseteq Span /\ Asked \subseteq Span
  BY OffersAssumption DEF Span
<1>2. ASSUME UNCHANGED <<windows, hoursSaves, hoursContested>>
      PROVE  Hours!SavedSetTypeOK' /\ HoursApart'
  <2>1. Hours!AllRows' = Hours!AllRows
    BY <1>2 DEF Hours!AllRows
  <2>2. QED
    BY <1>0, <1>2, <2>1 DEF Hours!SavedSetTypeOK, HoursApart
<1>3. ASSUME NEW row \in TakenRow \cup {Free}, Take(row) PROVE OfferInv'
  BY <1>0, <1>2, <1>3 DEF Take, OfferInv, OffersTypeOK, hoursVars, saleVars
<1>4. CASE SaveHours
  <2>1. Hours!SavedSetTypeOK' /\ HoursApart'
    BY <1>4, SavedHoursStep DEF SaveHours
  <2>2. QED
    BY <1>0, <1>4, <2>1 DEF SaveHours, OfferInv, OffersTypeOK, saleVars
<1>5. ASSUME NEW l \in Level, NEW said \in SpecialDay \cup {Closed}, CreateOverride(l, said)
      PROVE  OfferInv'
  <2>1. said \in Said
    BY <1>1
  <2>2. override' \in [Level -> Said]
    BY <1>0, <1>5, <2>1 DEF CreateOverride
  <2>3. QED
    BY <1>0, <1>2, <1>5, <2>2 DEF CreateOverride, OfferInv, OffersTypeOK, saleVars
<1>6. ASSUME NEW l \in Level, RemoveOverride(l) PROVE OfferInv'
  <2>1. override' \in [Level -> Said]
    BY <1>0, <1>6 DEF RemoveOverride
  <2>2. QED
    BY <1>0, <1>2, <1>6, <2>1 DEF RemoveOverride, OfferInv, OffersTypeOK, saleVars
<1>7. ASSUME NEW span \in Asked, TakeHold(span) \/ QuickBookSpan(span) PROVE OfferInv'
  <2>1. /\ [status |-> "held", span |-> span] \in TakenRow
        /\ [status |-> "confirmed", span |-> span] \in TakenRow
    BY <1>1 DEF TakenRow
  <2>2. QED
    BY <1>3, <1>7, <2>1 DEF TakeHold, QuickBookSpan
<1>8. CASE LapseOfHold
  <2>1. taken \in TakenRow
    BY <1>0, <1>8 DEF LapseOfHold
  <2>2. [taken EXCEPT !.status = "lapsed"] \in TakenRow
    BY <2>1 DEF TakenRow
  <2>3. QED
    BY <1>3, <1>8, <2>2 DEF LapseOfHold
<1>9. CASE GiveBack
  BY <1>3, <1>9 DEF GiveBack
<1>10. CASE UNCHANGED offerVars
  BY <1>0, <1>2, <1>10 DEF offerVars, hoursVars, saleVars, OfferInv, OffersTypeOK
<1>11. ASSUME UNCHANGED <<hoursVars, taken>>, active' \in BOOLEAN, now' \in Clock, priced' \in Tariff \cup {{}}
       PROVE  OfferInv'
  BY <1>0, <1>2, <1>11 DEF hoursVars, OfferInv, OffersTypeOK
<1>12. CASE SwitchCourt
  BY <1>0, <1>11, <1>12 DEF SwitchCourt
<1>13. ASSUME NEW starts \in Tariff, SavePrices(starts) PROVE OfferInv'
  BY <1>0, <1>11, <1>13 DEF SavePrices
<1>14. ASSUME NEW time \in Clock, Passes(time) PROVE OfferInv'
  BY <1>0, <1>11, <1>14 DEF Passes
<1>15. QED
  BY <1>4, <1>5, <1>6, <1>7, <1>8, <1>9, <1>10, <1>12, <1>13, <1>14 DEF OfferNext

LEMMA OfferInitInv == OfferInit => OfferInv
<1> SUFFICES ASSUME OfferInit PROVE OfferInv
  OBVIOUS
<1>1. /\ windows = [k \in HoursSave |-> {}] /\ hoursSaves = [e \in HoursEditor |-> [phase |-> "idle"]]
      /\ hoursContested = FALSE /\ override = [l \in Level |-> NoOverride] /\ taken = Free
      /\ active = TRUE /\ priced = {} /\ now \in Clock
  BY DEF OfferInit, Hours!SavedSetInit
<1>2. {} \in Weeks
  BY FS_EmptySet, OffersAssumption DEF Weeks, Sane
<1>3. Hours!SavedSetTypeOK
  BY <1>1, <1>2 DEF Hours!SavedSetTypeOK
<1>4. Hours!AllRows = {}
  BY <1>1 DEF Hours!AllRows
<1>5. QED
  BY <1>1, <1>3, <1>4 DEF OfferInv, OffersTypeOK, HoursApart

\* The windows of the day are spans that lie apart, wherever they come from.
LEMMA WindowsOfTheDay ==
  ASSUME OfferInv
  PROVE  /\ openingFor \subseteq Span
         /\ \A v, w \in openingFor : v # w => Apart(v, w)
<1> DEFINE said == IF override["court"] # NoOverride THEN override["court"] ELSE override["venue"]
<1>1. said \in Span \cup {NoOverride, Closed}
  BY DEF OfferInv, OffersTypeOK, Level
<1>2. Hours!AllRows \subseteq Span
  <2> SUFFICES ASSUME NEW k \in HoursSave PROVE windows[k] \subseteq Span
    BY DEF Hours!AllRows
  <2>1. windows[k] \in Weeks
    BY DEF OfferInv, OffersTypeOK, Hours!SavedSetTypeOK
  <2>2. QED
    BY <2>1 DEF Weeks
<1>3. openingFor = IF said = NoOverride THEN Hours!AllRows
                   ELSE IF said = Closed THEN {} ELSE {said}
  BY DEF openingFor
<1> HIDE DEF said
<1>4. QED
  BY <1>1, <1>2, <1>3 DEF OfferInv, HoursApart

\* A slot is a span of its window.
LEMMA SlotsOfAWindow ==
  ASSUME NEW w \in Span, NEW s \in generateSlots(w)
  PROVE  /\ s[1] \in Int /\ s[2] \in Int /\ w[1] \in Int /\ w[2] \in Int
         /\ w[1] <= s[1] /\ s[1] < s[2] /\ s[2] <= w[2]
         /\ \A t \in generateSlots(w) : s # t => Apart(s, t)
<1>1. PICK n \in Int : n = SlotTicks /\ n > 0
  BY OffersAssumption
<1>2. w[1] \in Int /\ w[2] \in Int
  <2>1. w[1] \in 0 .. DayEnd /\ w[2] \in 0 .. DayEnd
    BY DEF Span
  <2>2. QED
    BY <2>1
<1>3. ASSUME NEW t \in generateSlots(w)
      PROVE  \E i \in Nat : t = <<w[1] + n * i, w[1] + n * (i + 1)>> /\ w[1] + n * (i + 1) <= w[2]
  BY <1>1, OffersAssumption DEF generateSlots
<1>4. PICK i \in Nat : s = <<w[1] + n * i, w[1] + n * (i + 1)>> /\ w[1] + n * (i + 1) <= w[2]
  BY <1>3
<1>5. PICK x \in Int : x = n * i /\ x >= 0
  BY <1>1
<1>6. n * (i + 1) = x + n
  BY <1>1, <1>5
<1>7. s[1] = w[1] + x /\ s[2] = w[1] + x + n /\ s[2] <= w[2]
  BY <1>1, <1>2, <1>4, <1>5, <1>6
<1>8. ASSUME NEW t \in generateSlots(w), s # t PROVE Apart(s, t)
  <2>1. PICK j \in Nat : t = <<w[1] + n * j, w[1] + n * (j + 1)>>
    BY <1>3
  <2>2. PICK y \in Int : y = n * j
    BY <1>1
  <2>3. t[1] = w[1] + y /\ t[2] = w[1] + y + n
    <3>1. n * (j + 1) = y + n
      BY <1>1, <2>2
    <3>2. QED
      BY <1>1, <1>2, <2>1, <2>2, <3>1
  <2>4. i # j
    BY <1>4, <1>8, <2>1
  <2>5. x >= y + n \/ y >= x + n
    <3>1. CASE i < j
      <4>1. n * (i + 1) <= n * j
        BY <1>1, <3>1
      <4>2. QED
        BY <1>6, <2>2, <4>1
    <3>2. CASE j < i
      <4>1. n * (j + 1) <= n * i /\ n * (j + 1) = y + n
        BY <1>1, <2>2, <3>2
      <4>2. QED
        BY <1>5, <4>1
    <3>3. QED
      BY <2>4, <3>1, <3>2
  <2>6. QED
    BY <1>1, <1>2, <1>7, <2>3, <2>5 DEF Apart, overlaps
<1>9. QED
  BY <1>1, <1>2, <1>5, <1>7, <1>8

\* A slot of the day lies within it.
LEMMA SlotsOfTheDay ==
  ASSUME OfferInv, NEW s \in slotsForWindows
  PROVE  /\ s[1] \in Int /\ s[2] \in Int /\ 0 <= s[1] /\ s[1] < s[2] /\ s[2] <= DayEnd
         /\ isWithinOpening(s)
<1>1. PICK w \in openingFor : s \in generateSlots(w)
  BY DEF slotsForWindows
<1>2. w \in Span
  BY WindowsOfTheDay
<1>3. w[1] \in 0 .. DayEnd /\ w[2] \in 0 .. DayEnd
  BY <1>2 DEF Span
<1>4. /\ s[1] \in Int /\ s[2] \in Int
      /\ w[1] <= s[1] /\ s[1] < s[2] /\ s[2] <= w[2]
  BY <1>1, <1>2, SlotsOfAWindow
<1>5. isWithinOpening(s)
  BY <1>3, <1>4 DEF isWithinOpening
<1>6. QED
  BY <1>3, <1>4, <1>5, OffersAssumption

\* Counting in days and counting in ticks: the start of a slot that is not over
\* lies in the booking window by days if and only if it does by ticks, but for
\* the midnight after it.
LEMMA WindowByDaysAndTicks ==
  ASSUME OfferInv, NEW s \in slotsForWindows, ~tooSoon(s)
  PROVE  /\ withinWindow => assertBookable(s)
         /\ assertBookable(s) => withinWindow \/ JustAfterWindow(s)
<1>1. PICK d \in Nat : d = DayEnd /\ d > 0
  BY OffersAssumption
<1>2. now \in Int /\ MinNotice \in Nat /\ BookingWindow \in Nat
  BY OffersAssumption DEF OfferInv, OffersTypeOK
<1>3. PICK q \in Int : q = now \div d
  BY <1>1, <1>2
<1>4. q * d <= now /\ now < q * d + d
  BY <1>1, <1>2, <1>3
<1>5. PICK k \in Int : k = q + BookingWindow + 1
  BY <1>2
<1>6. PICK edge \in Int : edge = k * d
  BY <1>1
<1>7. /\ k >= 1 => edge >= d
      /\ k < 0 => edge < 0
      /\ k = 0 => edge = 0
  <2>1. k >= 1 => (k - 1) * d >= 0
    BY <1>1
  <2>2. k < 0 => (0 - k) * d > 0
    BY <1>1
  <2>3. (k - 1) * d = k * d - d /\ (0 - k) * d = 0 - k * d
    BY <1>1
  <2>4. QED
    BY <1>1, <1>6, <2>1, <2>2, <2>3
<1>8. q > 0 => now >= d
  <2>1. q > 0 => (q - 1) * d >= 0
    BY <1>1
  <2>2. (q - 1) * d = q * d - d
    BY <1>1
  <2>3. QED
    BY <1>1, <1>2, <1>4, <2>1, <2>2
<1>9. s[1] \in Int /\ 0 <= s[1] /\ s[1] < d
  BY <1>1, SlotsOfTheDay
<1>10. s[1] >= now + MinNotice
  BY <1>2, <1>9 DEF tooSoon
<1>11. assertBookable(s) <=> s[1] <= edge
  BY <1>1, <1>3, <1>5, <1>6, <1>10 DEF assertBookable, today
<1>12. withinWindow <=> k >= 1
  <2>1. q <= 0
    BY <1>1, <1>2, <1>8, <1>9, <1>10
  <2>2. QED
    BY <1>1, <1>2, <1>3, <1>5, <2>1 DEF withinWindow, today
<1>13. JustAfterWindow(s) <=> s[1] = 0 /\ k = 0
  BY <1>1, <1>2, <1>3, <1>5 DEF JustAfterWindow, today
<1>14. QED
  BY <1>1, <1>7, <1>9, <1>11, <1>12, <1>13

LEMMA PageAgreesWithHolds == OfferInv => PageAndHoldAgree
<1> SUFFICES ASSUME OfferInv PROVE PageAndHoldAgree
  OBVIOUS
<1>1. \A s \in slotsForWindows : \E w \in openingFor : s \in generateSlots(w)
  BY DEF slotsForWindows
<1>2. ASSUME NEW s \in PageShows PROVE HoldAccepts(s)
  <2>1. s \in slotsForWindows /\ ~Occupies(s) /\ ~tooSoon(s) /\ withinWindow
        /\ active /\ s[1] \in priced
    BY DEF PageShows
  <2>2. isWithinOpening(s)
    BY <2>1, SlotsOfTheDay
  <2>3. assertBookable(s)
    BY <2>1, WindowByDaysAndTicks
  <2>4. QED
    BY <2>1, <2>2, <2>3 DEF HoldAccepts
<1>3. ASSUME NEW s \in slotsForWindows, HoldAccepts(s), ~Occupies(s), ~JustAfterWindow(s)
      PROVE  s \in PageShows
  <2>1. assertBookable(s) /\ active /\ s[1] \in priced
    BY <1>3 DEF HoldAccepts
  <2>2. s[1] \in Int /\ now \in Int /\ MinNotice \in Nat
    BY SlotsOfTheDay, OffersAssumption DEF OfferInv, OffersTypeOK
  <2>3. ~tooSoon(s)
    BY <2>1, <2>2 DEF assertBookable, tooSoon
  <2>4. withinWindow
    BY <1>3, <2>1, <2>3, WindowByDaysAndTicks
  <2>5. QED
    BY <1>3, <2>1, <2>3, <2>4 DEF PageShows
<1>4. ASSUME NEW s \in slotsForWindows, NEW t \in slotsForWindows, s # t PROVE Apart(s, t)
  <2>1. PICK v \in openingFor : s \in generateSlots(v)
    BY <1>1
  <2>2. PICK w \in openingFor : t \in generateSlots(w)
    BY <1>1
  <2>3. v \in Span /\ w \in Span
    BY WindowsOfTheDay
  <2>4. CASE v = w
    BY <1>4, <2>1, <2>2, <2>3, <2>4, SlotsOfAWindow
  <2>5. CASE v # w
    <3>1. Apart(v, w)
      BY <2>5, WindowsOfTheDay
    <3>2. /\ s[1] \in Int /\ s[2] \in Int /\ v[1] \in Int /\ v[2] \in Int
          /\ v[1] <= s[1] /\ s[2] <= v[2]
      BY <2>1, <2>3, SlotsOfAWindow
    <3>3. /\ t[1] \in Int /\ t[2] \in Int /\ w[1] \in Int /\ w[2] \in Int
          /\ w[1] <= t[1] /\ t[2] <= w[2]
      BY <2>2, <2>3, SlotsOfAWindow
    <3>4. QED
      BY <3>1, <3>2, <3>3 DEF Apart, overlaps
  <2>6. QED
    BY <2>4, <2>5
<1>5. QED
  BY <1>2, <1>3, <1>4 DEF PageAndHoldAgree

---------------------------------------------------------------------------
\* The price.

\* No two rules were made at the same moment.
PricingInv ==
  /\ PricingTypeOK
  /\ \A r \in Rows : rule[r].at <= created
  /\ \A r, s \in Rows : r # s => rule[r].at # rule[s].at

LEMMA RuleRows ==
  ASSUME PricingTypeOK, NEW r \in Rows
  PROVE  /\ rule[r] \in RuleRow
         /\ rule[r].priority \in Int /\ Width(r) \in Int /\ rule[r].at \in Nat
<1>1. rule[r] \in RuleRow
  BY DEF PricingTypeOK, Rows
<1>2. /\ rule[r].from \in 0 .. Evening /\ rule[r].to \in 0 .. Evening
      /\ rule[r].priority \in Priority /\ rule[r].at \in 1 .. MaxRules
  BY <1>1 DEF RuleRow
<1>3. QED
  <2>1. rule[r].from \in Int /\ rule[r].to \in Int
    BY <1>2, PricingAssumption
  <2>2. rule[r].priority \in Int
    BY <1>2, PricingAssumption
  <2>3. rule[r].at \in Nat
    BY <1>2, PricingAssumption
  <2>4. QED
    BY <1>1, <2>1, <2>2, <2>3 DEF Width

LEMMA PatchedRow ==
  ASSUME NEW row \in RuleRow, NEW p \in Patches, WindowOrdered(Patched(row, p))
  PROVE  Patched(row, p) \in RuleRow /\ Patched(row, p).at = row.at
<1> DEFINE Raw == [status : {"active", "inactive"}, from : 0 .. Evening, to : 0 .. Evening,
                   priority : Priority, at : 1 .. MaxRules]
<1>1. row \in Raw
  BY DEF RuleRow
<1>2. PICK x : x = Patched(row, p)
  OBVIOUS
<1>3. x \in Raw /\ x.at = row.at
  <2>1. CASE \E s \in {"active", "inactive"} : p = <<"status", s>>
    BY <1>1, <1>2, <2>1 DEF Patched
  <2>2. CASE \E t \in 0 .. Evening : p = <<"from", t>>
    BY <1>1, <1>2, <2>2 DEF Patched
  <2>3. CASE \E t \in 0 .. Evening : p = <<"to", t>>
    BY <1>1, <1>2, <2>3 DEF Patched
  <2>4. CASE \E t \in Priority : p = <<"priority", t>>
    BY <1>1, <1>2, <2>4 DEF Patched
  <2>5. QED
    BY <2>1, <2>2, <2>3, <2>4 DEF Patches
<1>4. x.from < x.to
  BY <1>2 DEF WindowOrdered
<1>5. QED
  BY <1>2, <1>3, <1>4 DEF RuleRow

LEMMA PricingStep == PricingInv /\ [PricingNext]_pricingVars => PricingInv'
<1> SUFFICES ASSUME PricingInv, [PricingNext]_pricingVars PROVE PricingInv'
  OBVIOUS
<1>0. /\ rule \in [Rule -> RuleRow \cup {NoRule}] /\ created \in 0 .. MaxRules
      /\ patch \in [Owner -> SUBSET (Rule \X Patches)]
      /\ \A o \in Owner : Cardinality(patch[o]) <= 1
      /\ PricingTypeOK /\ MaxRules \in Nat
  BY PricingAssumption DEF PricingInv, PricingTypeOK
<1>1. NoRule \notin RuleRow
  BY DEF NoRule, RuleRow
<1>2. ASSUME NEW r \in Rule, NEW from \in 0 .. Evening, NEW to \in 0 .. Evening,
             NEW p \in Priority, CreateRule(r, from, to, p)
      PROVE  PricingInv'
  <2>1. PICK x : x = [status |-> "active", from |-> from, to |-> to, priority |-> p, at |-> created + 1]
    OBVIOUS
  <2>2. rule' = [rule EXCEPT ![r] = x] /\ created' = created + 1 /\ patch' = patch /\ rule[r] = NoRule
    BY <1>2, <2>1 DEF CreateRule
  <2>3. x \in RuleRow /\ x.at = created + 1
    BY <1>0, <1>2, <2>1 DEF CreateRule, RuleRow
  <2>4. created' \in 0 .. MaxRules
    BY <1>0, <1>2 DEF CreateRule
  <2>5. PricingTypeOK'
    BY <1>0, <2>2, <2>3, <2>4 DEF PricingTypeOK
  <2>6. \A s \in Rows' : (s = r /\ rule'[s] = x) \/ (s # r /\ s \in Rows /\ rule'[s] = rule[s])
    BY <1>0, <2>2 DEF Rows
  <2>7. \A s \in Rows : rule[s].at \in Nat /\ rule[s].at <= created
    BY <1>0, RuleRows DEF PricingInv
  <2>8. QED
    BY <1>0, <2>2, <2>3, <2>5, <2>6, <2>7 DEF PricingInv
<1>3. ASSUME NEW r \in Rule, RemoveRule(r) PROVE PricingInv'
  <2>1. rule' = [rule EXCEPT ![r] = NoRule] /\ created' = created /\ patch' = patch
    BY <1>3 DEF RemoveRule
  <2>2. PricingTypeOK'
    BY <1>0, <2>1 DEF PricingTypeOK
  <2>3. \A s \in Rows' : s \in Rows /\ rule'[s] = rule[s]
    BY <1>0, <2>1 DEF Rows
  <2>4. QED
    BY <2>1, <2>2, <2>3 DEF PricingInv
<1>4. ASSUME NEW o \in Owner, NEW r \in Rule, NEW p \in Patches, UpdateRuleRead(o, r, p)
      PROVE  PricingInv'
  <2>1. patch' = [patch EXCEPT ![o] = {<<r, p>>}] /\ rule' = rule /\ created' = created
    BY <1>4 DEF UpdateRuleRead
  <2>2. \A q \in Owner : patch'[q] = patch[q] \/ patch'[q] = {<<r, p>>}
    BY <1>0, <2>1
  <2>3. Cardinality({<<r, p>>}) = 1
    BY FS_Singleton
  <2>4. Rows' = Rows
    BY <2>1 DEF Rows
  <2>5. patch' \in [Owner -> SUBSET (Rule \X Patches)]
    BY <1>0, <2>1
  <2>6. ASSUME NEW q \in Owner PROVE Cardinality(patch'[q]) <= 1
    <3>1. CASE patch'[q] = patch[q]
      BY <1>0, <3>1
    <3>2. CASE patch'[q] = {<<r, p>>}
      BY <2>3, <3>2
    <3>3. QED
      BY <2>2, <3>1, <3>2
  <2>7. QED
    BY <1>0, <2>1, <2>4, <2>5, <2>6 DEF PricingInv, PricingTypeOK
<1>5. ASSUME NEW o \in Owner, patch' = [patch EXCEPT ![o] = {}]
      PROVE  /\ patch' \in [Owner -> SUBSET (Rule \X Patches)]
             /\ \A q \in Owner : Cardinality(patch'[q]) <= 1
  <2>1. \A q \in Owner : patch'[q] = patch[q] \/ patch'[q] = {}
    BY <1>0, <1>5
  <2>2. Cardinality({}) = 0
    BY FS_EmptySet
  <2>3. ASSUME NEW q \in Owner PROVE Cardinality(patch'[q]) <= 1
    <3>1. CASE patch'[q] = patch[q]
      BY <1>0, <3>1
    <3>2. CASE patch'[q] = {}
      BY <2>2, <3>2
    <3>3. QED
      BY <2>1, <3>1, <3>2
  <2>4. QED
    BY <1>0, <1>5, <2>3
<1>6. ASSUME NEW o \in Owner, UpdateRuleWrite(o) PROVE PricingInv'
  <2>1. PICK w \in patch[o] :
          /\ w[1] \in Rows /\ WindowOrdered(Patched(rule[w[1]], w[2]))
          /\ rule' = [rule EXCEPT ![w[1]] = Patched(rule[w[1]], w[2])]
          /\ patch' = [patch EXCEPT ![o] = {}] /\ created' = created
    BY <1>6 DEF UpdateRuleWrite
  <2>2. w[1] \in Rule /\ w[2] \in Patches /\ rule[w[1]] \in RuleRow
    BY <1>0, <2>1, RuleRows
  <2>3. PICK x : x = Patched(rule[w[1]], w[2])
    OBVIOUS
  <2>4. x \in RuleRow /\ x.at = rule[w[1]].at
    BY <2>1, <2>2, <2>3, PatchedRow
  <2>5. rule' = [rule EXCEPT ![w[1]] = x]
    BY <2>1, <2>3
  <2>6. PricingTypeOK'
    BY <1>0, <1>5, <2>1, <2>4, <2>5 DEF PricingTypeOK
  <2>7. \A s \in Rows' : s \in Rows /\ rule'[s].at = rule[s].at
    BY <1>0, <2>1, <2>2, <2>4, <2>5 DEF Rows
  <2>8. QED
    BY <2>1, <2>6, <2>7 DEF PricingInv
<1>7. ASSUME NEW o \in Owner, UpdateRuleFails(o) PROVE PricingInv'
  <2>1. patch' = [patch EXCEPT ![o] = {}] /\ rule' = rule /\ created' = created
    BY <1>7 DEF UpdateRuleFails
  <2>2. Rows' = Rows
    BY <2>1 DEF Rows
  <2>3. PricingTypeOK'
    BY <1>0, <1>5, <2>1 DEF PricingTypeOK
  <2>4. QED
    BY <2>1, <2>2, <2>3 DEF PricingInv
<1>8. CASE UNCHANGED pricingVars
  <2>1. rule' = rule /\ created' = created /\ patch' = patch /\ Rows' = Rows
    BY <1>8 DEF pricingVars, Rows
  <2>2. QED
    BY <1>0, <2>1 DEF PricingInv, PricingTypeOK
<1>9. QED
  BY <1>2, <1>3, <1>4, <1>6, <1>7, <1>8 DEF PricingNext

LEMMA PricingInitInv == PricingInit => PricingInv
<1> SUFFICES ASSUME PricingInit PROVE PricingInv
  OBVIOUS
<1>1. PricingTypeOK
  BY PricingAssumption, FS_EmptySet DEF PricingInit, PricingTypeOK
<1>2. Rows = {}
  BY DEF PricingInit, Rows
<1>3. QED
  BY <1>1, <1>2 DEF PricingInv

\* a is charged rather than b.
Over(a, b) ==
  \/ rule[a].priority > rule[b].priority
  \/ /\ rule[a].priority = rule[b].priority
     /\ \/ Width(a) < Width(b)
        \/ Width(a) = Width(b) /\ rule[a].at >= rule[b].at

LEMMA BetterIsOver ==
  ASSUME PricingTypeOK, NEW a \in Rows, NEW b \in Rows, NEW c \in Rows
  PROVE  /\ Over(a, a)
         /\ Better(a, b) \in {a, b} /\ Over(Better(a, b), b)
         /\ Over(a, c) => Over(Better(a, b), c)
<1>1. /\ rule[a].priority \in Int /\ Width(a) \in Int /\ rule[a].at \in Nat
      /\ rule[b].priority \in Int /\ Width(b) \in Int /\ rule[b].at \in Nat
      /\ rule[c].priority \in Int /\ Width(c) \in Int /\ rule[c].at \in Nat
  BY RuleRows
<1>2. CASE Better(a, b) = a /\ Over(a, b)
  BY <1>1, <1>2 DEF Over
<1>3. CASE Better(a, b) = b /\ Over(b, a)
  BY <1>1, <1>3 DEF Over
<1>4. (Better(a, b) = a /\ Over(a, b)) \/ (Better(a, b) = b /\ Over(b, a))
  <2>1. CASE rule[a].priority # rule[b].priority
    BY <1>1, <2>1 DEF Better, Over
  <2>2. CASE rule[a].priority = rule[b].priority /\ Width(a) # Width(b)
    BY <1>1, <2>2 DEF Better, Over
  <2>3. CASE rule[a].priority = rule[b].priority /\ Width(a) = Width(b)
    BY <1>1, <2>3 DEF Better, Over
  <2>4. QED
    BY <2>1, <2>2, <2>3
<1>5. QED
  BY <1>2, <1>3, <1>4

\* The reduce of resolvePrice is defined for every list.
LEMMA ReduceIsDefined ==
  ASSUME NEW rows, NEW N \in Nat
  PROVE  \E best : best = [i \in 1 .. N |-> IF i = 1 THEN rows[1] ELSE Better(best[i - 1], rows[i])]
<1> DEFINE IsReduce(best, n) ==
      best = [i \in 1 .. n |-> IF i = 1 THEN rows[1] ELSE Better(best[i - 1], rows[i])]
           Undefined == {n \in Nat : ~ \E best : IsReduce(best, n)}
<1>1. 0 \notin Undefined
  <2>1. PICK best : best = [i \in 1 .. 0 |-> i]
    OBVIOUS
  <2>2. IsReduce(best, 0)
    BY <2>1
  <2>3. QED
    BY <2>2
<1>2. ASSUME NEW n \in Nat, n \notin Undefined PROVE n + 1 \notin Undefined
  <2>1. PICK best : IsReduce(best, n)
    BY <1>2
  <2> DEFINE last == IF n = 0 THEN rows[1] ELSE Better(best[n], rows[n + 1])
  <2>2. PICK more : more = [i \in 1 .. n + 1 |-> IF i = n + 1 THEN last ELSE best[i]]
    OBVIOUS
  <2>3. ASSUME NEW i \in 1 .. n + 1
        PROVE  more[i] = IF i = 1 THEN rows[1] ELSE Better(more[i - 1], rows[i])
    <3>1. CASE i = n + 1
      <4>1. more[i] = last
        BY <2>2, <3>1
      <4>2. n # 0 => more[i - 1] = best[n]
        BY <2>2, <3>1
      <4>3. QED
        BY <3>1, <4>1, <4>2
    <3>2. CASE i # n + 1
      <4>1. i \in 1 .. n /\ more[i] = best[i] /\ (i # 1 => more[i - 1] = best[i - 1])
        BY <2>2, <3>2
      <4>2. best[i] = IF i = 1 THEN rows[1] ELSE Better(best[i - 1], rows[i])
        BY <2>1, <4>1
      <4>3. QED
        BY <4>1, <4>2
    <3>3. QED
      BY <3>1, <3>2
  <2>4. IsReduce(more, n + 1)
    BY <2>2, <2>3
  <2>5. QED
    BY <2>4
<1> HIDE DEF IsReduce
<1>3. Undefined = {}
  <2> SUFFICES ASSUME Undefined # {} PROVE FALSE
    OBVIOUS
  <2>1. IsWellFoundedOn(OpToRel(<, Nat), Nat)
    BY NatLessThanWellFounded
  <2>2. Undefined \subseteq Nat
    OBVIOUS
  <2> HIDE DEF Undefined
  <2>3. PICK least \in Undefined : \A y \in Undefined : ~ (<<y, least>> \in OpToRel(<, Nat))
    BY <2>1, <2>2, WFMin
  <2>4. \A y \in Undefined : ~ (y < least)
    BY <2>2, <2>3 DEF OpToRel
  <2>5. least # 0 /\ least \in Nat
    BY <1>1, <2>2, <2>3
  <2>6. PICK n \in Nat : least = n + 1
    BY <2>5
  <2>7. n \notin Undefined
    BY <2>4, <2>6
  <2>8. QED
    BY <1>2, <2>3, <2>6, <2>7
<1>4. \E best : IsReduce(best, N)
  BY <1>3
<1>5. QED
  BY <1>4 DEF IsReduce

\* What comes out of it is one of the rules, and over each of them.
LEMMA ReduceIsOverAll ==
  ASSUME PricingTypeOK, NEW N \in Nat, N > 0, NEW rows \in Seq(Rows), Len(rows) = N
  PROVE  /\ \E i \in 1 .. N : resolvePrice(rows) = rows[i]
         /\ \A i \in 1 .. N : Over(resolvePrice(rows), rows[i])
<1> DEFINE best == CHOOSE best : best = [i \in 1 .. N |-> IF i = 1 THEN rows[1] ELSE Better(best[i - 1], rows[i])]
<1>1. best = [i \in 1 .. N |-> IF i = 1 THEN rows[1] ELSE Better(best[i - 1], rows[i])]
  BY ReduceIsDefined
<1>2. resolvePrice(rows) = best[N]
  BY DEF resolvePrice
<1> HIDE DEF best
<1>3. \A i \in 1 .. N : rows[i] \in Rows
  OBVIOUS
<1> DEFINE Good(n) == /\ \E i \in 1 .. n : best[n] = rows[i]
                      /\ \A i \in 1 .. n : Over(best[n], rows[i])
           Bad == {n \in 1 .. N : ~Good(n)}
<1>4. Good(1)
  <2>1. best[1] = rows[1] /\ rows[1] \in Rows
    BY <1>1, <1>3
  <2>2. QED
    BY <2>1, BetterIsOver
<1>5. ASSUME NEW n \in 1 .. N, n + 1 \in 1 .. N, Good(n) PROVE Good(n + 1)
  <2>1. best[n + 1] = Better(best[n], rows[n + 1])
    BY <1>1, <1>5
  <2>2. PICK i \in 1 .. n : best[n] = rows[i]
    BY <1>5
  <2>3. best[n] \in Rows /\ rows[n + 1] \in Rows
    BY <1>3, <1>5, <2>2
  <2>4. best[n + 1] \in {best[n], rows[n + 1]} /\ Over(best[n + 1], rows[n + 1])
    BY <2>1, <2>3, BetterIsOver
  <2>5. ASSUME NEW j \in 1 .. n PROVE Over(best[n + 1], rows[j])
    <3>1. rows[j] \in Rows /\ Over(best[n], rows[j])
      BY <1>3, <1>5
    <3>2. QED
      BY <2>1, <2>3, <3>1, BetterIsOver
  <2>6. \A j \in 1 .. n + 1 : j \in 1 .. n \/ j = n + 1
    OBVIOUS
  <2>7. \A j \in 1 .. n + 1 : Over(best[n + 1], rows[j])
    BY <2>4, <2>5, <2>6
  <2>8. \E j \in 1 .. n + 1 : best[n + 1] = rows[j]
    BY <2>2, <2>4
  <2>9. QED
    BY <2>7, <2>8
<1> HIDE DEF Good
<1>6. Bad = {}
  <2> SUFFICES ASSUME Bad # {} PROVE FALSE
    OBVIOUS
  <2>1. IsWellFoundedOn(OpToRel(<, Nat), Nat)
    BY NatLessThanWellFounded
  <2>2. Bad \subseteq Nat /\ \A n \in 1 .. N : n \in Bad <=> ~Good(n)
    OBVIOUS
  <2>3. Bad \subseteq 1 .. N
    OBVIOUS
  <2> HIDE DEF Bad
  <2>4. PICK least \in Bad : \A y \in Bad : ~ (<<y, least>> \in OpToRel(<, Nat))
    BY <2>1, <2>2, WFMin
  <2>5. \A y \in Bad : ~ (y < least)
    BY <2>2, <2>4 DEF OpToRel
  <2>6. least # 1 /\ least \in 1 .. N
    BY <1>4, <2>2, <2>3, <2>4
  <2>7. PICK n \in 1 .. N : least = n + 1
    BY <2>6
  <2>8. Good(n)
    BY <2>2, <2>5, <2>7
  <2>9. QED
    BY <1>5, <2>2, <2>4, <2>6, <2>7, <2>8
<1>7. Good(N)
  BY <1>6
<1>8. QED
  BY <1>2, <1>7 DEF Good

LEMMA OnePriceHolds == PricingInv => OnePrice
<1> SUFFICES ASSUME PricingInv, NEW tick \in 0 .. Evening - 1, Covering(tick) # {}
    PROVE  LET R == Covering(tick)
               Highest == {r \in R : \A s \in R : rule[s].priority <= rule[r].priority}
               Narrowest == {r \in Highest : \A s \in Highest : Width(r) <= Width(s)}
               Latest == {r \in Narrowest : \A s \in Narrowest : rule[s].at <= rule[r].at}
           IN  {resolvePrice(rows) : rows \in SetToSeqs(R)} = Latest
  BY DEF OnePrice
<1> DEFINE R == Covering(tick)
           Highest == {r \in R : \A s \in R : rule[s].priority <= rule[r].priority}
           Narrowest == {r \in Highest : \A s \in Highest : Width(r) <= Width(s)}
           Latest == {r \in Narrowest : \A s \in Narrowest : rule[s].at <= rule[r].at}
           Charged == {resolvePrice(rows) : rows \in SetToSeqs(R)}
<1>1. PricingTypeOK /\ R \subseteq Rows /\ R # {}
  BY DEF PricingInv, Covering
<1> HIDE DEF R
<1>2. IsFiniteSet(R)
  <2>1. PICK f : f = [r \in R |-> rule[r].at]
    OBVIOUS
  <2>2. ASSUME NEW r \in R PROVE rule[r].at \in 1 .. MaxRules
    BY <1>1, RuleRows DEF RuleRow
  <2>3. \A r, s \in R : r # s => f[r] # f[s]
    BY <1>1, <2>1 DEF PricingInv
  <2>4. f \in Injection(R, 1 .. MaxRules)
    BY <2>1, <2>2, <2>3 DEF Injection, IsInjective
  <2>5. IsFiniteSet(1 .. MaxRules)
    BY FS_Interval, PricingAssumption
  <2>6. QED
    BY <2>4, <2>5, FS_Injection
<1>3. PICK N \in Nat : N = Cardinality(R) /\ N > 0 /\ ExistsBijection(1 .. N, R)
  BY <1>1, <1>2, FS_CardinalityType, FS_EmptySet
<1>4. \E rows : rows \in SetToSeqs(R)
  <2>1. PICK rows : rows \in Bijection(1 .. N, R)
    BY <1>3 DEF ExistsBijection
  <2>2. QED
    BY <1>3, <2>1 DEF Bijection, Injection, IsInjective, SetToSeqs
<1>5. ASSUME NEW rows \in SetToSeqs(R)
      PROVE  resolvePrice(rows) \in R /\ \A r \in R : Over(resolvePrice(rows), r)
  <2>1. rows \in [1 .. N -> R] /\ \A i, j \in 1 .. N : i # j => rows[i] # rows[j]
    BY <1>3 DEF SetToSeqs
  <2>2. rows \in Injection(1 .. N, R)
    BY <2>1 DEF Injection, IsInjective
  <2>3. Cardinality(1 .. N) = N
    BY <1>3, FS_Interval
  <2>4. rows \in Surjection(1 .. N, R)
    BY <1>2, <1>3, <2>2, <2>3, FS_Injection
  <2>5. \A r \in R : \E i \in 1 .. N : rows[i] = r
    BY <2>4 DEF Surjection
  <2>6. rows \in Seq(Rows) /\ Len(rows) = N
    BY <1>1, <2>1
  <2>7. /\ \E i \in 1 .. N : resolvePrice(rows) = rows[i]
        /\ \A i \in 1 .. N : Over(resolvePrice(rows), rows[i])
    BY <1>1, <1>3, <2>6, ReduceIsOverAll
  <2>8. QED
    BY <2>1, <2>5, <2>7
<1>6. \A r \in R : /\ rule[r].priority \in Int /\ Width(r) \in Int /\ rule[r].at \in Nat
  BY <1>1, RuleRows
<1>7. ASSUME NEW b \in R, \A r \in R : Over(b, r) PROVE Latest = {b}
  <2>1. \A r \in R : r # b => rule[r].at # rule[b].at
    BY <1>1 DEF PricingInv
  <2>2. b \in Highest /\ \A r \in Highest : rule[r].priority = rule[b].priority
    BY <1>6, <1>7 DEF Over
  <2>3. b \in Narrowest /\ \A r \in Narrowest : Width(r) = Width(b)
    BY <1>6, <1>7, <2>2 DEF Over
  <2>4. b \in Latest /\ \A r \in Latest : rule[r].at = rule[b].at
    BY <1>6, <1>7, <2>2, <2>3 DEF Over
  <2>5. Latest \subseteq R
    OBVIOUS
  <2>6. QED
    BY <2>1, <2>4, <2>5
<1>8. ASSUME NEW c \in Charged PROVE Latest = {c}
  BY <1>5, <1>7
<1>9. Charged # {}
  BY <1>4
<1>10. Charged = Latest
  BY <1>8, <1>9
<1>11. QED
  BY <1>10 DEF R

---------------------------------------------------------------------------
\* What the pages show.

Dialog == DOMAIN Screen \ UNION Site

LEMMA DialogAfter ==
  /\ NoDialog \in Dialog
  /\ \A c \in Command : Does[c].then \in Dialog \cup {Same}
<1>1. {"SeriesResult", "MyBookings", NoDialog} \subseteq Dialog
  BY DEF Dialog, Screen, Site, ConsolePage, NoDialog
<1>2. ASSUME NEW c \in Command PROVE Does[c].then \in {"SeriesResult", "MyBookings", NoDialog, Same}
  BY DEF Command, Does, quickBook, createSeries, block, addPayment, setStatus, removeBlock,
         cancelBooking, issueInvoice, extendSeries, endSeries, saveCustomer, createEnquiry,
         updateEnquiry, bookEnquiry, firstRun, addVenue, saveVenue, publish, saveTax,
         saveMessaging, addCourt, updateCourt, removeCourt, saveHours, addPriceRule,
         removePriceRule, addClosure, removeClosure, savePolicy, updateStaff, revokeInvite,
         inviteStaff, takeHold, bookOnline, release, cancelOwn, saveWish
<1>3. QED
  BY <1>1, <1>2

LEMMA ScreenStep == ScreensTypeOK /\ [ScreenNext]_screenVars => ScreensTypeOK'
<1> SUFFICES ASSUME ScreensTypeOK, [ScreenNext]_screenVars PROVE ScreensTypeOK'
  OBVIOUS
<1>0. /\ watched \in Query /\ page \in UNION Site /\ dialog \in Dialog
      /\ data \in {"nothing", "true", "past"} /\ stale \in BOOLEAN
      /\ fetch \in {"none", "asked", "true", "past"}
      /\ sent \in Sent \cup {NotSent} /\ owed \in {"no", "closing", "now"}
      /\ sent # NotSent => sent \in Sent
      /\ sent.phase # "idle" => sent \in Sent
  BY DEF ScreensTypeOK, Dialog, NotSent
<1>1. ASSUME NEW p \in UNION Site, NEW d \in Dialog, View(p, d), sent' \in Sent \cup {NotSent}
      PROVE  ScreensTypeOK'
  <2>1. /\ fetch' \in {"none", "asked", "true", "past"} /\ stale' \in BOOLEAN
        /\ owed' \in {"no", "closing", "now"}
    BY <1>0, <1>1 DEF View
  <2>2. QED
    BY <1>0, <1>1, <2>1 DEF View, ScreensTypeOK, Dialog
<1>2. ASSUME NEW p \in UNION Site, NEW d \in Dialog, Look(p, d) PROVE ScreensTypeOK'
  <2>1. sent # NotSent => [sent EXCEPT !.onScreen = FALSE] \in Sent
    BY <1>0 DEF Sent
  <2>2. sent' \in Sent \cup {NotSent}
    BY <1>0, <1>2, <2>1 DEF Look
  <2>3. QED
    BY <1>1, <1>2, <2>2 DEF Look
<1>3. ASSUME NEW p \in UNION Site, GoTo(p) PROVE ScreensTypeOK'
  BY <1>2, <1>3, DialogAfter DEF GoTo
<1>11. ASSUME NEW d \in DOMAIN Screen \ UNION Site, OpenDialog(d) PROVE ScreensTypeOK'
  BY <1>0, <1>2, <1>11 DEF OpenDialog, Dialog
<1>12. ASSUME NEW c \in Command PROVE Requested(c) \in Sent
  BY DEF Requested, Sent
<1>13. CASE SendRelease
  BY <1>0, <1>1, <1>12, <1>13, DialogAfter DEF SendRelease, Command, Does
<1>4. CASE Grows \/ Refetch \/ Forget \/ FetchIsRead \/ FetchEnds \/ FetchFails
  BY <1>0, <1>4 DEF Grows, Refetch, Forget, FetchIsRead, FetchEnds, FetchFails, ScreensTypeOK, Dialog
<1>5. ASSUME NEW c \in Command, SendCommand(c) PROVE ScreensTypeOK'
  <2>1. sent' \in Sent
    BY <1>5, <1>12 DEF SendCommand
  <2>2. QED
    BY <1>0, <1>5, <2>1 DEF SendCommand, ScreensTypeOK, Dialog
<1>6. CASE CommandCommits
  <2>1. sent' \in Sent
    BY <1>0, <1>6 DEF CommandCommits, Sent
  <2>2. /\ data' \in {"nothing", "true", "past"} /\ owed' \in {"no", "closing", "now"}
        /\ fetch' \in {"none", "asked", "true", "past"}
    BY <1>0, <1>6 DEF CommandCommits, AsOfThen
  <2>3. QED
    BY <1>0, <1>6, <2>1, <2>2 DEF CommandCommits, ScreensTypeOK, Dialog
<1>7. CASE CommandFails
  BY <1>0, <1>7 DEF CommandFails, ScreensTypeOK, Dialog
<1>8. CASE CommandAnswered
  <2>1. sent.command \in Command
    BY <1>0, <1>8 DEF CommandAnswered, Sent
  <2>2. dialog' \in Dialog
    BY <1>0, <1>8, <2>1, DialogAfter DEF CommandAnswered
  <2>3. /\ stale' \in BOOLEAN /\ owed' \in {"no", "closing", "now"}
        /\ fetch' \in {"none", "asked", "true", "past"}
    BY <1>0, <1>8 DEF CommandAnswered, Drops
  <2>4. QED
    BY <1>0, <1>8, <2>2, <2>3 DEF CommandAnswered, ScreensTypeOK, Dialog
<1>9. CASE UNCHANGED screenVars
  BY <1>0, <1>9 DEF screenVars, ScreensTypeOK, Dialog
<1>10. QED
  BY <1>3, <1>4, <1>5, <1>6, <1>7, <1>8, <1>9, <1>11, <1>13 DEF ScreenNext

LEMMA ScreenInitType == ScreenInit => ScreensTypeOK
  BY DialogAfter DEF ScreenInit, ScreensTypeOK, Dialog

\* The tables of Screens, row by row.
LEMMA ReadsRows ==
  /\ Reads.calendar = CalendarReads /\ Reads.week = WeekReads /\ Reads.bookings = BookingsReads
  /\ Reads.reservation = ReservationReads /\ Reads.cancellationQuote = CancellationQuoteReads
  /\ Reads.invoices = InvoicesReads
  /\ Reads.quote = QuoteReads /\ Reads.customers = CustomersReads /\ Reads.customersPage = CustomersReads
  /\ Reads.customer = CustomerReads /\ Reads.series = SeriesReads /\ Reads.courts = ResourcesRead
  /\ Reads.halls = ResourcesRead /\ Reads.venues = VenuesRead /\ Reads.hours = HoursRead
  /\ Reads.overrides = OverridesRead /\ Reads.priceRules = RulesRead /\ Reads.policy = TiersRead
  /\ Reads.messages = MessagesRead /\ Reads.staff = StaffRead /\ Reads.staffInvites = InvitesRead
  /\ Reads.enquiries = EnquiriesRead /\ Reads.hallAvailability = HallAvailabilityReads /\ Reads.report = ReportReads
  /\ Reads.audit = AuditRead /\ Reads.publicVenue = PublicVenueReads /\ Reads.publicAvailability = PublicAvailabilityReads
  /\ Reads.myBookings = MyBookingsReads /\ Reads.cancelQuote = CancellationQuoteReads /\ Reads.myPrefs = CustomersReads
  BY DEF Reads

LEMMA DoesRows ==
  /\ Does.quickBook = quickBook /\ Does.createSeries = createSeries /\ Does.block = block
  /\ Does.addPayment = addPayment /\ Does.setStatus = setStatus /\ Does.removeBlock = removeBlock
  /\ Does.cancelBooking = cancelBooking /\ Does.issueInvoice = issueInvoice /\ Does.extendSeries = extendSeries
  /\ Does.endSeries = endSeries /\ Does.saveCustomer = saveCustomer /\ Does.createEnquiry = createEnquiry
  /\ Does.updateEnquiry = updateEnquiry /\ Does.bookEnquiry = bookEnquiry /\ Does.firstRun = firstRun
  /\ Does.addVenue = addVenue /\ Does.saveVenue = saveVenue /\ Does.publish = publish
  /\ Does.saveTax = saveTax /\ Does.saveMessaging = saveMessaging /\ Does.addCourt = addCourt
  /\ Does.updateCourt = updateCourt /\ Does.removeCourt = removeCourt /\ Does.saveHours = saveHours
  /\ Does.addPriceRule = addPriceRule /\ Does.removePriceRule = removePriceRule /\ Does.addClosure = addClosure
  /\ Does.removeClosure = removeClosure /\ Does.savePolicy = savePolicy /\ Does.updateStaff = updateStaff
  /\ Does.revokeInvite = revokeInvite /\ Does.inviteStaff = inviteStaff /\ Does.bookOnline = bookOnline
  /\ Does.takeHold = takeHold /\ Does.release = release
  /\ Does.cancelOwn = cancelOwn /\ Does.saveWish = saveWish
  BY DEF Does

LEMMA ScreenRows ==
  /\ Screen.CalendarPage = CalendarPage /\ Screen.BookingsPage = BookingsPage /\ Screen.SeriesPage = SeriesPage
  /\ Screen.CustomersPage = CustomersPage /\ Screen.HallsPage = HallsPage /\ Screen.ReportsPage = ReportsPage
  /\ Screen.ActivityPage = ActivityPage /\ Screen.SettingsPage = SettingsPage /\ Screen.FirstRun = FirstRun
  /\ Screen.PublicVenuePage = PublicVenuePage /\ Screen.QuickBookModal = QuickBookModal /\ Screen.SeriesResult = SeriesResult
  /\ Screen.BlockModal = BlockModal /\ Screen.BookingDetailModal = BookingDetailModal /\ Screen.CancelBookingPanel = CancelBookingPanel
  /\ Screen.SeriesDetailModal = SeriesDetailModal /\ Screen.NewEnquiryModal = NewEnquiryModal /\ Screen.EnquiryModal = EnquiryModal
  /\ Screen.BookModal = BookModal /\ Screen.AddVenueModal = AddVenueModal /\ Screen.AddCourtModal = AddCourtModal
  /\ Screen.HoursModal = HoursModal /\ Screen.PricingModal = PricingModal /\ Screen.InviteModal = InviteModal
  /\ Screen.BookingFlow = PublicBookingDialog /\ Screen.MyBookings = MyBookings /\ Screen.BookingRow = BookingRow
  /\ Screen.none = Has({}, {}, {})
  BY DEF Screen

LEMMA BookingDetailHolds ==
  /\ BookingDetailModal.shows = {"invoices", "reservation"}
  /\ BookingDetailModal.does = {"issueInvoice", "addPayment", "setStatus", "removeBlock"}
  /\ BookingDetailModal.opens = {"CancelBookingPanel"}
  BY DEF BookingDetailModal, Holding, InvoiceSection, Has

LEMMA SettingsHolds ==
  /\ SettingsPage.shows = {"courts", "overrides", "policy", "messages", "staff", "staffInvites"}
  /\ SettingsPage.does = {"saveVenue", "publish", "updateCourt", "removeCourt", "addClosure", "removeClosure",
       "savePolicy", "saveTax", "saveMessaging", "updateStaff", "revokeInvite"}
  /\ SettingsPage.opens = {"AddCourtModal", "HoursModal", "PricingModal", "InviteModal", "AddVenueModal"}
  BY DEF SettingsPage, Holding, Has, VenueCard, PublishCard, CourtsCard, ClosuresCard,
     CancellationPolicyCard, TaxCard, MessagesCard, TeamCard


\* The dialogs that can come to stand over a page.
DialogsOver == [
  CalendarPage |-> {NoDialog, "QuickBookModal", "SeriesResult", "BookingDetailModal", "BlockModal",
                    "CancelBookingPanel"},
  BookingsPage |-> {NoDialog, "BookingDetailModal", "CancelBookingPanel"},
  SeriesPage |-> {NoDialog, "SeriesDetailModal"},
  HallsPage |-> {NoDialog, "NewEnquiryModal", "EnquiryModal", "BookModal"},
  SettingsPage |-> {NoDialog, "AddVenueModal", "AddCourtModal", "HoursModal", "PricingModal", "InviteModal"},
  PublicVenuePage |-> {NoDialog, "BookingFlow", "MyBookings", "BookingRow"},
  CustomersPage |-> {NoDialog}, ReportsPage |-> {NoDialog}, ActivityPage |-> {NoDialog},
  FirstRun |-> {NoDialog}]

\* What a command changes and does not drop, and what is shown nowhere but in
\* the dialog that the command closes.
ClosedWith == {<<"quickBook", "customers">>, <<"createSeries", "customers">>,
               <<"cancelBooking", "cancellationQuote">>, <<"cancelOwn", "cancelQuote">>}

Wired(c, q) ==
  \/ Does[c].writes \cap Reads[q] = {} \/ q \in Does[c].drops
  \/ <<c, q>> \in Overlooked \cup ClosedWith

\* The commands of a view reach every query that the view shows.
ViewIsWired(p, d) ==
  \A q \in Shown(p, d) : \A c \in Screen[IF d = NoDialog THEN p ELSE d].does : Wired(c, q)

LEMMA ViewsAreWired == \A p \in UNION Site : \A d \in DialogsOver[p] : ViewIsWired(p, d)
<1> USE ReadsRows, DoesRows, ScreenRows, BookingDetailHolds, SettingsHolds
    DEF ViewIsWired, Wired, Overlooked, ClosedWith, Shown, Bar, ConsolePage, NoDialog, Has, Same,
        OccupancyReads, CalendarReads, WeekReads, BookingsReads, ReservationReads,
        CancellationQuoteReads, InvoicesReads, QuoteReads, CustomersReads,
        CustomerReads, SeriesReads, ResourcesRead, VenuesRead, HoursRead, OverridesRead,
        RulesRead, TiersRead, MessagesRead, StaffRead, InvitesRead, EnquiriesRead,
        HallAvailabilityReads, ReportReads, AuditRead, PublicVenueReads,
        PublicAvailabilityReads, MyBookingsReads, Booked, Refreshed, Trailed, VenueMade,
        VenueSaved, CourtMade, CourtSaved, CourtRemoved,
        quickBook, createSeries, block, addPayment, setStatus, removeBlock,
        cancelBooking, issueInvoice, extendSeries, endSeries, saveCustomer,
        createEnquiry, updateEnquiry, bookEnquiry, firstRun, addVenue, saveVenue,
        publish, saveTax, saveMessaging, addCourt, updateCourt, removeCourt, saveHours,
        addPriceRule, removePriceRule, addClosure, removeClosure, savePolicy,
        updateStaff, revokeInvite, inviteStaff, takeHold, bookOnline, release, cancelOwn, saveWish
<1>1. ViewIsWired("CalendarPage", NoDialog)
  BY DEF CalendarPage
<1>2. ViewIsWired("CalendarPage", "QuickBookModal")
  BY DEF CalendarPage, QuickBookModal
<1>3. ViewIsWired("CalendarPage", "SeriesResult")
  BY DEF CalendarPage, SeriesResult
<1>4. ViewIsWired("CalendarPage", "BookingDetailModal")
  BY DEF CalendarPage
<1>5. ViewIsWired("CalendarPage", "BlockModal")
  BY DEF CalendarPage, BlockModal
<1>6. ViewIsWired("CalendarPage", "CancelBookingPanel")
  BY DEF CalendarPage, CancelBookingPanel
<1>7. ViewIsWired("BookingsPage", NoDialog)
  BY DEF BookingsPage
<1>8. ViewIsWired("BookingsPage", "BookingDetailModal")
  BY DEF BookingsPage
<1>9. ViewIsWired("BookingsPage", "CancelBookingPanel")
  BY DEF BookingsPage, CancelBookingPanel
<1>10. ViewIsWired("SeriesPage", NoDialog)
  BY DEF SeriesPage
<1>11. ViewIsWired("SeriesPage", "SeriesDetailModal")
  BY DEF SeriesPage, SeriesDetailModal
<1>12. ViewIsWired("HallsPage", NoDialog)
  BY DEF HallsPage
<1>13. ViewIsWired("HallsPage", "NewEnquiryModal")
  BY DEF HallsPage, NewEnquiryModal
<1>14. ViewIsWired("HallsPage", "EnquiryModal")
  BY DEF HallsPage, EnquiryModal
<1>15. ViewIsWired("HallsPage", "BookModal")
  BY DEF HallsPage, BookModal
<1>16. ViewIsWired("SettingsPage", NoDialog)
  BY SMTT(60)
<1>17. ViewIsWired("SettingsPage", "AddVenueModal")
  BY DEF AddVenueModal
<1>18. ViewIsWired("SettingsPage", "AddCourtModal")
  BY DEF AddCourtModal
<1>19. ViewIsWired("SettingsPage", "HoursModal")
  BY DEF HoursModal
<1>20. ViewIsWired("SettingsPage", "PricingModal")
  BY DEF PricingModal
<1>21. ViewIsWired("SettingsPage", "InviteModal")
  BY DEF InviteModal
<1>22. ViewIsWired("PublicVenuePage", NoDialog)
  BY DEF PublicVenuePage
<1>23. ViewIsWired("PublicVenuePage", "BookingFlow")
  BY DEF PublicVenuePage, PublicBookingDialog
<1>24. ViewIsWired("PublicVenuePage", "MyBookings")
  BY DEF PublicVenuePage, MyBookings
<1>25. ViewIsWired("PublicVenuePage", "BookingRow")
  BY DEF PublicVenuePage, BookingRow
<1>26. ViewIsWired("CustomersPage", NoDialog)
  BY DEF CustomersPage
<1>27. ViewIsWired("ReportsPage", NoDialog)
  BY DEF ReportsPage
<1>28. ViewIsWired("ActivityPage", NoDialog)
  BY DEF ActivityPage
<1>29. ViewIsWired("FirstRun", NoDialog)
  BY DEF FirstRun, Query, Reads
<1> HIDE ReadsRows, DoesRows, ScreenRows, BookingDetailHolds, SettingsHolds DEF ViewIsWired
<1>30. QED
  BY <1>1, <1>2, <1>3, <1>4, <1>5, <1>6, <1>7, <1>8, <1>9, <1>10, <1>11, <1>12, <1>13,
     <1>14, <1>15, <1>16, <1>17, <1>18, <1>19, <1>20, <1>21, <1>22, <1>23, <1>24, <1>25,
     <1>26, <1>27, <1>28, <1>29
     DEF Site, DialogsOver

\* What opens from what, and where the two commands that lead to another dialog are.
Ways == {<<"CalendarPage", "QuickBookModal">>, <<"CalendarPage", "BookingDetailModal">>,
  <<"CalendarPage", "BlockModal">>, <<"QuickBookModal", "SeriesResult">>,
  <<"BookingDetailModal", "CancelBookingPanel">>, <<"BookingsPage", "BookingDetailModal">>,
  <<"SeriesPage", "SeriesDetailModal">>, <<"HallsPage", "NewEnquiryModal">>,
  <<"HallsPage", "EnquiryModal">>, <<"EnquiryModal", "BookModal">>,
  <<"SettingsPage", "AddCourtModal">>, <<"SettingsPage", "HoursModal">>,
  <<"SettingsPage", "PricingModal">>, <<"SettingsPage", "AddVenueModal">>,
  <<"SettingsPage", "InviteModal">>, <<"PublicVenuePage", "BookingFlow">>,
  <<"PublicVenuePage", "MyBookings">>, <<"MyBookings", "BookingRow">>}

LEMMA WaysRows ==
  \A s \in DOMAIN Screen :
    /\ \A d \in Screen[s].opens : <<s, d>> \in Ways
    /\ \A c \in Screen[s].does :
          \/ Does[c].then \in {NoDialog, Same}
          \/ s = "QuickBookModal" /\ Does[c].then = "SeriesResult"
          \/ s = "BookingRow" /\ Does[c].then = "MyBookings"
<1> DEFINE Fits(s) ==
    /\ \A d \in Screen[s].opens : <<s, d>> \in Ways
    /\ \A c \in Screen[s].does :
          \/ Does[c].then \in {NoDialog, Same}
          \/ s = "QuickBookModal" /\ Does[c].then = "SeriesResult"
          \/ s = "BookingRow" /\ Does[c].then = "MyBookings"
<1> USE ScreenRows, DoesRows, BookingDetailHolds, SettingsHolds DEF Ways, NoDialog, Has
<1>1. Fits("CalendarPage") /\ Fits("BookingsPage") /\ Fits("SeriesPage") /\ Fits("CustomersPage")
      /\ Fits("HallsPage") /\ Fits("ReportsPage") /\ Fits("ActivityPage") /\ Fits("FirstRun")
      /\ Fits("PublicVenuePage") /\ Fits("SettingsPage")
  BY DEF CalendarPage, BookingsPage, SeriesPage, CustomersPage, HallsPage, ReportsPage,
     ActivityPage,
     FirstRun, PublicVenuePage, firstRun, extendSeries, saveCustomer, saveVenue, publish,
     updateCourt, removeCourt, addClosure, removeClosure, savePolicy, saveTax, saveMessaging,
     updateStaff, revokeInvite
<1>2. Fits("QuickBookModal") /\ Fits("SeriesResult") /\ Fits("BlockModal") /\ Fits("BookingDetailModal")
      /\ Fits("CancelBookingPanel") /\ Fits("SeriesDetailModal") /\ Fits("NewEnquiryModal")
      /\ Fits("EnquiryModal") /\ Fits("BookModal") /\ Fits(NoDialog)
  BY DEF QuickBookModal, SeriesResult, BlockModal, CancelBookingPanel, SeriesDetailModal,
     NewEnquiryModal, EnquiryModal, BookModal,
     quickBook, createSeries, block, issueInvoice, addPayment, setStatus, removeBlock,
     cancelBooking, endSeries,
     createEnquiry, updateEnquiry, bookEnquiry
<1>3. Fits("AddVenueModal") /\ Fits("AddCourtModal") /\ Fits("HoursModal") /\ Fits("PricingModal")
      /\ Fits("InviteModal") /\ Fits("BookingFlow") /\ Fits("MyBookings") /\ Fits("BookingRow")
  BY DEF AddVenueModal, AddCourtModal, HoursModal, PricingModal, InviteModal,
     PublicBookingDialog, MyBookings, BookingRow,
     addVenue, addCourt, saveHours, addPriceRule, removePriceRule, inviteStaff, takeHold,
     bookOnline, release, saveWish, cancelOwn
<1> HIDE ScreenRows, DoesRows, BookingDetailHolds, SettingsHolds DEF Ways, Has, Fits
<1>4. QED
  <2>1. \A s \in DOMAIN Screen : Fits(s)
    BY <1>1, <1>2, <1>3 DEF Screen
  <2>2. QED
    BY <2>1 DEF Fits

\* No way leads from a page to the dialog of another.
LEMMA OverStays ==
  ASSUME NEW p \in UNION Site, NEW c \in DialogsOver[p]
  PROVE  /\ NoDialog \in DialogsOver[p] /\ DialogsOver[p] \subseteq Dialog
         /\ \A d \in Dialog : Follows(p, c, d) => d \in DialogsOver[p]
         /\ \A k \in Screen[c].does : Does[k].then \in DialogsOver[p] \cup {Same}
<1>0. NoDialog \in DialogsOver[p] /\ c \in Dialog /\ p \in DOMAIN Screen /\ DialogsOver[p] \subseteq Dialog
  BY DEF DialogsOver, Site, ConsolePage, NoDialog, Dialog, Screen
<1>1. Dialog \subseteq DOMAIN Screen
  BY DEF Dialog
<1>2. \A d \in Dialog : <<p, d>> \in Ways \/ <<c, d>> \in Ways \/ <<d, c>> \in Ways => d \in DialogsOver[p]
  BY DEF Ways, DialogsOver, Site, ConsolePage, NoDialog, Dialog
<1>3. ASSUME NEW d \in Dialog, Follows(p, c, d) PROVE d \in DialogsOver[p]
  BY <1>0, <1>1, <1>2, <1>3, WaysRows DEF Follows
<1>4. /\ c = "QuickBookModal" => "SeriesResult" \in DialogsOver[p]
      /\ c = "BookingRow" => "MyBookings" \in DialogsOver[p]
  BY DEF DialogsOver, Site, ConsolePage, NoDialog
<1>5. ASSUME NEW k \in Screen[c].does PROVE Does[k].then \in DialogsOver[p] \cup {Same}
  BY <1>0, <1>1, <1>4, <1>5, WaysRows
<1>6. QED
  BY <1>0, <1>3, <1>5

\* What only the dialog shows that closes with the command.
LEMMA ClosedForGood ==
  ASSUME NEW p \in UNION Site, NEW d \in DialogsOver[p], NEW c, NEW q \in Shown(p, d), <<c, q>> \in ClosedWith
  PROVE  /\ c \in Screen[d].does /\ Does[c].then # Same
         /\ q \notin Shown(p, Does[c].then)
<1> DEFINE Only(o, s) == s \in DOMAIN Screen /\ o \in Screen[s].shows =>
      \/ o = "customers" /\ s = "QuickBookModal"
      \/ o = "cancellationQuote" /\ s = "CancelBookingPanel"
      \/ o = "cancelQuote" /\ s = "BookingRow"
<1>1. \A o \in {"customers", "cancellationQuote", "cancelQuote"} : \A s : Only(o, s)
  <2> USE ScreenRows, BookingDetailHolds, SettingsHolds DEF Has
  <2>1. \A o \in {"customers", "cancellationQuote", "cancelQuote"} :
         \A s \in {"CalendarPage", "BookingsPage", "SeriesPage", "CustomersPage", "HallsPage",
                   "ReportsPage", "ActivityPage", "FirstRun", "PublicVenuePage", "SettingsPage"}
                   : Only(o, s)
    BY DEF CalendarPage, BookingsPage, SeriesPage, CustomersPage, HallsPage, ReportsPage,
       ActivityPage,
       FirstRun, PublicVenuePage
  <2>2. \A o \in {"customers", "cancellationQuote", "cancelQuote"} :
         \A s \in {"QuickBookModal", "SeriesResult", "BlockModal", "BookingDetailModal", "CancelBookingPanel",
                   "SeriesDetailModal", "NewEnquiryModal", "EnquiryModal", "BookModal",
                   NoDialog} : Only(o, s)
    BY DEF QuickBookModal, SeriesResult, BlockModal, CancelBookingPanel, SeriesDetailModal,
       NewEnquiryModal,
       EnquiryModal, BookModal, NoDialog
  <2>3. \A o \in {"customers", "cancellationQuote", "cancelQuote"} :
         \A s \in {"AddVenueModal", "AddCourtModal", "HoursModal", "PricingModal", "InviteModal",
                   "BookingFlow", "MyBookings", "BookingRow"} : Only(o, s)
    BY DEF AddVenueModal, AddCourtModal, HoursModal, PricingModal, InviteModal, PublicBookingDialog,
       MyBookings, BookingRow
  <2> HIDE ScreenRows, BookingDetailHolds, SettingsHolds DEF Has
  <2>4. QED
    BY <2>1, <2>2, <2>3 DEF Screen, NoDialog
<1> HIDE DEF Only
<1>2. /\ "quickBook" \in Screen["QuickBookModal"].does /\ "createSeries" \in Screen["QuickBookModal"].does
      /\ "cancelBooking" \in Screen["CancelBookingPanel"].does /\ "cancelOwn" \in Screen["BookingRow"].does
      /\ Does["quickBook"].then = NoDialog /\ Does["createSeries"].then = "SeriesResult"
      /\ Does["cancelBooking"].then = NoDialog /\ Does["cancelOwn"].then = "MyBookings"
  BY ScreenRows, DoesRows DEF QuickBookModal, CancelBookingPanel, BookingRow, Has, quickBook,
     createSeries,
     cancelBooking, cancelOwn
<1>3. /\ d \in DOMAIN Screen /\ p \in DOMAIN Screen /\ p \notin Dialog
      /\ {NoDialog, "SeriesResult", "MyBookings", "QuickBookModal", "CancelBookingPanel", "BookingRow"} \subseteq Dialog
      /\ Dialog \subseteq DOMAIN Screen
  BY OverStays DEF Dialog, Screen, Site, ConsolePage, NoDialog
<1>4. q \in {"customers", "cancellationQuote", "cancelQuote"}
  BY DEF ClosedWith
<1>5. q \notin Bar(p)
  BY <1>4 DEF Bar
<1>6. q \notin Screen[p].shows /\ q \in Screen[d].shows
  BY <1>1, <1>3, <1>4, <1>5 DEF Only, Shown
<1>7. \/ q = "customers" /\ d = "QuickBookModal" /\ c \in {"quickBook", "createSeries"}
      \/ q = "cancellationQuote" /\ d = "CancelBookingPanel" /\ c = "cancelBooking"
      \/ q = "cancelQuote" /\ d = "BookingRow" /\ c = "cancelOwn"
  BY <1>1, <1>3, <1>4, <1>6 DEF Only, ClosedWith
<1>8. c \in Screen[d].does /\ Does[c].then \in {NoDialog, "SeriesResult", "MyBookings"}
  BY <1>2, <1>7
<1>9. q \notin Screen[Does[c].then].shows
  BY <1>1, <1>3, <1>4, <1>8 DEF Only, NoDialog
<1>10. QED
  BY <1>5, <1>6, <1>8, <1>9 DEF Shown, NoDialog, Same

\* The booking dialog is the one that drops something when it closes, and none
\* of its commands closes it with the answer.
LEMMA BookingDialogStays ==
  /\ \A k \in Screen["BookingFlow"].does : Does[k].then = Same
  /\ "release" \in Screen["BookingFlow"].does
  /\ \A d, q : q \in DropsOnClosing(d) <=> d = "BookingFlow" /\ q = "publicAvailability"
<1>1. Screen["BookingFlow"].does = {"takeHold", "bookOnline", "release"}
  BY ScreenRows DEF PublicBookingDialog, Has
<1>2. Does["takeHold"].then = Same /\ Does["bookOnline"].then = Same /\ Does["release"].then = Same
  BY DoesRows DEF takeHold, bookOnline, release
<1>3. \A d, q : q \in DropsOnClosing(d) <=> d = "BookingFlow" /\ q = "publicAvailability"
  BY DEF DropsOnClosing
<1>4. QED
  BY <1>1, <1>2, <1>3

\* What is owed is in view, and is not about to be overwritten by older data;
\* what is left to the closing of a dialog will be dropped by it.
WhatIsOwed ==
  /\ owed = "now" => OnScreen /\ fetch # "past" /\ (fetch = "none" => data = "true")
  /\ owed = "closing" => OnScreen /\ data # "nothing" /\ watched \in DropsOnClosing(dialog)

\* While a command that began in view of a query is under way, the query stays
\* in view and has something to show, and the command reaches it.
UpToDateInv ==
  /\ ScreensTypeOK
  /\ dialog \in DialogsOver[page]
  /\ sent # NotSent /\ sent.onScreen = TRUE =>
       OnScreen /\ data # "nothing" /\ Wired(sent.command, watched)
  /\ WhatIsOwed

\* Only the booking dialog releases, and it shows nothing of its own.
LEMMA ReleaseIsInBooking ==
  ASSUME NEW p \in UNION Site, NEW d \in DialogsOver[p], "release" \in Screen[d].does
  PROVE  \A q \in Shown(p, d) : q \in Shown(p, NoDialog) /\ Wired("release", q)
<1>1. d # NoDialog
  BY ScreenRows DEF NoDialog, Has
<1>2. ViewIsWired(p, d)
  BY ViewsAreWired
<1>3. Screen["BookingFlow"].shows = {}
  BY ScreenRows DEF PublicBookingDialog, Has
<1>4. d = "BookingFlow"
  <2> SUFFICES ASSUME d # "BookingFlow" PROVE FALSE
    OBVIOUS
  <2> USE ScreenRows, BookingDetailHolds DEF Has
  <2>1. d \in {"QuickBookModal", "SeriesResult", "BookingDetailModal", "BlockModal", "CancelBookingPanel",
               "SeriesDetailModal", "NewEnquiryModal", "EnquiryModal", "BookModal", "AddVenueModal",
               "AddCourtModal", "HoursModal", "PricingModal", "InviteModal", "MyBookings", "BookingRow"}
    BY <1>1 DEF DialogsOver, Site, ConsolePage, NoDialog
  <2>2. d \notin {"QuickBookModal", "SeriesResult", "BookingDetailModal", "BlockModal", "CancelBookingPanel"}
    BY DEF QuickBookModal, SeriesResult, BlockModal, CancelBookingPanel
  <2>3. d \notin {"SeriesDetailModal", "NewEnquiryModal", "EnquiryModal", "BookModal", "AddVenueModal"}
    BY DEF SeriesDetailModal, NewEnquiryModal, EnquiryModal, BookModal, AddVenueModal
  <2>4. d \notin {"AddCourtModal", "HoursModal", "PricingModal", "InviteModal", "MyBookings", "BookingRow"}
    BY DEF AddCourtModal, HoursModal, PricingModal, InviteModal, MyBookings, BookingRow
  <2>5. QED
    BY <2>1, <2>2, <2>3, <2>4
<1>5. QED
  BY <1>1, <1>2, <1>3, <1>4 DEF Shown, ViewIsWired

LEMMA UpToDateStep == UpToDateInv /\ [ScreenNext]_screenVars => UpToDateInv'
<1> SUFFICES ASSUME UpToDateInv, [ScreenNext]_screenVars PROVE UpToDateInv'
  OBVIOUS
<1>0. /\ ScreensTypeOK' /\ page \in UNION Site /\ dialog \in DialogsOver[page] /\ NoDialog \in DialogsOver[page]
      /\ owed \in {"no", "closing", "now"}
      /\ sent # NotSent => sent \in Sent
      /\ sent.phase # "idle" => sent # NotSent
  BY ScreenStep, OverStays DEF UpToDateInv, ScreensTypeOK, NotSent
<1>v. ASSUME NEW p \in UNION Site, NEW d \in DialogsOver[p], View(p, d)
      PROVE  /\ page' = p /\ dialog' = d /\ watched' = watched /\ data' = data
             /\ OnScreen' <=> watched \in Shown(p, d)
             /\ WhatIsOwed'
  <2>1. page' = p /\ dialog' = d /\ watched' = watched /\ data' = data
        /\ (OnScreen' <=> watched \in Shown(p, d))
    BY <1>v DEF View, OnScreen
  <2>2. ASSUME owed' = "now" PROVE OnScreen' /\ fetch' # "past" /\ (fetch' = "none" => data' = "true")
    <3>1. watched \in Shown(p, d)
      BY <1>v, <2>2 DEF View
    <3>2. CASE owed = "now"
      <4>1. fetch' \in {"asked", fetch}
        BY <1>v DEF View
      <4>2. QED
        BY <2>1, <3>1, <3>2, <4>1 DEF UpToDateInv, WhatIsOwed
    <3>3. CASE owed = "closing" /\ d # dialog /\ watched \in DropsOnClosing(dialog)
      <4>1. FetchedAgain
        BY <3>3 DEF UpToDateInv, WhatIsOwed, FetchedAgain
      <4>2. fetch' = "asked"
        BY <1>v, <3>3, <4>1 DEF View
      <4>3. QED
        BY <2>1, <3>1, <4>2
    <3>4. QED
      BY <1>0, <1>v, <2>2, <3>1, <3>2, <3>3 DEF View
  <2>3. ASSUME owed' = "closing" PROVE OnScreen' /\ data' # "nothing" /\ watched' \in DropsOnClosing(dialog')
    <3>1. owed = "closing" /\ watched \in Shown(p, d) /\ (d = dialog \/ watched \notin DropsOnClosing(dialog))
      BY <1>0, <1>v, <2>3 DEF View
    <3>2. QED
      BY <2>1, <3>1 DEF UpToDateInv, WhatIsOwed
  <2>4. QED
    BY <2>1, <2>2, <2>3 DEF WhatIsOwed
<1>1. ASSUME NEW p \in UNION Site, NEW d \in DialogsOver[p], Look(p, d) PROVE UpToDateInv'
  <2>1. page' = p /\ dialog' = d /\ watched' = watched /\ data' = data
        /\ (OnScreen' <=> watched \in Shown(p, d)) /\ WhatIsOwed'
    BY <1>1, <1>v DEF Look
  <2>2. sent' # NotSent /\ sent'.onScreen = TRUE =>
          OnScreen' /\ data' # "nothing" /\ Wired(sent'.command, watched')
    <3>1. CASE sent # NotSent /\ watched \notin Shown(p, d)
      BY <1>0, <1>1, <3>1 DEF Look, Sent
    <3>2. CASE ~(sent # NotSent /\ watched \notin Shown(p, d))
      <4>1. sent' = sent
        BY <1>1, <3>2 DEF Look
      <4>2. QED
        BY <2>1, <3>2, <4>1 DEF UpToDateInv, Wired
    <3>3. QED
      BY <3>1, <3>2
  <2>3. QED
    BY <1>0, <2>1, <2>2 DEF UpToDateInv
<1>2. ASSUME NEW p \in UNION Site, GoTo(p) PROVE UpToDateInv'
  <2>1. NoDialog \in DialogsOver[p]
    BY DEF DialogsOver, Site, ConsolePage
  <2>2. QED
    BY <1>1, <1>2, <2>1 DEF GoTo
<1>3. ASSUME NEW d \in Dialog, OpenDialog(d) PROVE UpToDateInv'
  BY <1>0, <1>1, <1>3, OverStays DEF OpenDialog
<1>4. CASE Grows \/ Refetch \/ Forget \/ FetchIsRead \/ FetchEnds \/ FetchFails
  <2>1. UNCHANGED <<watched, page, dialog, sent>> /\ (OnScreen' <=> OnScreen)
    BY <1>4 DEF Grows, Refetch, Forget, FetchIsRead, FetchEnds, FetchFails, OnScreen
  <2>2. data' = "nothing" => data = "nothing" \/ ~OnScreen
    BY <1>4 DEF Grows, Refetch, Forget, FetchIsRead, FetchEnds, FetchFails
  <2>3. owed' = "now" => OnScreen' /\ fetch' # "past" /\ (fetch' = "none" => data' = "true")
    BY <1>0, <1>4, <2>1 DEF Grows, Refetch, Forget, FetchIsRead, FetchEnds, FetchFails,
       UpToDateInv, WhatIsOwed, ScreensTypeOK
  <2>5. owed' = "closing" => owed = "closing" /\ (data # "nothing" /\ OnScreen => data' # "nothing")
    BY <1>0, <1>4 DEF Grows, Refetch, Forget, FetchIsRead, FetchEnds, FetchFails
  <2>6. WhatIsOwed'
    BY <2>1, <2>3, <2>5 DEF UpToDateInv, WhatIsOwed
  <2>4. QED
    BY <1>0, <2>1, <2>2, <2>6 DEF UpToDateInv, Wired
<1>5. ASSUME NEW c \in Command, SendCommand(c) PROVE UpToDateInv'
  <2>1. PICK state : state = Requested(c)
    OBVIOUS
  <2>2. state.command = c /\ (state.onScreen = TRUE => OnScreen /\ data # "nothing") /\ sent' = state
    BY <1>5, <2>1 DEF SendCommand, Requested
  <2>3. UNCHANGED <<watched, page, dialog, data, fetch, owed>> /\ (OnScreen' <=> OnScreen)
    BY <1>5 DEF SendCommand, OnScreen
  <2>4. OnScreen => Wired(c, watched)
    BY <1>0, <1>5, ViewsAreWired DEF SendCommand, OnScreen, ViewIsWired
  <2>5. QED
    BY <1>0, <2>2, <2>3, <2>4 DEF UpToDateInv, WhatIsOwed, Wired
<1>11. CASE SendRelease
  <2>1. PICK state : state = Requested("release")
    OBVIOUS
  <2>2. /\ state.command = "release" /\ sent' = state
        /\ state.onScreen = TRUE => OnScreen /\ data # "nothing"
    BY <1>11, <2>1 DEF SendRelease, Requested
  <2>3. View(page, NoDialog) /\ "release" \in Screen[dialog].does /\ watched \in Query
    BY <1>0, <1>11 DEF SendRelease, UpToDateInv, ScreensTypeOK
  <2>4. OnScreen => watched \in Shown(page, NoDialog) /\ Wired("release", watched)
    BY <1>0, <2>3, ReleaseIsInBooking DEF OnScreen
  <2>5. /\ page' = page /\ dialog' = NoDialog /\ watched' = watched /\ data' = data
        /\ OnScreen' <=> watched \in Shown(page, NoDialog)
        /\ WhatIsOwed'
    BY <1>0, <1>v, <2>3
  <2>6. QED
    BY <1>0, <2>2, <2>4, <2>5 DEF UpToDateInv, Wired
<1>6. CASE CommandCommits
  <2>1. sent \in Sent /\ sent # NotSent
    BY <1>0, <1>6 DEF CommandCommits
  <2>2. sent'.command = sent.command /\ sent'.onScreen = sent.onScreen
    BY <1>6, <2>1 DEF CommandCommits, Sent
  <2>3. UNCHANGED <<watched, page, dialog>> /\ (OnScreen' <=> OnScreen)
    BY <1>6 DEF CommandCommits, OnScreen
  <2>4. data' = "nothing" => data = "nothing"
    BY <1>6 DEF CommandCommits, AsOfThen
  <2>5. owed' = "no" \/ UNCHANGED <<data, fetch, owed>>
    BY <1>6 DEF CommandCommits
  <2>6. QED
    BY <1>0, <2>1, <2>2, <2>3, <2>4, <2>5 DEF UpToDateInv, WhatIsOwed, Wired
<1>7. CASE CommandFails
  <2>1. sent' = NotSent /\ UNCHANGED <<watched, page, dialog, data, fetch, owed>> /\ (OnScreen' <=> OnScreen)
    BY <1>7 DEF CommandFails, OnScreen
  <2>2. QED
    BY <1>0, <2>1 DEF UpToDateInv, WhatIsOwed
<1>8. CASE CommandAnswered
  <2> DEFINE c == sent.command
             over == IF Does[c].then = Same \/ ~(c \in Screen[dialog].does) THEN dialog ELSE Does[c].then
  <2>1. sent \in Sent /\ sent # NotSent /\ sent' = NotSent /\ UNCHANGED <<watched, page, data>>
        /\ dialog' = over /\ (OnScreen' <=> watched \in Shown(page, over))
    BY <1>0, <1>8 DEF CommandAnswered, OnScreen
  <2>2. over \in DialogsOver[page]
    BY <1>0, OverStays
  <2>3. fetch' = IF Drops(c) /\ OnScreen /\ (fetch = "none" \/ data # "nothing") THEN "asked" ELSE fetch
    BY <1>8 DEF CommandAnswered, FetchedAgain
  <2>4. ASSUME owed' = "now" PROVE OnScreen' /\ fetch' # "past" /\ (fetch' = "none" => data' = "true")
    <3>1. watched \in Shown(page, over)
      BY <1>8, <2>4 DEF CommandAnswered
    <3>2. CASE owed = "now"
      BY <2>1, <2>3, <3>1, <3>2 DEF UpToDateInv, WhatIsOwed
    <3>3. CASE sent.onScreen = TRUE /\ Touches(c) /\ <<c, watched>> \notin Overlooked
      <4>1. OnScreen /\ data # "nothing" /\ Wired(c, watched)
        BY <2>1, <3>3 DEF UpToDateInv
      <4>2. <<c, watched>> \notin ClosedWith
        <5> SUFFICES ASSUME <<c, watched>> \in ClosedWith PROVE FALSE
          OBVIOUS
        <5>1. watched \in Shown(page, dialog)
          BY <4>1 DEF OnScreen
        <5>2. /\ c \in Screen[dialog].does /\ Does[c].then # Same
              /\ watched \notin Shown(page, Does[c].then)
          BY <1>0, <5>1, ClosedForGood
        <5>3. QED
          BY <3>1, <5>2
      <4>3. Drops(c)
        BY <3>3, <4>1, <4>2 DEF Wired, Touches, Drops
      <4>4. fetch' = "asked"
        BY <2>3, <4>1, <4>3
      <4>5. QED
        BY <2>1, <3>1, <4>4
    <3>4. owed = "now" \/ (sent.onScreen = TRUE /\ Touches(c) /\ <<c, watched>> \notin Overlooked)
      <4>1. sent.onScreen \in BOOLEAN
        BY <2>1 DEF Sent
      <4>2. QED
        BY <1>8, <2>4, <4>1 DEF CommandAnswered
    <3>5. QED
      BY <3>2, <3>3, <3>4
  <2>6. ASSUME owed' = "closing" PROVE OnScreen' /\ data' # "nothing" /\ watched' \in DropsOnClosing(dialog')
    <3>1. watched \in Shown(page, over)
      BY <1>8, <2>6 DEF CommandAnswered
    <3>2. sent.onScreen \in BOOLEAN
      BY <2>1 DEF Sent
    <3>3. owed = "closing" \/ (sent.onScreen = TRUE /\ watched \in DropsOnClosing(dialog))
      BY <1>8, <2>6, <3>2 DEF CommandAnswered
    <3>4. data # "nothing" /\ watched \in DropsOnClosing(dialog)
      BY <2>1, <3>3 DEF UpToDateInv, WhatIsOwed
    <3>5. dialog' = dialog
      BY <2>1, <3>4, BookingDialogStays
    <3>6. QED
      BY <2>1, <3>1, <3>4, <3>5
  <2>5. QED
    BY <1>0, <2>1, <2>2, <2>4, <2>6 DEF UpToDateInv, WhatIsOwed
<1>9. CASE UNCHANGED screenVars
  BY <1>0, <1>9 DEF screenVars, UpToDateInv, WhatIsOwed, OnScreen, Wired
<1>10. QED
  BY <1>2, <1>3, <1>4, <1>5, <1>6, <1>7, <1>8, <1>9, <1>11 DEF ScreenNext, Dialog

LEMMA ScreenInitInv == ScreenInit => UpToDateInv
<1> SUFFICES ASSUME ScreenInit PROVE UpToDateInv
  OBVIOUS
<1>1. NoDialog \in DialogsOver[page]
  BY DEF ScreenInit, DialogsOver, Site, ConsolePage
<1>2. ScreensTypeOK
  BY ScreenInitType
<1>3. QED
  BY <1>1, <1>2 DEF ScreenInit, UpToDateInv, WhatIsOwed

LEMMA ShownIsTrue == UpToDateInv => ShownIsUpToDate
  BY DEF UpToDateInv, WhatIsOwed, ShownIsUpToDate

---------------------------------------------------------------------------
\* Together.

RulesInv == OfferInv /\ PricingInv /\ PolicyInv /\ UpToDateInv

LEMMA RulesInvariant == Spec => []RulesInv
<1>1. Init => RulesInv
  BY OfferInitInv, PricingInitInv, PolicyInitInv, ScreenInitInv DEF Init, RulesInv
<1>2. RulesInv /\ [Next]_vars => RulesInv'
  <2> SUFFICES ASSUME RulesInv, [Next]_vars PROVE RulesInv'
    OBVIOUS
  <2>1. /\ [OfferNext]_offerVars /\ [PricingNext]_pricingVars
        /\ [PolicyNext]_policyVars /\ [ScreenNext]_screenVars
    BY DEF Next, vars
  <2>2. QED
    BY <2>1, OfferStep, PricingStep, PolicyStep, UpToDateStep DEF RulesInv
<1>3. QED
  BY <1>1, <1>2, PTL DEF Spec

\* The rule tables, the saves of them in flight and the cache of the pages keep
\* their types: a price rule that two owners patch at once still ends after it
\* begins.
THEOREM RulesTypeCorrect == Spec => []RulesTypeOK
<1>1. RulesInv => RulesTypeOK
  BY DEF RulesInv, RulesTypeOK, OfferInv, PricingInv, PolicyInv, UpToDateInv
<1>2. QED
  BY <1>1, RulesInvariant, PTL

\* What availability() shows as available holds.create accepts, whatever the
\* notice, the booking window and the time, also when saves of the opening hours
\* have met, and its slots do not overlap; a slot that holds.create accepts is
\* shown, unless a lapsed hold is in its way or it is the midnight with which the
\* day after the booking window begins.
THEOREM PageAndHoldAlwaysAgree == Spec => []PageAndHoldAgree
<1>1. RulesInv => PageAndHoldAgree
  BY PageAgreesWithHolds DEF RulesInv
<1>2. QED
  BY <1>1, RulesInvariant, PTL

\* resolvePrice finds the same rule in whatever order the rows are read.
THEOREM OnePriceAlways == Spec => []OnePrice
<1>1. RulesInv => OnePrice
  BY OnePriceHolds DEF RulesInv
<1>2. QED
  BY <1>1, RulesInvariant, PTL

\* A quote never refunds more than was collected, nothing once the booking has
\* begun, and not more for a later cancellation under a ladder that replace()
\* looked at.
THEOREM EarlierIsNeverWorse == Spec => []EarlierIsNoWorse
<1>1. RulesInv => EarlierIsNoWorse
  BY RefundsInOrder DEF RulesInv
<1>2. QED
  BY <1>1, RulesInvariant, PTL

\* After a change made on a page is answered, what the page still shows is not
\* older than the change, whatever is fetched, opened or left in between: every
\* onSuccess drops what its view shows of the tables that it wrote, and closing
\* the booking dialog what was written in it, but for the pairs of Overlooked,
\* the release of a hold among them.
THEOREM ShownAlwaysUpToDate == Spec => []ShownIsUpToDate
<1>1. RulesInv => ShownIsUpToDate
  BY ShownIsTrue DEF RulesInv
<1>2. QED
  BY <1>1, RulesInvariant, PTL
=============================================================================
