------------------------------ MODULE MCRules ------------------------------
(***************************************************************************)
(* What is on sale, for how much, what is given back, and what the screens *)
(* show of it all, in one run.  The four share no state, so each behaviour *)
(* is one of any of them, with the others where they began.                *)
(***************************************************************************)
EXTENDS Offers, Pricing, RefundPolicy, Screens, TLC

CONSTANTS a1, a2, b1, b2

\* Saves and rules are made of the same names, and so are who makes them.
Alike == Permutations({a1, a2}) \cup Permutations({b1, b2})

MCSpecialDay == {<<1, 4>>}
MCAsked == {<<2, 4>>}
MCTariff == {{}, {0, 1, 2, 3}}
MCClock == {-5, -1}
MCTicks == {-1, 0, 3, 4}
MCCollected == {-1, 2, 5}

VARIABLE scene

vars == <<offerVars, pricingVars, policyVars, screenVars, scene>>

Scene == {"offers", "pricing", "policy", "screens"}

\* What is watched and shown matters to the screens alone, the time of day to
\* what is on sale.
Init ==
  /\ OfferInit /\ PricingInit /\ PolicyInit /\ ScreenInit
  /\ \/ scene = "screens"
     \/ scene \in Scene \ {"screens"} /\ watched = "venues" /\ page = "CalendarPage"
  /\ scene = "offers" \/ now = -1

Next ==
  /\ UNCHANGED scene
  /\ \/ scene = "offers" /\ OfferNext /\ UNCHANGED <<pricingVars, policyVars, screenVars>>
     \/ scene = "pricing" /\ PricingNext /\ UNCHANGED <<offerVars, policyVars, screenVars>>
     \/ scene = "policy" /\ PolicyNext /\ UNCHANGED <<offerVars, pricingVars, screenVars>>
     \/ scene = "screens" /\ ScreenNext /\ UNCHANGED <<offerVars, pricingVars, policyVars>>

Spec == Init /\ [][Next]_vars

\* The rule tables, the saves in flight and the cache have their types; a rule
\* of a price holds from a time to a later one whoever changes it at once.
RulesTypeOK == OffersTypeOK /\ PricingTypeOK /\ PolicyTypeOK /\ ScreensTypeOK
=============================================================================
