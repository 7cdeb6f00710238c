---------------------------- MODULE MCCheckout ----------------------------
(***************************************************************************)
(* Instances of Checkout for TLC: one slot, so that whoever takes it next  *)
(* meets what the payment left behind.                                     *)
(***************************************************************************)
EXTENDS Checkout, TLC

CONSTANTS b1, b2, p1, p2, r1, o1, o2, a1, a2, w1, w2, q1, q2

MCOneSlot == {{1}}
Symmetric == Permutations(Booking) \cup Permutations(Payment) \cup Permutations(Order)
        \cup Permutations(Attempt) \cup Permutations(Webhook) \cup Permutations(Session)
===========================================================================
