-------------------------- MODULE MCReservations --------------------------
(***************************************************************************)
(* Instances of Reservations for TLC: one court of two cells, sold singly  *)
(* and together, so that one sale can displace two holds.                  *)
(***************************************************************************)
EXTENDS Reservations, TLC

CONSTANTS b1, b2, b3, p1, p2, r1, r2

MCSlots == {{1}, {2}, {1, 2}}
MCOneSlot == {{1}}
MCCourts == {MCSlots}
Symmetric == Permutations(Booking) \cup Permutations(Request)
===========================================================================
