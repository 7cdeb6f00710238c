------------------------------ MODULE MCOutbox ------------------------------
(* Outbox on one or two bookings.                                          *)
EXTENDS Outbox, TLC

CONSTANTS b1, b2, s1, s2, r1, r2

\* Requests are alike, and so are replicas.
Alike == Permutations({s1, s2}) \cup Permutations({r1, r2})
=============================================================================
