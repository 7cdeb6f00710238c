------------------------------ MODULE MCSeries ------------------------------
(***************************************************************************)
(* Values of the constants of Series for TLC.                              *)
(***************************************************************************)
EXTENDS Series, TLC
CONSTANTS s1, s2, c1, c2, r1, r2

MCOpenEnded == {[day |-> 1, from |-> 1, to |-> 0]}
MCTerms == MCOpenEnded \cup {[day |-> 0, from |-> 1, to |-> 3]}
MCEachDay == {[day |-> 0, from |-> 1, to |-> 0]}

Alike == Permutations(Replica) \cup Permutations(Clerk)
=============================================================================
