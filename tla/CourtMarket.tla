---------------------------- MODULE CourtMarket ----------------------------
(***************************************************************************)
(* What the booking engine promises, with no table, request or sweeper in  *)
(* sight: every cell of court time has one owner at most, and a cell that  *)
(* is firmly sold is never handed to somebody else without being given up  *)
(* first.  Only a hold, which is not firm, may be pushed aside by the sale *)
(* that takes its place.                                                   *)
(***************************************************************************)
CONSTANTS
  Cell,     \* the smallest units of court time
  Booking,  \* who can own them
  Nobody    \* the owner of a free cell, not in Booking

VARIABLES
  owner,    \* the owner of each cell
  firm      \* the owners that are sold, not just holding

vars == <<owner, firm>>

Init == owner = [c \in Cell |-> Nobody] /\ firm = {}

Owns(b, c) == owner[c] = b

\* b takes the cells s, all free or held by the displaced, who lose all theirs.
Sell(b, s, displaced) ==
  /\ \A c \in Cell : ~Owns(b, c)
  /\ displaced \cap firm = {}
  /\ \A c \in s : owner[c] \in displaced \cup {Nobody}
  /\ owner' = [c \in Cell |-> IF c \in s THEN b
                              ELSE IF owner[c] \in displaced THEN Nobody
                              ELSE owner[c]]
  /\ firm' \in {firm, firm \cup {b}}

MakeFirm(b) ==
  /\ \E c \in Cell : Owns(b, c)
  /\ firm' = firm \cup {b}
  /\ UNCHANGED owner

GiveUp(leavers) ==
  /\ owner' = [c \in Cell |-> IF owner[c] \in leavers THEN Nobody ELSE owner[c]]
  /\ firm' = firm \ leavers

Next ==
  \/ \E b \in Booking, s \in SUBSET Cell, displaced \in SUBSET Booking : Sell(b, s, displaced)
  \/ \E b \in Booking : MakeFirm(b)
  \/ \E leavers \in SUBSET Booking : GiveUp(leavers)

Spec == Init /\ [][Next]_vars
===========================================================================
