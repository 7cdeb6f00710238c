----------------------------- MODULE MCInvoices -----------------------------
(***************************************************************************)
(* Instances of Invoices for TLC: prices with an odd paisa of tax, with a  *)
(* rounded taxable value, untaxed, and taxed on top.                       *)
(***************************************************************************)
EXTENDS Invoices, TLC

CONSTANTS b1, b2, k1, k2

MCOneSlot == {{1}}
MCTerms == {
  [amount |-> 50001, rateBp |-> 1800, inclusive |-> TRUE, intraState |-> TRUE],
  [amount |-> 3, rateBp |-> 1800, inclusive |-> FALSE, intraState |-> FALSE]}
Symmetric == Permutations(Booking) \cup Permutations(Clerk)
===========================================================================
