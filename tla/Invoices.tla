------------------------------ MODULE Invoices ------------------------------
(***************************************************************************)
(* The tax invoices and credit notes of one venue that issues them: a      *)
(* gapless series of numbers per financial year, beside everything that    *)
(* Reservations lets happen to the bookings they are for.                  *)
(*                                                                         *)
(* A handler reads what it will print, then takes a number and writes the  *)
(* document in its request's transaction.  From the moment it takes the    *)
(* number it holds the counter row of its year locked, until it commits or *)
(* is undone.                                                              *)
(***************************************************************************)
EXTENDS Reservations

CONSTANTS
  Clerk,    \* the handlers that can be issuing a document at one time
  LastYear, \* financial years are 1..LastYear
  Terms     \* the prices and tax terms a booking can be invoiced on

ASSUME LastYearAssumption == LastYear \in Nat \ {0}
ASSUME TermsAssumption ==
  /\ Terms \subseteq [amount : Nat, rateBp : Nat, inclusive : BOOLEAN, intraState : BOOLEAN]
  /\ \A t \in Terms : t.rateBp <= 10000

VARIABLES
  year,     \* the financial year it is
  nextSeq,  \* invoice_series.next_seq, by year; 1 stands for no row as well
  invoice,  \* the documents
  clerk     \* what each handler that is not done holds

invoiceVars == <<vars, year, nextSeq, invoice, clerk>>

---------------------------------------------------------------------------
\* computeTax

\* Math.round of a quotient that is not negative.
RoundedQuotient(n, d) == (2 * n + d) \div (2 * d)

\* What computeTax makes of the tax and the taxable value.
Breakdown(t, taxable, tax, half) ==
  [taxable |-> taxable,
   cgst |-> IF t.intraState THEN half ELSE 0,
   sgst |-> IF t.intraState THEN tax - half ELSE 0,
   igst |-> IF t.intraState THEN 0 ELSE tax,
   total |-> taxable + tax,
   rateBp |-> t.rateBp]

\* Mutant of Taxable: the tax is put on a price that contains it.
TaxableOnTop(t) == IF t.inclusive THEN RoundedQuotient(t.amount * (10000 + t.rateBp), 10000)
                                  ELSE t.amount

Taxable(t) == IF t.inclusive THEN RoundedQuotient(t.amount * 10000, 10000 + t.rateBp)
                             ELSE t.amount

\* Mutant of ComputeTax: each half is rounded on its own.
ComputeTaxHalvesRounded(t) ==
  LET taxable == Taxable(t)
      tax == IF t.inclusive THEN t.amount - taxable
                            ELSE RoundedQuotient(t.amount * t.rateBp, 10000)
      half == RoundedQuotient(tax, 2)
  IN  [Breakdown(t, taxable, tax, half) EXCEPT !.sgst = IF t.intraState THEN half ELSE 0]

\* Out of an inclusive price the tax is what the rounded taxable value leaves;
\* the state's half takes the odd paisa.
ComputeTax(t) ==
  LET taxable == Taxable(t)
      tax == IF t.inclusive THEN t.amount - taxable
                            ELSE RoundedQuotient(t.amount * t.rateBp, 10000)
  IN  Breakdown(t, taxable, tax, tax \div 2)

---------------------------------------------------------------------------
\* The documents.

Tax == [taxable : Nat, cgst : Nat, sgst : Nat, igst : Nat, total : Nat, rateBp : Nat]
Number == (1..LastYear) \X (Nat \ {0})

\* reverses is the number of the invoice a credit note is against.
Draft == [kind : {"invoice", "credit_note"}, booking : Booking \cup {"none"},
          reverses : Number \cup {<<>>}, year : 1..LastYear, tax : Tax]
Document == [kind : {"invoice", "credit_note"}, booking : Booking \cup {"none"},
             reverses : Number \cup {<<>>}, year : 1..LastYear, tax : Tax, seq : Nat \ {0}]

NumberOf(d) == <<d.year, d.seq>>
Numbered(draft, n) ==
  [kind |-> draft.kind, booking |-> draft.booking, reverses |-> draft.reverses,
   year |-> draft.year, tax |-> draft.tax, seq |-> n]

Away == [phase |-> "away"]
ClerkState == {Away} \cup [phase : {"judged"}, draft : Draft]
                     \cup [phase : {"numbered"}, draft : Draft, seq : Nat \ {0}]

\* Mutant of Admitted: the index is on credit notes alone.
AdmittedTwice(draft) ==
  draft.kind = "credit_note" => ~\E d \in invoice : d.reverses = draft.reverses

\* invoice_one_per_reservation and invoice_one_credit_note_per_invoice.
Admitted(draft) ==
  /\ draft.kind = "invoice" /\ draft.booking # "none" =>
       ~\E d \in invoice : d.kind = "invoice" /\ d.booking = draft.booking
  /\ draft.kind = "credit_note" => ~\E d \in invoice : d.reverses = draft.reverses

\* The foreign key to the booking.
Linked(draft) == draft.booking \in Booking => Exists(draft.booking)

InvoicesInit ==
  /\ Init
  /\ year = 1
  /\ nextSeq = [y \in 1..LastYear |-> 1]
  /\ invoice = {}
  /\ clerk = [k \in Clerk |-> Away]

---------------------------------------------------------------------------

\* Mutant of Unlinked: ON DELETE CASCADE.
UnlinkedOrGone(docs) == {d \in docs : d.booking = "none" \/ Exists(d.booking)'}

\* ON DELETE SET NULL: a document outlives its booking.
Unlinked(docs) ==
  {IF d.booking = "none" \/ Exists(d.booking)' THEN d ELSE [d EXCEPT !.booking = "none"] :
     d \in docs}

\* The rest of the venue.
BookingStep ==
  /\ Next
  /\ invoice' = Unlinked(invoice)
  /\ UNCHANGED <<year, nextSeq, clerk>>

\* The first of April.
NewYear ==
  /\ year < LastYear
  /\ year' = year + 1
  /\ UNCHANGED <<vars, nextSeq, invoice, clerk>>

Judged(k, draft) ==
  /\ clerk[k] = Away
  /\ clerk' = [clerk EXCEPT ![k] = [phase |-> "judged", draft |-> draft]]
  /\ UNCHANGED <<vars, year, nextSeq, invoice>>

\* issueForReservation up to its transaction.
IssueRead(k, b, t) ==
  /\ Exists(b)
  /\ reservation[b].status # "cancelled"
  /\ reservation[b].kind = "booking"
  /\ Judged(k, [kind |-> "invoice", booking |-> b, reverses |-> <<>>, year |-> year,
                tax |-> ComputeTax(t)])

\* creditNoteFor up to its transaction: the original's columns, this year.
CreditRead(k, d) ==
  /\ d.kind = "invoice"
  /\ Judged(k, [kind |-> "credit_note", booking |-> d.booking, reverses |-> NumberOf(d),
                year |-> year, tax |-> d.tax])

\* Nobody else has taken a number of that year and not committed yet.
CounterFree(y) == \A k \in Clerk : clerk[k].phase = "numbered" => clerk[k].draft.year # y

\* Mutant of TakeNextNumber: a sequence, which hands out numbers for good.
TakeFromSequence(k) ==
  LET y == clerk[k].draft.year
  IN  /\ clerk[k].phase = "judged"
      /\ clerk' = [clerk EXCEPT ![k] = [phase |-> "numbered", draft |-> clerk[k].draft,
                                        seq |-> nextSeq[y]]]
      /\ nextSeq' = [nextSeq EXCEPT ![y] = @ + 1]
      /\ UNCHANGED <<vars, year, invoice>>

\* takeNextNumber: the counter is read under its lock; the increment is seen
\* by nobody until the commit.
TakeNextNumber(k) ==
  LET y == clerk[k].draft.year
  IN  /\ clerk[k].phase = "judged"
      /\ CounterFree(y)
      /\ clerk' = [clerk EXCEPT ![k] = [phase |-> "numbered", draft |-> clerk[k].draft,
                                        seq |-> nextSeq[y]]]
      /\ UNCHANGED <<vars, year, nextSeq, invoice>>

\* The INSERT and the commit.
WriteDocument(k) ==
  LET draft == clerk[k].draft
      n == clerk[k].seq
  IN  /\ clerk[k].phase = "numbered"
      /\ Admitted(draft)
      /\ Linked(draft)
      /\ invoice' = invoice \cup {Numbered(draft, n)}
      /\ nextSeq' = [nextSeq EXCEPT ![draft.year] = n + 1]
      /\ clerk' = [clerk EXCEPT ![k] = Away]
      /\ UNCHANGED <<vars, year>>

\* An index or the foreign key refuses the document, or the request fails for
\* any other reason: it is undone, the number with it.
Undo(k) ==
  /\ clerk[k] # Away
  /\ clerk' = [clerk EXCEPT ![k] = Away]
  /\ UNCHANGED <<vars, year, nextSeq, invoice>>

Issuing == \E k \in Clerk :
  \/ \E b \in Booking, t \in Terms : IssueRead(k, b, t)
  \/ \E d \in invoice : CreditRead(k, d)
  \/ TakeNextNumber(k) \/ WriteDocument(k) \/ Undo(k)

InvoicesNext == BookingStep \/ NewYear \/ Issuing

InvoicesSpec == InvoicesInit /\ [][InvoicesNext]_invoiceVars
---------------------------------------------------------------------------
\* Properties.

InvoicesTypeOK ==
  /\ TypeOK
  /\ year \in 1..LastYear
  /\ nextSeq \in [1..LastYear -> Nat \ {0}]
  /\ invoice \subseteq Document
  /\ clerk \in [Clerk -> ClerkState]

\* The series has no gap and no number twice: the documents of a year are
\* numbered from one to one below its counter, however many handlers issue at
\* once and however many of them fail ("a transaction that rolls back returns
\* its number").
Unbroken ==
  /\ \A y \in 1..LastYear : \A n \in 1..(nextSeq[y] - 1) :
       \E d \in invoice : NumberOf(d) = <<y, n>>
  /\ \A d \in invoice : d.seq < nextSeq[d.year]
  /\ \A d, e \in invoice : NumberOf(d) = NumberOf(e) => d = e

\* A booking that is still in the table has one invoice, and an invoice is
\* credited once, in full: "Pressing the button twice must not produce two tax
\* documents for the same money."
TaxedOnce ==
  /\ \A d, e \in invoice :
       d.kind = "invoice" /\ e.kind = "invoice" /\ d.booking = e.booking /\ d.booking # "none"
         => d = e
  /\ \A d, e \in invoice : d.reverses # <<>> /\ d.reverses = e.reverses => d = e
  /\ \A d \in invoice : d.kind = "credit_note" =>
       \E e \in invoice : e.kind = "invoice" /\ NumberOf(e) = d.reverses /\ e.tax = d.tax

\* Every document that is drawn up adds up and has one tax shape
\* (invoice_totals_reconcile, invoice_one_tax_shape), its halves differ by a
\* paisa at most, and its tax is its rate on its taxable value, to the nearest
\* paisa.
AddsUp(x) ==
  LET tax == x.total - x.taxable
      error == 10000 * tax - x.rateBp * x.taxable
  IN  /\ x.taxable + x.cgst + x.sgst + x.igst = x.total
      /\ (x.cgst = 0 /\ x.sgst = 0) \/ x.igst = 0
      /\ x.sgst - x.cgst \in {0, 1}
      /\ -(10000 + x.rateBp) <= 2 * error /\ 2 * error <= 10000 + x.rateBp
DocumentsAddUp ==
  \A k \in Clerk : clerk[k] # Away => AddsUp(clerk[k].draft.tax)

\* "An issued invoice cannot be edited or deleted": whatever happens to its
\* booking, a document stays as it was, the link to the booking apart.
DocumentsStay ==
  [][\A d \in invoice : \E e \in invoice' :
       [e EXCEPT !.booking = d.booking] = d /\ e.booking \in {d.booking, "none"}]_invoiceVars
===========================================================================
