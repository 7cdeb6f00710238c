--------------------------- MODULE InvoicesProofs ---------------------------
(***************************************************************************)
(* Theorems about Invoices: for every number of handlers and years the     *)
(* series is unbroken, and for every price and rate the documents add up.  *)
(***************************************************************************)
EXTENDS Invoices, ReservationsProofs

\* Whole quotients, as the provers need them.
LEMMA QuotientBounds ==
  ASSUME NEW a \in Nat, NEW b \in Nat \ {0}
  PROVE  /\ a \div b \in Nat
         /\ b * (a \div b) <= a
         /\ a < b * (a \div b) + b
OBVIOUS

\* Rounding a quotient moves it by half a divisor at most.
LEMMA RoundedQuotientBounds ==
  ASSUME NEW n \in Nat, NEW d \in Nat \ {0}
  PROVE  /\ RoundedQuotient(n, d) \in Nat
         /\ 2 * (d * RoundedQuotient(n, d)) <= 2 * n + d
         /\ 2 * n + d < 2 * (d * RoundedQuotient(n, d)) + 2 * d
<1>1. PICK a \in Nat, b \in Nat \ {0} : a = 2 * n + d /\ b = 2 * d
  OBVIOUS
<1>2. PICK q \in Nat : q = RoundedQuotient(n, d) /\ q = a \div b
  BY <1>1, QuotientBounds DEF RoundedQuotient
<1>3. b * q <= a /\ a < b * q + b
  BY <1>2, QuotientBounds
<1>4. b * q = 2 * (d * q)
  BY <1>1
<1>5. QED
  BY <1>1, <1>2, <1>3, <1>4

\* The taxable value of an inclusive price of A paise is part of it, and the
\* tax it leaves is the rate's, to half a paisa.
LEMMA InclusiveSplit ==
  ASSUME NEW A \in Nat, NEW r \in Nat, NEW T \in Nat,
         T = RoundedQuotient(A * 10000, 10000 + r)
  PROVE  /\ T <= A
         /\ -(10000 + r) <= 2 * (10000 * (A - T) - r * T)
         /\ 2 * (10000 * (A - T) - r * T) <= 10000 + r
<1>1. PICK n \in Nat, d \in Nat \ {0} : n = A * 10000 /\ d = 10000 + r
  <2>1. A * 10000 \in Nat /\ 10000 + r \in Nat \ {0}
    OBVIOUS
  <2>2. QED
    BY <2>1
<1>2. 2 * (d * T) <= 2 * n + d /\ 2 * n + d < 2 * (d * T) + 2 * d
  <2>1. T = RoundedQuotient(n, d)
    BY <1>1
  <2>2. QED
    BY <2>1, RoundedQuotientBounds
<1>3. d * T = 10000 * T + r * T
  BY <1>1
<1>4. T <= A
  <2> SUFFICES ASSUME A + 1 <= T PROVE FALSE
    OBVIOUS
  <2>1. d * (A + 1) <= d * T
    OBVIOUS
  <2>2. d * (A + 1) = d * A + d
    OBVIOUS
  <2>3. d * A = 10000 * A + r * A
    BY <1>1
  <2>4. r * A \in Nat /\ d * T \in Nat /\ d * A \in Nat
    OBVIOUS
  <2>5. QED
    BY <1>1, <1>2, <2>1, <2>2, <2>3, <2>4
<1>5. r * T \in Nat
  OBVIOUS
<1>6. QED
  BY <1>1, <1>2, <1>3, <1>4, <1>5

\* On top of a price of A paise, the rate's tax to half a paisa.
LEMMA ExclusiveSplit ==
  ASSUME NEW A \in Nat, NEW r \in Nat, NEW X \in Nat,
         X = RoundedQuotient(A * r, 10000)
  PROVE  /\ -(10000 + r) <= 2 * (10000 * X - r * A)
         /\ 2 * (10000 * X - r * A) <= 10000 + r
<1>1. PICK n \in Nat : n = A * r /\ n = r * A
  <2>1. A * r \in Nat /\ A * r = r * A
    OBVIOUS
  <2>2. QED
    BY <2>1
<1>2. 2 * (10000 * X) <= 2 * n + 10000 /\ 2 * n + 10000 < 2 * (10000 * X) + 20000
  <2>1. X = RoundedQuotient(n, 10000)
    BY <1>1
  <2>2. QED
    BY <2>1, RoundedQuotientBounds
<1>3. QED
  BY <1>1, <1>2

\* Halves of the tax, the second with the odd paisa, or the tax in one piece.
LEMMA BreakdownAddsUp ==
  ASSUME NEW t, t.intraState \in BOOLEAN, NEW r \in Nat, t.rateBp = r,
         NEW taxable \in Nat, NEW tax \in Nat,
         -(10000 + r) <= 2 * (10000 * tax - r * taxable),
         2 * (10000 * tax - r * taxable) <= 10000 + r
  PROVE  /\ Breakdown(t, taxable, tax, tax \div 2) \in Tax
         /\ AddsUp(Breakdown(t, taxable, tax, tax \div 2))
<1>1. PICK half \in Nat : half = tax \div 2 /\ 2 * half <= tax /\ tax < 2 * half + 2
  BY QuotientBounds
<1>2. PICK rest \in Nat : rest = tax - half
  BY <1>1
<1>3. taxable + tax \in Nat /\ rest - half \in {0, 1} /\ half + rest = tax
  BY <1>1, <1>2
<1>4. PICK B : B = Breakdown(t, taxable, tax, half)
  OBVIOUS
<1>5. B.taxable = taxable /\ B.total = taxable + tax /\ B.rateBp = r
  BY <1>4 DEF Breakdown
<1>6. /\ B.taxable + B.cgst + B.sgst + B.igst = B.total
      /\ (B.cgst = 0 /\ B.sgst = 0) \/ B.igst = 0
      /\ B.sgst - B.cgst \in {0, 1}
      /\ B \in Tax
  <2>1. CASE t.intraState
    <3>1. B = [taxable |-> taxable, cgst |-> half, sgst |-> rest, igst |-> 0,
               total |-> taxable + tax, rateBp |-> r]
      BY <1>2, <1>4, <2>1 DEF Breakdown
    <3>2. QED
      BY <1>3, <3>1 DEF Tax
  <2>2. CASE ~t.intraState
    <3>1. B = [taxable |-> taxable, cgst |-> 0, sgst |-> 0, igst |-> tax,
               total |-> taxable + tax, rateBp |-> r]
      BY <1>4, <2>2 DEF Breakdown
    <3>2. QED
      BY <1>3, <3>1 DEF Tax
  <2>3. QED
    BY <2>1, <2>2
<1>7. 10000 * (B.total - B.taxable) - B.rateBp * B.taxable = 10000 * tax - r * taxable
  BY <1>5
<1>8. AddsUp(B)
  BY <1>5, <1>6, <1>7 DEF AddsUp
<1>9. QED
  BY <1>1, <1>4, <1>6, <1>8

\* Whatever the price and the rate, inclusive or not, in one state or two.
LEMMA ComputeTaxAddsUp ==
  ASSUME NEW t \in Terms
  PROVE  ComputeTax(t) \in Tax /\ AddsUp(ComputeTax(t))
<1>1. t.inclusive \in BOOLEAN /\ t.intraState \in BOOLEAN
  BY TermsAssumption
<1>2. PICK A \in Nat, r \in Nat : A = t.amount /\ r = t.rateBp
  <2>1. t.amount \in Nat /\ t.rateBp \in Nat
    BY TermsAssumption
  <2>2. QED
    BY <2>1
<1>3. CASE t.inclusive
  <2>1. PICK T \in Nat : T = RoundedQuotient(A * 10000, 10000 + r)
    <3>1. A * 10000 \in Nat /\ 10000 + r \in Nat \ {0}
      OBVIOUS
    <3>2. QED
      BY <3>1, RoundedQuotientBounds
  <2>2. /\ T <= A
        /\ -(10000 + r) <= 2 * (10000 * (A - T) - r * T)
        /\ 2 * (10000 * (A - T) - r * T) <= 10000 + r
    BY <2>1, InclusiveSplit
  <2>3. A - T \in Nat
    BY <2>2
  <2>4. ComputeTax(t) = Breakdown(t, T, A - T, (A - T) \div 2)
    BY <1>2, <1>3, <2>1 DEF ComputeTax, Taxable
  <2>5. QED
    BY <1>1, <1>2, <2>2, <2>3, <2>4, BreakdownAddsUp
<1>4. CASE ~t.inclusive
  <2>1. PICK X \in Nat : X = RoundedQuotient(A * r, 10000)
    <3>1. A * r \in Nat /\ 10000 \in Nat \ {0}
      OBVIOUS
    <3>2. QED
      BY <3>1, RoundedQuotientBounds
  <2>2. /\ -(10000 + r) <= 2 * (10000 * X - r * A)
        /\ 2 * (10000 * X - r * A) <= 10000 + r
    BY <2>1, ExclusiveSplit
  <2>3. ComputeTax(t) = Breakdown(t, A, X, X \div 2)
    BY <1>2, <1>4, <2>1 DEF ComputeTax, Taxable
  <2>4. QED
    BY <1>1, <1>2, <2>2, <2>3, BreakdownAddsUp
<1>5. QED
  BY <1>1, <1>3, <1>4

---------------------------------------------------------------------------
\* What a handler has read and drawn up.
LEMMA ClerkTypes ==
  ASSUME InvoicesTypeOK, NEW k \in Clerk
  PROVE  /\ clerk[k] # Away => clerk[k].draft \in Draft
         /\ clerk[k].phase = "judged" => clerk[k].draft \in Draft
         /\ clerk[k].phase = "numbered" => clerk[k].draft \in Draft /\ clerk[k].seq \in Nat \ {0}
BY DEF InvoicesTypeOK, ClerkState, Away

LEMMA NumberedType ==
  ASSUME NEW draft \in Draft, NEW n \in Nat \ {0}
  PROVE  /\ Numbered(draft, n) \in Document
         /\ NumberOf(Numbered(draft, n)) = <<draft.year, n>>
         /\ Numbered(draft, n).seq = n /\ Numbered(draft, n).year = draft.year
BY DEF Numbered, Draft, Document, NumberOf

\* A deleted booking leaves its documents' numbers as they are.
LEMMA UnlinkedKeeps ==
  ASSUME InvoicesTypeOK, invoice' = Unlinked(invoice)
  PROVE  /\ \A e \in invoice' : \E d \in invoice : e.year = d.year /\ e.seq = d.seq
         /\ \A d \in invoice : \E e \in invoice' : e.year = d.year /\ e.seq = d.seq
         /\ \A e \in invoice' : e \in Document
<1> DEFINE U(d) == IF d.booking = "none" \/ reservation'[d.booking].status \in LiveStatus
                     THEN d ELSE [d EXCEPT !.booking = "none"]
<1>1. ASSUME NEW d \in invoice PROVE U(d) \in Document /\ U(d).year = d.year /\ U(d).seq = d.seq
  <2>1. d \in Document
    BY DEF InvoicesTypeOK
  <2>2. [d EXCEPT !.booking = "none"] \in Document
    BY <2>1 DEF Document
  <2>3. /\ [d EXCEPT !.booking = "none"].year = d.year
        /\ [d EXCEPT !.booking = "none"].seq = d.seq
    BY <2>1 DEF Document
  <2>4. QED
    BY <2>1, <2>2, <2>3
<1>2. invoice' = {U(d) : d \in invoice}
  BY DEF Unlinked, Exists
<1> HIDE DEF U
<1>3. QED
  BY <1>1, <1>2

LEMMA InvoicesTypeStep == InvoicesTypeOK /\ [InvoicesNext]_invoiceVars => InvoicesTypeOK'
<1> SUFFICES ASSUME InvoicesTypeOK, [InvoicesNext]_invoiceVars PROVE InvoicesTypeOK'
  OBVIOUS
<1>0. TypeOK'
  <2>1. [Next]_vars
    BY DEF InvoicesNext, BookingStep, NewYear, Issuing, IssueRead, CreditRead, Judged,
           TakeNextNumber, WriteDocument, Undo, invoiceVars
  <2>2. QED
    BY <2>1, TypeStep DEF InvoicesTypeOK
<1>1. CASE BookingStep
  BY <1>0, <1>1, UnlinkedKeeps DEF BookingStep, InvoicesTypeOK
<1>2. CASE NewYear
  BY <1>0, <1>2, LastYearAssumption DEF NewYear, InvoicesTypeOK
<1>3. ASSUME NEW k \in Clerk, NEW draft \in Draft, Judged(k, draft) PROVE InvoicesTypeOK'
  BY <1>0, <1>3 DEF Judged, InvoicesTypeOK, ClerkState
<1>4. ASSUME NEW k \in Clerk, NEW b \in Booking, NEW t \in Terms, IssueRead(k, b, t)
      PROVE  InvoicesTypeOK'
  <2>1. [kind |-> "invoice", booking |-> b, reverses |-> <<>>, year |-> year,
         tax |-> ComputeTax(t)] \in Draft
    BY ComputeTaxAddsUp DEF Draft, InvoicesTypeOK
  <2>2. QED
    BY <1>3, <1>4, <2>1 DEF IssueRead
<1>5. ASSUME NEW k \in Clerk, NEW d \in invoice, CreditRead(k, d) PROVE InvoicesTypeOK'
  <2>1. [kind |-> "credit_note", booking |-> d.booking, reverses |-> NumberOf(d),
         year |-> year, tax |-> d.tax] \in Draft
    BY DEF Draft, Document, InvoicesTypeOK, NumberOf, Number
  <2>2. QED
    BY <1>3, <1>5, <2>1 DEF CreditRead
<1>6. ASSUME NEW k \in Clerk, TakeNextNumber(k) PROVE InvoicesTypeOK'
  <2>1. clerk[k].draft \in Draft /\ clerk[k].draft.year \in 1..LastYear
    BY <1>6, ClerkTypes DEF TakeNextNumber, Draft
  <2>2. nextSeq[clerk[k].draft.year] \in Nat \ {0}
    BY <2>1 DEF InvoicesTypeOK
  <2>3. QED
    BY <1>0, <1>6, <2>1, <2>2 DEF TakeNextNumber, InvoicesTypeOK, ClerkState
<1>7. ASSUME NEW k \in Clerk, WriteDocument(k) PROVE InvoicesTypeOK'
  <2>1. clerk[k].draft \in Draft /\ clerk[k].seq \in Nat \ {0}
    BY <1>7, ClerkTypes DEF WriteDocument
  <2>2. Numbered(clerk[k].draft, clerk[k].seq) \in Document
    BY <2>1, NumberedType
  <2>3. nextSeq' \in [1..LastYear -> Nat \ {0}]
    <3>1. clerk[k].seq + 1 \in Nat \ {0}
      BY <2>1
    <3>2. QED
      BY <1>7, <2>1, <3>1 DEF WriteDocument, InvoicesTypeOK, Draft
  <2>4. QED
    BY <1>0, <1>7, <2>2, <2>3 DEF WriteDocument, InvoicesTypeOK, ClerkState
<1>8. ASSUME NEW k \in Clerk, Undo(k) PROVE InvoicesTypeOK'
  BY <1>0, <1>8 DEF Undo, InvoicesTypeOK, ClerkState
<1>9. CASE UNCHANGED invoiceVars
  BY <1>0, <1>9 DEF invoiceVars, InvoicesTypeOK
<1>10. QED
  BY <1>1, <1>2, <1>4, <1>5, <1>6, <1>7, <1>8, <1>9 DEF InvoicesNext, Issuing

LEMMA InvoicesTypeInit == InvoicesInit => InvoicesTypeOK
BY RowTypes, IdleType, LastYearAssumption
   DEF InvoicesInit, Init, InvoicesTypeOK, TypeOK, SweepIdle, ClerkState

\* Tables, counters, documents and handlers keep their types; among them the
\* CHECKs that no part of a tax is negative.
THEOREM InvoicesTypeCorrect == InvoicesSpec => []InvoicesTypeOK
BY InvoicesTypeInit, InvoicesTypeStep, PTL DEF InvoicesSpec

---------------------------------------------------------------------------
\* A number in hand is the next of its year, and nobody else has it: without
\* this Unbroken is not inductive.
CountersHeld ==
  /\ \A k \in Clerk : clerk[k].phase = "numbered" =>
       clerk[k].seq = nextSeq[clerk[k].draft.year]
  /\ \A k, l \in Clerk :
       clerk[k].phase = "numbered" /\ clerk[l].phase = "numbered"
         /\ clerk[k].draft.year = clerk[l].draft.year => k = l

\* The inductive invariant of the series.
SeriesInv == InvoicesTypeOK /\ Unbroken /\ CountersHeld

\* One document, numbered by the counter, and the counter moves on.
LEMMA OneMoreIsUnbroken ==
  ASSUME InvoicesTypeOK, InvoicesTypeOK', Unbroken, NEW new \in Document,
         new.seq = nextSeq[new.year],
         invoice' = invoice \cup {new},
         nextSeq' = [nextSeq EXCEPT ![new.year] = new.seq + 1]
  PROVE  Unbroken'
<1>1. /\ new.year \in 1..LastYear /\ new.seq \in Nat \ {0}
      /\ nextSeq'[new.year] = new.seq + 1
      /\ \A y \in 1..LastYear : y # new.year => nextSeq'[y] = nextSeq[y]
      /\ \A y \in 1..LastYear : nextSeq[y] \in Nat \ {0}
  BY DEF InvoicesTypeOK, Document
<1>2. \A d \in invoice : d.year \in 1..LastYear /\ d.seq \in Nat
  BY DEF InvoicesTypeOK, Document
<1>3. ASSUME NEW y \in 1..LastYear, NEW n \in 1..(nextSeq'[y] - 1)
      PROVE  \E d \in invoice' : NumberOf(d) = <<y, n>>
  <2>1. CASE y = new.year /\ n = new.seq
    BY <2>1 DEF NumberOf
  <2>2. CASE ~(y = new.year /\ n = new.seq)
    <3>1. n \in 1..(nextSeq[y] - 1)
      BY <1>1, <2>2
    <3>2. PICK d \in invoice : NumberOf(d) = <<y, n>>
      BY <3>1 DEF Unbroken
    <3>3. QED
      BY <3>2
  <2>3. QED
    BY <2>1, <2>2
<1>4. \A d \in invoice' : d.seq < nextSeq'[d.year]
  BY <1>1, <1>2 DEF Unbroken
<1>5. ASSUME NEW d \in invoice PROVE NumberOf(d) # NumberOf(new)
  BY <1>1, <1>2 DEF Unbroken, NumberOf
<1>6. \A d, e \in invoice' : NumberOf(d) = NumberOf(e) => d = e
  BY <1>5 DEF Unbroken
<1>7. QED
  BY <1>3, <1>4, <1>6 DEF Unbroken, NumberOf

LEMMA SeriesStep == SeriesInv /\ [InvoicesNext]_invoiceVars => SeriesInv'
<1> SUFFICES ASSUME SeriesInv, [InvoicesNext]_invoiceVars PROVE SeriesInv'
  OBVIOUS
<1>0. InvoicesTypeOK /\ InvoicesTypeOK'
  BY InvoicesTypeStep DEF SeriesInv
<1>1. CASE BookingStep
  <2>1. PICK U : /\ invoice' = {U[d] : d \in invoice}
                 /\ \A d \in invoice : U[d].year = d.year /\ U[d].seq = d.seq
    <3> DEFINE F == [d \in invoice |->
                       IF d.booking = "none" \/ reservation'[d.booking].status \in LiveStatus
                         THEN d ELSE [d EXCEPT !.booking = "none"]]
    <3>1. invoice' = {F[d] : d \in invoice}
      BY <1>1 DEF BookingStep, Unlinked, Exists
    <3>2. \A d \in invoice : F[d].year = d.year /\ F[d].seq = d.seq
      BY <1>0 DEF InvoicesTypeOK, Document
    <3> HIDE DEF F
    <3>3. QED
      BY <3>1, <3>2
  <2>2. Unbroken'
    <3>1. \A y \in 1..LastYear : \A n \in 1..(nextSeq[y] - 1) :
            \E d \in invoice' : NumberOf(d) = <<y, n>>
      BY <2>1 DEF SeriesInv, Unbroken, NumberOf
    <3>2. \A d \in invoice' : d.seq < nextSeq[d.year]
      BY <2>1 DEF SeriesInv, Unbroken
    <3>3. \A d, e \in invoice' : NumberOf(d) = NumberOf(e) => d = e
      BY <2>1 DEF SeriesInv, Unbroken, NumberOf
    <3>4. QED
      BY <1>1, <3>1, <3>2, <3>3 DEF BookingStep, Unbroken, NumberOf
  <2>3. CountersHeld'
    BY <1>1 DEF BookingStep, SeriesInv, CountersHeld
  <2>4. QED
    BY <1>0, <2>2, <2>3 DEF SeriesInv
<1>2. CASE UNCHANGED <<nextSeq, invoice>> /\
           \E k \in Clerk :
             /\ clerk'[k].phase # "numbered"
             /\ \A l \in Clerk \ {k} : clerk'[l] = clerk[l]
  <2>1. Unbroken'
    BY <1>2 DEF SeriesInv, Unbroken, NumberOf
  <2>2. CountersHeld'
    BY <1>2 DEF SeriesInv, CountersHeld
  <2>3. QED
    BY <1>0, <2>1, <2>2 DEF SeriesInv
<1>3. ASSUME NEW k \in Clerk, TakeNextNumber(k) PROVE SeriesInv'
  <2>1. Unbroken'
    BY <1>3 DEF TakeNextNumber, SeriesInv, Unbroken, NumberOf
  <2>2. /\ clerk'[k] = [phase |-> "numbered", draft |-> clerk[k].draft,
                        seq |-> nextSeq[clerk[k].draft.year]]
        /\ \A l \in Clerk \ {k} : clerk'[l] = clerk[l]
        /\ \A l \in Clerk : clerk[l].phase = "numbered" =>
             clerk[l].draft.year # clerk[k].draft.year
        /\ nextSeq' = nextSeq
    BY <1>0, <1>3 DEF TakeNextNumber, CounterFree, InvoicesTypeOK
  <2>3. CountersHeld'
    BY <2>2 DEF SeriesInv, CountersHeld
  <2>4. QED
    BY <1>0, <2>1, <2>3 DEF SeriesInv
<1>4. ASSUME NEW k \in Clerk, WriteDocument(k) PROVE SeriesInv'
  <2>1. PICK new \in Document : /\ new = Numbered(clerk[k].draft, clerk[k].seq)
                                 /\ new.year = clerk[k].draft.year
                                 /\ new.seq = clerk[k].seq
    BY <1>0, <1>4, ClerkTypes, NumberedType DEF WriteDocument
  <2>2. clerk[k].phase = "numbered" /\ new.seq = nextSeq[new.year]
    BY <1>4, <2>1 DEF WriteDocument, SeriesInv, CountersHeld
  <2>3. /\ invoice' = invoice \cup {new}
        /\ nextSeq' = [nextSeq EXCEPT ![new.year] = new.seq + 1]
        /\ clerk' = [clerk EXCEPT ![k] = Away]
    BY <1>4, <2>1 DEF WriteDocument
  <2>4. Unbroken'
    BY <1>0, <2>2, <2>3, OneMoreIsUnbroken DEF SeriesInv
  <2>5. CountersHeld'
    <3>1. /\ clerk'[k].phase = "away"
          /\ \A l \in Clerk \ {k} : clerk'[l] = clerk[l]
      BY <1>0, <2>3 DEF InvoicesTypeOK, Away
    <3>2. ASSUME NEW l \in Clerk, clerk'[l].phase = "numbered"
          PROVE  /\ clerk'[l] = clerk[l] /\ clerk[l].draft.year # new.year
                 /\ nextSeq'[clerk[l].draft.year] = nextSeq[clerk[l].draft.year]
      <4>1. l # k /\ clerk'[l] = clerk[l]
        BY <3>1, <3>2
      <4>2. clerk[l].draft.year # new.year
        BY <2>1, <2>2, <3>2, <4>1 DEF SeriesInv, CountersHeld
      <4>3. clerk[l].draft.year \in 1..LastYear
        BY <1>0, <3>2, <4>1, ClerkTypes DEF Draft
      <4>4. QED
        BY <1>0, <2>3, <4>1, <4>2, <4>3 DEF InvoicesTypeOK
    <3>3. QED
      BY <3>2 DEF SeriesInv, CountersHeld
  <2>6. QED
    BY <1>0, <2>4, <2>5 DEF SeriesInv
<1>5. ASSUME NEW k \in Clerk, NEW draft, Judged(k, draft) PROVE SeriesInv'
  BY <1>0, <1>2, <1>5 DEF Judged, InvoicesTypeOK
<1>6. ASSUME NEW k \in Clerk, Undo(k) PROVE SeriesInv'
  BY <1>0, <1>2, <1>6 DEF Undo, Away, InvoicesTypeOK
<1>7. CASE UNCHANGED <<nextSeq, invoice, clerk>>
  <2>1. Unbroken' /\ CountersHeld'
    BY <1>7 DEF SeriesInv, Unbroken, CountersHeld, NumberOf
  <2>2. QED
    BY <1>0, <2>1 DEF SeriesInv
<1>8. QED
  BY <1>1, <1>3, <1>4, <1>5, <1>6, <1>7
     DEF InvoicesNext, Issuing, IssueRead, CreditRead, NewYear, invoiceVars

\* The series of every year has no gap and no number twice, whatever number of
\* handlers issue at once and wherever any of them fails.
THEOREM SeriesIsUnbroken == InvoicesSpec => []Unbroken
<1>1. InvoicesInit => SeriesInv
  <2> SUFFICES ASSUME InvoicesInit PROVE SeriesInv
    OBVIOUS
  <2>1. Unbroken /\ CountersHeld
    BY DEF InvoicesInit, Unbroken, CountersHeld, Away
  <2>2. QED
    BY <2>1, InvoicesTypeInit DEF SeriesInv
<1>2. SeriesInv => Unbroken
  BY DEF SeriesInv
<1>3. QED
  BY <1>1, <1>2, SeriesStep, PTL DEF InvoicesSpec

---------------------------------------------------------------------------
\* What a document in hand rests on, and what the issued ones keep: a credit
\* note copies an invoice that is there.
Founded(x) ==
  /\ AddsUp(x.tax)
  /\ x.kind = "invoice" => x.reverses = <<>>
  /\ x.kind = "credit_note" =>
       \E e \in invoice : e.kind = "invoice" /\ NumberOf(e) = x.reverses /\ e.tax = x.tax

DraftsFounded == \A k \in Clerk : clerk[k] # Away => Founded(clerk[k].draft)
DocumentsFounded == \A d \in invoice : Founded(d)

\* The inductive invariant of what the documents say.
TaxInv == InvoicesTypeOK /\ DraftsFounded /\ DocumentsFounded /\ TaxedOnce

\* Documents only lose the link to their booking.
LEMMA UnlinkedDocuments ==
  ASSUME InvoicesTypeOK, BookingStep
  PROVE  \E U \in [invoice -> invoice'] :
           /\ invoice' = {U[d] : d \in invoice}
           /\ \A d \in invoice : U[d] = d \/ U[d] = [d EXCEPT !.booking = "none"]
<1> DEFINE F == [d \in invoice |->
                   IF d.booking = "none" \/ reservation'[d.booking].status \in LiveStatus
                     THEN d ELSE [d EXCEPT !.booking = "none"]]
<1>1. invoice' = {F[d] : d \in invoice}
  BY DEF BookingStep, Unlinked, Exists
<1>2. \A d \in invoice : F[d] = d \/ F[d] = [d EXCEPT !.booking = "none"]
  OBVIOUS
<1>3. F \in [invoice -> invoice']
  BY <1>1
<1> HIDE DEF F
<1>4. QED
  BY <1>1, <1>2, <1>3

\* The columns that unlinking leaves alone.
LEMMA UnlinkedColumns ==
  ASSUME NEW d \in Document, NEW e, e = d \/ e = [d EXCEPT !.booking = "none"]
  PROVE  /\ e.kind = d.kind /\ e.reverses = d.reverses /\ e.tax = d.tax
         /\ e.year = d.year /\ e.seq = d.seq
         /\ NumberOf(e) = NumberOf(d)
         /\ e.booking # "none" => e = d
BY DEF Document, NumberOf

\* What rests on the invoices rests on them as long as they stay.
LEMMA FoundedStays ==
  ASSUME NEW x, Founded(x),
         \A d \in invoice : \E e \in invoice' :
           e.kind = d.kind /\ e.tax = d.tax /\ NumberOf(e) = NumberOf(d)
  PROVE  Founded(x)'
BY DEF Founded, AddsUp, NumberOf

LEMMA TaxStep == TaxInv /\ [InvoicesNext]_invoiceVars => TaxInv'
<1> SUFFICES ASSUME TaxInv, [InvoicesNext]_invoiceVars PROVE TaxInv'
  OBVIOUS
<1>0. InvoicesTypeOK /\ InvoicesTypeOK'
  BY InvoicesTypeStep DEF TaxInv
<1>1. CASE BookingStep
  <2>1. PICK U \in [invoice -> invoice'] :
          /\ invoice' = {U[d] : d \in invoice}
          /\ \A d \in invoice : U[d] = d \/ U[d] = [d EXCEPT !.booking = "none"]
    BY <1>0, <1>1, UnlinkedDocuments
  <2>2. \A d \in invoice :
          /\ U[d].kind = d.kind /\ U[d].reverses = d.reverses /\ U[d].tax = d.tax
          /\ NumberOf(U[d]) = NumberOf(d)
          /\ U[d].booking # "none" => U[d] = d
    BY <1>0, <2>1, UnlinkedColumns DEF InvoicesTypeOK
  <2>3. \A d \in invoice : \E e \in invoice' :
          e.kind = d.kind /\ e.tax = d.tax /\ NumberOf(e) = NumberOf(d)
    BY <2>1, <2>2
  <2>4. DraftsFounded'
    BY <1>1, <2>3, FoundedStays DEF BookingStep, TaxInv, DraftsFounded
  <2>5. ASSUME NEW d \in invoice PROVE Founded(U[d])'
    <3>1. Founded(d)'
      BY <2>3, FoundedStays DEF TaxInv, DocumentsFounded
    <3>2. QED
      BY <2>2, <3>1 DEF Founded, AddsUp, NumberOf
  <2>6. DocumentsFounded'
    BY <2>1, <2>5 DEF DocumentsFounded
  <2>7. TaxedOnce'
    <3>1. ASSUME NEW d \in invoice, NEW e \in invoice, U[d].kind = "invoice",
                 U[e].kind = "invoice", U[d].booking = U[e].booking, U[d].booking # "none"
          PROVE  U[d] = U[e]
      BY <2>2, <3>1 DEF TaxInv, TaxedOnce
    <3>2. ASSUME NEW d \in invoice, NEW e \in invoice, U[d].reverses # <<>>,
                 U[d].reverses = U[e].reverses
          PROVE  U[d] = U[e]
      BY <2>2, <3>2 DEF TaxInv, TaxedOnce
    <3>3. ASSUME NEW d \in invoice, U[d].kind = "credit_note"
          PROVE  \E e \in invoice' :
                   e.kind = "invoice" /\ NumberOf(e) = U[d].reverses /\ e.tax = U[d].tax
      BY <2>2, <2>3, <3>3 DEF TaxInv, TaxedOnce
    <3>4. \A x \in invoice' : \E d \in invoice : x = U[d]
      BY <2>1
    <3>5. \A x, y \in invoice' :
            x.kind = "invoice" /\ y.kind = "invoice" /\ x.booking = y.booking
              /\ x.booking # "none" => x = y
      BY <3>1, <3>4
    <3>6. \A x, y \in invoice' : x.reverses # <<>> /\ x.reverses = y.reverses => x = y
      BY <3>2, <3>4
    <3>7. \A x \in invoice' : x.kind = "credit_note" =>
            \E e \in invoice' : e.kind = "invoice" /\ NumberOf(e) = x.reverses /\ e.tax = x.tax
      BY <3>3, <3>4
    <3>8. QED
      BY <3>5, <3>6, <3>7 DEF TaxedOnce, NumberOf
  <2>8. QED
    BY <1>0, <2>4, <2>6, <2>7 DEF TaxInv
<1>2. ASSUME NEW k \in Clerk, NEW draft, Judged(k, draft), Founded(draft) PROVE TaxInv'
  <2>1. invoice' = invoice /\ clerk'[k].draft = draft /\ \A l \in Clerk \ {k} : clerk'[l] = clerk[l]
    BY <1>0, <1>2 DEF Judged, InvoicesTypeOK
  <2>2. DraftsFounded'
    BY <1>2, <2>1 DEF TaxInv, DraftsFounded, Founded, AddsUp, NumberOf
  <2>3. DocumentsFounded' /\ TaxedOnce'
    BY <2>1 DEF TaxInv, DocumentsFounded, TaxedOnce, Founded, AddsUp, NumberOf
  <2>4. QED
    BY <1>0, <2>2, <2>3 DEF TaxInv
<1>3. ASSUME NEW k \in Clerk, NEW b \in Booking, NEW t \in Terms, IssueRead(k, b, t)
      PROVE  TaxInv'
  <2>1. Founded([kind |-> "invoice", booking |-> b, reverses |-> <<>>, year |-> year,
                 tax |-> ComputeTax(t)])
    BY ComputeTaxAddsUp DEF Founded
  <2>2. QED
    BY <1>2, <1>3, <2>1 DEF IssueRead
<1>4. ASSUME NEW k \in Clerk, NEW d \in invoice, CreditRead(k, d) PROVE TaxInv'
  <2>1. d.kind = "invoice" /\ Founded(d)
    BY <1>4 DEF CreditRead, TaxInv, DocumentsFounded
  <2>2. Founded([kind |-> "credit_note", booking |-> d.booking, reverses |-> NumberOf(d),
                 year |-> year, tax |-> d.tax])
    BY <2>1 DEF Founded
  <2>3. QED
    BY <1>2, <1>4, <2>2 DEF CreditRead
<1>5. CASE /\ UNCHANGED invoice
           /\ \A k \in Clerk : clerk'[k] = Away \/ (clerk[k] # Away /\ clerk'[k].draft = clerk[k].draft)
  <2>1. DraftsFounded'
    BY <1>5 DEF TaxInv, DraftsFounded, Founded, AddsUp, NumberOf
  <2>2. DocumentsFounded' /\ TaxedOnce'
    BY <1>5 DEF TaxInv, DocumentsFounded, TaxedOnce, Founded, AddsUp, NumberOf
  <2>3. QED
    BY <1>0, <2>1, <2>2 DEF TaxInv
<1>6. ASSUME NEW k \in Clerk, TakeNextNumber(k) PROVE TaxInv'
  BY <1>0, <1>5, <1>6 DEF TakeNextNumber, InvoicesTypeOK, Away
<1>7. ASSUME NEW k \in Clerk, Undo(k) PROVE TaxInv'
  BY <1>0, <1>5, <1>7 DEF Undo, InvoicesTypeOK, Away
<1>8. ASSUME NEW k \in Clerk, WriteDocument(k) PROVE TaxInv'
  <2> DEFINE draft == clerk[k].draft
  <2>1. PICK new \in Document :
          /\ invoice' = invoice \cup {new}
          /\ new = Numbered(draft, clerk[k].seq)
    BY <1>0, <1>8, ClerkTypes, NumberedType DEF WriteDocument
  <2>2. /\ new.kind = draft.kind /\ new.booking = draft.booking
        /\ new.reverses = draft.reverses /\ new.tax = draft.tax
    BY <2>1 DEF Numbered
  <2>3. Founded(draft) /\ Admitted(draft) /\ draft \in Draft
    BY <1>0, <1>8, ClerkTypes DEF WriteDocument, TaxInv, DraftsFounded, Away
  <2> HIDE DEF draft
  <2>4. \A d \in invoice : \E e \in invoice' :
          e.kind = d.kind /\ e.tax = d.tax /\ NumberOf(e) = NumberOf(d)
    BY <2>1
  <2>5. DraftsFounded'
    BY <1>0, <1>8, <2>4, FoundedStays DEF WriteDocument, TaxInv, DraftsFounded, InvoicesTypeOK
  <2>6. Founded(new)
    BY <2>2, <2>3 DEF Founded
  <2>7. DocumentsFounded'
    BY <2>1, <2>4, <2>6, FoundedStays DEF TaxInv, DocumentsFounded
  <2>8. ASSUME NEW d \in invoice, new.kind = "invoice", d.kind = "invoice",
               d.booking = new.booking, new.booking # "none"
        PROVE  FALSE
    BY <2>2, <2>3, <2>8 DEF Admitted
  <2>9. ASSUME NEW d \in invoice, new.reverses # <<>>, d.reverses = new.reverses
        PROVE  FALSE
    <3>1. new.kind \in {"invoice", "credit_note"}
      BY DEF Document
    <3>2. QED
      BY <2>2, <2>3, <2>6, <2>9, <3>1 DEF Admitted, Founded
  <2>10. TaxedOnce'
    <3>1. \A d, e \in invoice' :
            d.kind = "invoice" /\ e.kind = "invoice" /\ d.booking = e.booking
              /\ d.booking # "none" => d = e
      BY <2>1, <2>8 DEF TaxInv, TaxedOnce
    <3>2. \A d, e \in invoice' : d.reverses # <<>> /\ d.reverses = e.reverses => d = e
      BY <2>1, <2>9 DEF TaxInv, TaxedOnce
    <3>3. \A d \in invoice' : d.kind = "credit_note" =>
            \E e \in invoice' : e.kind = "invoice" /\ NumberOf(e) = d.reverses /\ e.tax = d.tax
      BY <2>7 DEF DocumentsFounded, Founded, NumberOf
    <3>4. QED
      BY <3>1, <3>2, <3>3 DEF TaxedOnce, NumberOf
  <2>11. QED
    BY <1>0, <2>5, <2>7, <2>10 DEF TaxInv
<1>9. CASE UNCHANGED <<invoice, clerk>>
  BY <1>0, <1>9 DEF TaxInv, DraftsFounded, DocumentsFounded, TaxedOnce, Founded, AddsUp, NumberOf
<1>10. QED
  BY <1>1, <1>3, <1>4, <1>6, <1>7, <1>8, <1>9
     DEF InvoicesNext, Issuing, NewYear, invoiceVars

LEMMA TaxInit == InvoicesInit => TaxInv
BY InvoicesTypeInit
   DEF InvoicesInit, TaxInv, DraftsFounded, DocumentsFounded, TaxedOnce

\* No booking has two invoices and no invoice two credit notes, and a credit
\* note takes back exactly what its invoice charged.
THEOREM NothingIsTaxedTwice == InvoicesSpec => []TaxedOnce
<1>1. TaxInv => TaxedOnce
  BY DEF TaxInv
<1>2. QED
  BY TaxInit, TaxStep, <1>1, PTL DEF InvoicesSpec

\* Every document drawn up adds up, for every price and every rate.
THEOREM EveryDocumentAddsUp == InvoicesSpec => []DocumentsAddUp
<1>1. TaxInv => DocumentsAddUp
  BY DEF TaxInv, DraftsFounded, DocumentsAddUp, Founded
<1>2. QED
  BY TaxInit, TaxStep, <1>1, PTL DEF InvoicesSpec

---------------------------------------------------------------------------
\* An issued document stays, whoever deletes its booking: only the link to the
\* booking can go.
THEOREM IssuedDocumentsStay == InvoicesSpec => DocumentsStay
<1> DEFINE Stay == \A d \in invoice : \E e \in invoice' :
                     [e EXCEPT !.booking = d.booking] = d /\ e.booking \in {d.booking, "none"}
<1>1. InvoicesTypeOK /\ [InvoicesNext]_invoiceVars => [Stay]_invoiceVars
  <2> SUFFICES ASSUME InvoicesTypeOK, InvoicesNext, NEW d \in invoice
               PROVE  \E e \in invoice' : [e EXCEPT !.booking = d.booking] = d
                                         /\ e.booking \in {d.booking, "none"}
    OBVIOUS
  <2>0. d \in Document
    BY DEF InvoicesTypeOK
  <2>1. [d EXCEPT !.booking = d.booking] = d
    BY <2>0 DEF Document
  <2>2. ASSUME NEW e, e = [d EXCEPT !.booking = "none"]
        PROVE  [e EXCEPT !.booking = d.booking] = d /\ e.booking = "none"
    BY <2>0, <2>2 DEF Document
  <2>3. CASE BookingStep
    <3>1. PICK U \in [invoice -> invoice'] :
            U[d] = d \/ U[d] = [d EXCEPT !.booking = "none"]
      BY <2>3, UnlinkedDocuments
    <3>2. QED
      BY <2>1, <2>2, <3>1
  <2>4. CASE invoice \subseteq invoice'
    BY <2>1, <2>4
  <2>5. QED
    BY <2>3, <2>4
       DEF InvoicesNext, NewYear, Issuing, IssueRead, CreditRead, Judged, TakeNextNumber,
           WriteDocument, Undo
<1>2. QED
  BY <1>1, InvoicesTypeInit, InvoicesTypeStep, PTL DEF InvoicesSpec, DocumentsStay

\* Issuing leaves the bookings alone, so what is proved of Reservations holds
\* here as well: NeverDoubleBooked, RowsAlwaysPassChecks, ImplementsMarket.
THEOREM InvoicesImplementReservations == InvoicesSpec => Spec
<1>1. InvoicesInit => Init
  BY DEF InvoicesInit
<1>2. [InvoicesNext]_invoiceVars => [Next]_vars
  BY DEF InvoicesNext, BookingStep, NewYear, Issuing, IssueRead, CreditRead, Judged,
         TakeNextNumber, WriteDocument, Undo, invoiceVars
<1>3. QED
  BY <1>1, <1>2, PTL DEF InvoicesSpec, Spec
===========================================================================
