----------------------------- MODULE Customers -----------------------------
(***************************************************************************)
(* The people who book: the customer rows, which the desk and the public   *)
(* page share, and the one-time codes by which a visitor of the public     *)
(* page proves a number and gets a session.                                *)
(*                                                                         *)
(* A visitor's request is a transaction of its own.  It reads (the latest  *)
(* challenge of the number, or the challenge to be checked), and writes    *)
(* later; what it writes is seen when it commits.  The row of a challenge  *)
(* is locked from the counting of the attempt to the commit, so all of     *)
(* that is one step.                                                       *)
(***************************************************************************)
EXTENDS Integers, FiniteSets

CONSTANTS
  Phone,        \* numbers of customers
  Challenge,    \* ids of challenges
  Visitor,      \* requests of visitors that can be in flight at one time
  MaxAttempts,  \* MAX_ATTEMPTS
  Curated,      \* a name the venue gave
  Typed         \* a name a visitor typed

ASSUME CustomersAssumption ==
  IsFiniteSet(Challenge) /\ IsFiniteSet(Visitor) /\ MaxAttempts \in Nat

VARIABLES
  customer,   \* the name a number's customer row has, or "none"
  challenge,  \* the challenges
  visitor,    \* the visitors' requests
  sessions,   \* for checking: sessions a challenge made
  together    \* for checking: the most requests in flight at one time, for a number or a challenge

customerVars == <<customer, challenge, visitor, sessions, together>>

---------------------------------------------------------------------------
\* The rows.  A name equal to the row's own number is one nobody gave.

Name == {Curated, Typed} \cup Phone
NoCustomer == "none"

NoChallenge == [phone |-> "none"]
ChallengeRow == [phone : Phone, recent : BOOLEAN, expired : BOOLEAN,
                 attempts : Nat, consumed : BOOLEAN]
Issued(c) == challenge[c] # NoChallenge

NoVisit == [phase |-> "idle"]
Visit ==
       [phase : {"asking"}, phone : Phone]
  \cup [phase : {"checking"}, challenge : Challenge]

Away(v) == visitor[v].phase = "idle"

CustomerInit ==
  /\ customer = [p \in Phone |-> NoCustomer]
  /\ challenge = [c \in Challenge |-> NoChallenge]
  /\ visitor = [v \in Visitor |-> NoVisit]
  /\ sessions = [c \in Challenge |-> 0]
  /\ together = [x \in Phone \cup Challenge |-> 0]

\* How many requests are in flight about a number or a challenge.
About(x) == {v \in Visitor :
  \/ visitor[v].phase = "asking" /\ visitor[v].phone = x
  \/ visitor[v].phase = "checking" /\ visitor[v].challenge = x}

Enters(v, visit, x) ==
  /\ visitor' = [visitor EXCEPT ![v] = visit]
  /\ together' = [together EXCEPT ![x] = IF Cardinality(About(x)) + 1 > @ THEN Cardinality(About(x)) + 1 ELSE @]

Leaves(v) ==
  /\ visitor' = [visitor EXCEPT ![v] = NoVisit]
  /\ UNCHANGED together

---------------------------------------------------------------------------
\* Asking for a code.

\* The latest challenge of the number is within the cooldown.
Cooling(p) == \E c \in Challenge : Issued(c) /\ challenge[c].phone = p /\ challenge[c].recent

\* request up to its INSERT.
AskJudge(v, p) ==
  /\ Away(v) /\ ~Cooling(p)
  /\ Enters(v, [phase |-> "asking", phone |-> p], p)
  /\ UNCHANGED <<customer, challenge, sessions>>

\* The INSERT, the message and the commit.
AskCommit(v, c) ==
  /\ visitor[v].phase = "asking"
  /\ ~Issued(c)
  /\ challenge' = [challenge EXCEPT ![c] =
       [phone |-> visitor[v].phone, recent |-> TRUE, expired |-> FALSE, attempts |-> 0, consumed |-> FALSE]]
  /\ Leaves(v)
  /\ UNCHANGED <<customer, sessions>>

CoolsDown(c) ==
  /\ Issued(c) /\ challenge[c].recent
  /\ challenge' = [challenge EXCEPT ![c].recent = FALSE]
  /\ UNCHANGED <<customer, visitor, sessions, together>>

ChallengeExpires(c) ==
  /\ Issued(c) /\ ~challenge[c].recent /\ ~challenge[c].expired
  /\ challenge' = [challenge EXCEPT ![c].expired = TRUE]
  /\ UNCHANGED <<customer, visitor, sessions, together>>

---------------------------------------------------------------------------
\* Checking a code.

\* Mutant of Unspent: a code is good until it expires.
UnspentOrNot(c) == ~challenge[c].expired

Unspent(c) == ~challenge[c].expired /\ ~challenge[c].consumed

\* verify up to the counting of the attempt.
CheckJudge(v, c) ==
  /\ Away(v)
  /\ Issued(c) /\ Unspent(c) /\ challenge[c].attempts < MaxAttempts
  /\ Enters(v, [phase |-> "checking", challenge |-> c], c)
  /\ UNCHANGED <<customer, challenge, sessions>>

\* The upsert of the customer: a visitor only fills in a name nobody gave.
NameAfter(p, typed) ==
  IF customer[p] \in {NoCustomer, p}
    THEN IF typed THEN Typed ELSE p
    ELSE customer[p]

\* The code is right: the attempt is counted, the challenge spent, the
\* customer made or found, and the session signed.  The UPDATE asks nothing
\* of what was read: two checks at once may count past MaxAttempts.
CheckRight(v, typed) ==
  /\ visitor[v].phase = "checking"
  /\ LET c == visitor[v].challenge
         p == challenge[c].phone
     IN  /\ challenge' = [challenge EXCEPT ![c].attempts = @ + 1, ![c].consumed = TRUE]
         /\ customer' = [customer EXCEPT ![p] = NameAfter(p, typed)]
         /\ sessions' = [sessions EXCEPT ![c] = @ + 1]
  /\ Leaves(v)

\* The code is wrong, or anything else fails, also after a code was sent:
\* the exception rolls back whatever was written, the counted attempt too.
VisitFails(v) ==
  /\ ~Away(v)
  /\ Leaves(v)
  /\ UNCHANGED <<customer, challenge, sessions>>

---------------------------------------------------------------------------
\* The desk.

\* findOrCreate: a booking at the desk names its customer, new or not.
FindOrCreate(p) ==
  /\ customer' = [customer EXCEPT ![p] = Curated]
  /\ UNCHANGED <<challenge, visitor, sessions, together>>

\* create: refused when the number is taken.
CreateCustomer(p) ==
  /\ customer[p] = NoCustomer
  /\ customer' = [customer EXCEPT ![p] = Curated]
  /\ UNCHANGED <<challenge, visitor, sessions, together>>

\* update with another number: refused when that is taken.  The name stays,
\* be it the old number.
UpdatePhone(p, q) ==
  /\ customer[p] # NoCustomer /\ customer[q] = NoCustomer
  /\ customer' = [customer EXCEPT ![p] = NoCustomer, ![q] = customer[p]]
  /\ UNCHANGED <<challenge, visitor, sessions, together>>

CustomerNext ==
  \/ \E v \in Visitor :
       \/ \E p \in Phone : AskJudge(v, p)
       \/ \E c \in Challenge : AskCommit(v, c) \/ CheckJudge(v, c)
       \/ \E typed \in BOOLEAN : CheckRight(v, typed)
       \/ VisitFails(v)
  \/ \E c \in Challenge : CoolsDown(c) \/ ChallengeExpires(c)
  \/ \E p \in Phone :
       \/ FindOrCreate(p)
       \/ CreateCustomer(p)
       \/ \E q \in Phone \ {p} : UpdatePhone(p, q)

CustomerSpec == CustomerInit /\ [][CustomerNext]_customerVars

---------------------------------------------------------------------------
\* Properties.

CustomersTypeOK ==
  /\ customer \in [Phone -> Name \cup {NoCustomer}]
  /\ challenge \in [Challenge -> ChallengeRow \cup {NoChallenge}]
  /\ visitor \in [Visitor -> Visit \cup {NoVisit}]
  /\ sessions \in [Challenge -> Nat]
  /\ together \in [Phone \cup Challenge -> 0..Cardinality(Visitor)]

\* A code signs in once.  Nothing in verify's writes says so: two requests
\* that read the challenge before either wrote both sign in, so the count is
\* bounded by how many were ever checking it at one time, and with one at a
\* time (a code typed in once and sent again) it is one.
OneSessionPerCode == \A c \in Challenge : sessions[c] <= together[c]

\* The cooldown: of the codes sent to a number within it there are no more
\* than were being asked for at one time, whatever was spent or failed since.
CodesAreRare ==
  \A p \in Phone :
    Cardinality({c \in Challenge : Issued(c) /\ challenge[c].phone = p /\ challenge[c].recent}) <= together[p]

\* A number is proved no more often than codes were sent to it and checked:
\* both of the above.
CodesHold == OneSessionPerCode /\ CodesAreRare
=============================================================================
