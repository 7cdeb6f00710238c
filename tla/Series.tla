------------------------------- MODULE Series -------------------------------
(***************************************************************************)
(* Weekly bookings: the rule (booking_series), the bookings it is turned   *)
(* into (rows of reservation with series_id and occurrence_date), the      *)
(* owner's commands on them and the nightly job of each replica that rolls *)
(* every active series forward under a Postgres advisory lock.             *)
(*                                                                         *)
(* All series here are on one court and at one hour, so a date is sold     *)
(* once; series elsewhere never meet these.  A date is a number, its       *)
(* weekday the number modulo DaysInWeek.                                   *)
(*                                                                         *)
(* A request, and the job's work on one series, is one READ COMMITTED      *)
(* transaction.  materialise() reads the rule, then the bookings there     *)
(* are, then inserts one date after the other: these are steps, and what   *)
(* it inserted is visible to nobody until it commits.  A failed INSERT     *)
(* aborts the whole transaction, the catch around it notwithstanding: the  *)
(* next statement is refused.  The other commands write rows that stay     *)
(* locked until their commit, so each is one step.                         *)
(***************************************************************************)
EXTENDS Integers, FiniteSets, FiniteSetsExt

CONSTANTS
  SeriesId,     \* series ids
  LastDate,     \* the dates are 1 .. LastDate; the last stands for all later ones
  DaysInWeek,   \* 7
  Cap,          \* most dates one call works out (520)
  HorizonWeeks, \* DEFAULT_HORIZON_WEEKS (12)
  Terms,        \* the [day, from, to] a series may be created with
  Wanted,       \* the dates on which others may want the court at that hour
  MayClose,     \* the dates on which it may be closed at that hour
  Clerk,        \* the owner's requests that can be in flight at one time
  Replica,      \* the processes that run the nightly job
  PoolSize,     \* connections in a replica's pool (DB_POOL_MAX)
  MaxDepth,     \* bound: how often one session may hold the lock
  MaxMishaps    \* bound: crashes and failed statements of a behaviour

ASSUME DatesAssumption == LastDate \in Nat \ {0} /\ DaysInWeek \in Nat \ {0}
ASSUME TermsAssumption ==
  Terms \subseteq [day : 0 .. DaysInWeek - 1, from : 1 .. LastDate, to : 0 .. LastDate]
ASSUME InputsAssumption == Wanted \subseteq 1 .. LastDate /\ MayClose \subseteq 1 .. LastDate
ASSUME BoundsAssumption == Cap \in Nat /\ HorizonWeeks \in Nat /\ MaxMishaps \in Nat
ASSUME PoolAssumption == PoolSize \in Nat \ {0} /\ MaxDepth \in Nat \ {0}
ASSUME WorkersAssumption == Clerk \cap Replica = {}

VARIABLES
  today,      \* the venue's date
  rule,       \* the booking_series rows
  occurrence, \* per series and date, the status of its booking
  other,      \* dates on which somebody else has the court at that hour
  closed,     \* dates on which the court is not open at that hour
  work,       \* the materialise() calls in flight
  job,        \* per replica: is the nightly job running, and what it has left
  lock,       \* the advisory lock: the session that holds it and how often
  mishaps,    \* how many of MaxMishaps have happened
  excused     \* for checking: per series, the dates a committed call skipped as
              \* closed, and those that have been after the series' end

vars == <<today, rule, occurrence, other, closed, work, job, lock, mishaps, excused>>

---------------------------------------------------------------------------
\* Rules and dates.

Date == 1 .. LastDate
NoDate == 0   \* SQL NULL
Horizon == LastDate + DaysInWeek * HorizonWeeks
Worker == Clerk \cup Replica
Session == Replica \X (1 .. PoolSize)
Weekday(d) == d % DaysInWeek

Rule == [status : {"active", "ended"}, dayOfWeek : 0 .. DaysInWeek - 1, startsOn : Date,
         endsOn : Date \cup {NoDate}, through : 0 .. Horizon]
NoRule == [status |-> "unused", dayOfWeek |-> 0, startsOn |-> 1, endsOn |-> NoDate, through |-> NoDate]

\* The last date a rule is worked out to.
Limit(r, through) == IF r.endsOn # NoDate /\ r.endsOn < through THEN r.endsOn ELSE through

\* The first date of the rule: such a weekday, not before the series starts.
First(r) == r.startsOn + ((r.dayOfWeek - Weekday(r.startsOn) + DaysInWeek) % DaysInWeek)

\* Mutant of OccurrenceDates: the last date left out.
DatesBeforeLimit(r, through) ==
  {d \in Date : /\ First(r) <= d /\ d < Limit(r, through)
                /\ (d - First(r)) % DaysInWeek = 0
                /\ (d - First(r)) \div DaysInWeek < Cap}

\* occurrenceDates: from the first date on, in steps of a week.
OccurrenceDates(r, through) ==
  {d \in Date : /\ First(r) <= d /\ d <= Limit(r, through)
                /\ (d - First(r)) % DaysInWeek = 0
                /\ (d - First(r)) \div DaysInWeek < Cap}

HorizonFrom(weeks) == today + DaysInWeek * weeks

---------------------------------------------------------------------------
\* Bookings.

Status == {"none", "confirmed", "completed", "no_show", "cancelled"}
Exists(s) == rule[s].status # "unused"

\* reservation_series_occurrence_key: the rows that count against a second one.
Live(s, d) == occurrence[s][d] \notin {"none", "cancelled"}
\* reservation_no_overlap: the rows that keep the hour.
Occupies(s, d) == occurrence[s][d] \in {"confirmed", "completed"}

\* The hour of date d is sold.
Sold(d) == d \in other \/ \E s \in SeriesId : Occupies(s, d)

Idle == [phase |-> "idle"]
Inserted(w) == IF work[w].phase = "insert" THEN work[w].inserted ELSE {}

\* Somebody's open transaction has inserted a booking for d: a second INSERT
\* waits for that transaction to end.
Awaited(d) == \E w \in Worker : d \in Inserted(w)

Materialising ==
       [phase : {"read"}, series : SeriesId, new : Rule \cup {NoRule}, through : 0 .. Horizon,
        dates : SUBSET Date]
  \cup [phase : {"insert"}, series : SeriesId, new : Rule \cup {NoRule}, through : 0 .. Horizon,
        todo : SUBSET Date, inserted : SUBSET Date, shut : SUBSET Date]

NoJob == [phase |-> "idle", todo |-> {}]
NoLock == [session |-> <<>>, depth |-> 0]

Init ==
  /\ today = 1
  /\ rule = [s \in SeriesId |-> NoRule]
  /\ occurrence = [s \in SeriesId |-> [d \in Date |-> "none"]]
  /\ other = {}
  /\ closed \in SUBSET MayClose
  /\ work = [w \in Worker |-> Idle]
  /\ job = [r \in Replica |-> NoJob]
  /\ lock = NoLock
  /\ mishaps = 0
  /\ excused = [s \in SeriesId |-> {}]

---------------------------------------------------------------------------
\* materialise().

Claimed(s) == \E w \in Worker : work[w] # Idle /\ work[w].series = s /\ work[w].new # NoRule

\* The rule is read and its dates are worked out.
Begin(w, s, r, new, through) ==
  /\ work[w] = Idle
  /\ work' = [work EXCEPT ![w] = [phase |-> "read", series |-> s, new |-> new, through |-> through,
                                  dates |-> OccurrenceDates(r, through)]]

\* create: the row is inserted by the transaction that goes on to materialise,
\* so it shows with the bookings or not at all.
Create(c, s, terms, weeks) ==
  /\ ~Exists(s) /\ ~Claimed(s)
  /\ terms.to # NoDate => terms.to >= terms.from
  /\ LET r == [status |-> "active", dayOfWeek |-> terms.day, startsOn |-> terms.from,
               endsOn |-> terms.to, through |-> NoDate]
     IN  Begin(c, s, r, r, HorizonFrom(weeks))
  /\ UNCHANGED <<today, rule, occurrence, other, closed, job, lock, mishaps, excused>>

\* extend: whatever the status of the series.
Extend(c, s, weeks) ==
  /\ Exists(s)
  /\ Begin(c, s, rule[s], NoRule, HorizonFrom(weeks))
  /\ UNCHANGED <<today, rule, occurrence, other, closed, job, lock, mishaps, excused>>

\* The body of materialiseAllActive's loop; the series was active when listed.
RollOne(r, s) ==
  /\ job[r].phase = "running" /\ s \in job[r].todo
  /\ Begin(r, s, rule[s], NoRule, HorizonFrom(HorizonWeeks))
  /\ job' = [job EXCEPT ![r].todo = @ \ {s}]
  /\ UNCHANGED <<today, rule, occurrence, other, closed, lock, mishaps, excused>>

\* The dates the call leaves alone: it selects the rows that are not cancelled.
Already(s) == {d \in Date : Live(s, d)}

\* The bookings, the opening hours and the overrides are selected.
ReadBooked(w) ==
  LET s == work[w].series
      dates == work[w].dates \ Already(s)
  IN  /\ work[w].phase = "read"
      /\ work' = [work EXCEPT ![w] = [phase |-> "insert", series |-> s, new |-> work[w].new,
                                      through |-> work[w].through,
                                      todo |-> dates \ closed, inserted |-> {},
                                      shut |-> dates \cap closed]]
      /\ UNCHANGED <<today, rule, occurrence, other, closed, job, lock, mishaps, excused>>

NextDate(w) == Min(work[w].todo)

InsertOne(w) ==
  /\ work[w].phase = "insert" /\ work[w].todo # {}
  /\ ~Awaited(NextDate(w))
  /\ ~Sold(NextDate(w)) /\ ~Live(work[w].series, NextDate(w))
  /\ work' = [work EXCEPT ![w].todo = @ \ {NextDate(w)}, ![w].inserted = @ \cup {NextDate(w)}]
  /\ UNCHANGED <<today, rule, occurrence, other, closed, job, lock, mishaps, excused>>

\* A violated constraint: the next statement of the transaction is refused,
\* and nothing of the call stays.
InsertClash(w) ==
  /\ work[w].phase = "insert" /\ work[w].todo # {}
  /\ ~Awaited(NextDate(w))
  /\ Sold(NextDate(w)) \/ Live(work[w].series, NextDate(w))
  /\ work' = [work EXCEPT ![w] = Idle]
  /\ UNCHANGED <<today, rule, occurrence, other, closed, job, lock, mishaps, excused>>

\* The last statement sets materialised_through, whatever it was.
Commit(w) ==
  LET s == work[w].series
      row == IF work[w].new # NoRule THEN work[w].new ELSE rule[s]
      afterEnd == {d \in Date : row.endsOn # NoDate /\ d > row.endsOn}
  IN  /\ work[w].phase = "insert" /\ work[w].todo = {}
      /\ rule' = [rule EXCEPT ![s] = [row EXCEPT !.through = work[w].through]]
      /\ occurrence' = [occurrence EXCEPT ![s] =
           [d \in Date |-> IF d \in work[w].inserted THEN "confirmed" ELSE @[d]]]
      /\ excused' = [excused EXCEPT ![s] = @ \cup work[w].shut \cup afterEnd]
      /\ work' = [work EXCEPT ![w] = Idle]
      /\ UNCHANGED <<today, other, closed, job, lock, mishaps>>

---------------------------------------------------------------------------
\* The owner's other commands on a series.

\* Mutant of Cancelled: whatever the status of the booking.
AllCancelled(s, from) ==
  [d \in Date |-> IF d >= from /\ Live(s, d) THEN "cancelled" ELSE occurrence[s][d]]

\* cancelOccurrencesFrom: the committed bookings from that date on which are
\* neither played nor missed.
Cancelled(s, from) ==
  [d \in Date |-> IF d >= from /\ occurrence[s][d] = "confirmed" THEN "cancelled" ELSE occurrence[s][d]]

\* update with an end date, earlier or later than the one there was.
UpdateEndsOn(s, to) ==
  /\ Exists(s) /\ to >= rule[s].startsOn
  /\ rule' = [rule EXCEPT ![s].endsOn = to]
  /\ occurrence' = [occurrence EXCEPT ![s] = Cancelled(s, to + 1)]
  /\ excused' = [excused EXCEPT ![s] = @ \cup {d \in Date : d > to}]
  /\ UNCHANGED <<today, other, closed, work, job, lock, mishaps>>

\* end, from today or from the date the owner gives.
End(s, from) ==
  LET endsOn == Max({from - 1, rule[s].startsOn})
  IN  /\ Exists(s)
      /\ rule' = [rule EXCEPT ![s].status = "ended", ![s].endsOn = endsOn]
      /\ occurrence' = [occurrence EXCEPT ![s] = Cancelled(s, from)]
      /\ excused' = [excused EXCEPT ![s] = @ \cup {d \in Date : d > endsOn}]
      /\ UNCHANGED <<today, other, closed, work, job, lock, mishaps>>

---------------------------------------------------------------------------
\* The calendar around the series.

\* reservations.cancel on one week of the series.
CancelWeek(s, d) ==
  /\ Live(s, d)
  /\ occurrence' = [occurrence EXCEPT ![s][d] = "cancelled"]
  /\ UNCHANGED <<today, rule, other, closed, work, job, lock, mishaps, excused>>

\* reservations.update: played or missed; a missed week that is marked as
\* played must find its hour free.
MarkWeek(s, d, to) ==
  /\ Live(s, d) /\ occurrence[s][d] # to
  /\ to = "completed" => Occupies(s, d) \/ ~(Sold(d) \/ Awaited(d))
  /\ occurrence' = [occurrence EXCEPT ![s][d] = to]
  /\ UNCHANGED <<today, rule, other, closed, work, job, lock, mishaps, excused>>

BookOther(d) ==
  /\ ~Sold(d) /\ ~Awaited(d)
  /\ other' = other \cup {d}
  /\ UNCHANGED <<today, rule, occurrence, closed, work, job, lock, mishaps, excused>>

CancelOther(d) ==
  /\ other' = other \ {d}
  /\ d \in other
  /\ UNCHANGED <<today, rule, occurrence, closed, work, job, lock, mishaps, excused>>

Tick ==
  /\ today < LastDate
  /\ today' = today + 1
  /\ UNCHANGED <<rule, occurrence, other, closed, work, job, lock, mishaps, excused>>

---------------------------------------------------------------------------
\* The nightly job.

\* pg_try_advisory_lock on whichever connection the pool hands out: it
\* succeeds when nobody has the lock or that very session has it.  Then the
\* active series are listed.  Without the lock the job does nothing tonight.
StartJob(r, q) ==
  /\ job[r].phase = "idle" /\ q[1] = r
  /\ lock.session \in {<<>>, q} /\ lock.depth < MaxDepth
  /\ lock' = [session |-> q, depth |-> lock.depth + 1]
  /\ job' = [job EXCEPT ![r] = [phase |-> "running",
                                todo |-> {s \in SeriesId : rule[s].status = "active"}]]
  /\ UNCHANGED <<today, rule, occurrence, other, closed, work, mishaps, excused>>

\* Mutant of Unlocked: the lock's depth is counted down in any session.
UnlockedAnywhere(q) == [lock EXCEPT !.depth = @ - 1]

\* The lock after an unlock in session q.
Unlocked(q) ==
  IF lock.session # q THEN lock
  ELSE IF lock.depth = 1 THEN NoLock ELSE [lock EXCEPT !.depth = @ - 1]

\* pg_advisory_unlock on whichever connection the pool hands out by then; in
\* a session that does not hold the lock it is a warning.
FinishJob(r, q) ==
  /\ job[r].phase = "running" /\ job[r].todo = {} /\ work[r] = Idle /\ q[1] = r
  /\ lock' = Unlocked(q)
  /\ job' = [job EXCEPT ![r] = NoJob]
  /\ UNCHANGED <<today, rule, occurrence, other, closed, work, mishaps, excused>>

\* Mutant of CloseSession: a pool that never lets a connection go.
NeverClosed(q) == FALSE /\ UNCHANGED vars

\* The pool closes a connection nobody used for idleTimeoutMillis, and the
\* session's locks are gone.
CloseSession(q) ==
  /\ lock.session = q
  /\ lock' = NoLock
  /\ UNCHANGED <<today, rule, occurrence, other, closed, work, job, mishaps, excused>>

\* A statement fails or times out: the transaction is rolled back, and the
\* job goes on with the next series.
Fail(w) ==
  /\ work[w] # Idle /\ mishaps < MaxMishaps
  /\ work' = [work EXCEPT ![w] = Idle]
  /\ mishaps' = mishaps + 1
  /\ UNCHANGED <<today, rule, occurrence, other, closed, job, lock, excused>>

\* A replica goes down in the night and comes back for the next one.
Crash(r) ==
  /\ job[r].phase = "running" /\ mishaps < MaxMishaps
  /\ work' = [work EXCEPT ![r] = Idle]
  /\ job' = [job EXCEPT ![r] = NoJob]
  /\ lock' = IF lock # NoLock /\ lock.session[1] = r THEN NoLock ELSE lock
  /\ mishaps' = mishaps + 1
  /\ UNCHANGED <<today, rule, occurrence, other, closed, excused>>

---------------------------------------------------------------------------

Step(w) == ReadBooked(w) \/ InsertOne(w) \/ InsertClash(w) \/ Commit(w)

Next ==
  \/ \E c \in Clerk, s \in SeriesId, weeks \in 1 .. HorizonWeeks :
       \/ \E terms \in Terms : Create(c, s, terms, weeks)
       \/ Extend(c, s, weeks)
  \/ \E r \in Replica, s \in SeriesId : RollOne(r, s)
  \/ \E w \in Worker : Step(w) \/ Fail(w)
  \/ \E s \in SeriesId, d \in Date :
       \/ UpdateEndsOn(s, d)
       \/ End(s, d)
       \/ CancelWeek(s, d)
       \/ \E to \in {"completed", "no_show"} : MarkWeek(s, d, to)
  \/ \E d \in Wanted : BookOther(d) \/ CancelOther(d)
  \/ Tick
  \/ \E r \in Replica, q \in Session : StartJob(r, q) \/ FinishJob(r, q)
  \/ \E q \in Session : CloseSession(q)
  \/ \E r \in Replica : Crash(r)

Spec == Init /\ [][Next]_vars

\* Cron starts the job every night, the runtime brings every call to its end,
\* and there are nights in which a connection stands idle for half a minute.
Fairness ==
  /\ \A w \in Worker : WF_vars(Step(w))
  /\ \A r \in Replica : WF_vars(\E s \in SeriesId : RollOne(r, s))
  /\ \A r \in Replica : WF_vars(\E q \in Session : FinishJob(r, q))
  /\ WF_vars(\E r \in Replica, q \in Session : StartJob(r, q))
  /\ WF_vars(\E q \in Session : CloseSession(q))

FairSpec == Spec /\ Fairness

---------------------------------------------------------------------------
\* Properties.

TypeOK ==
  /\ today \in Date
  /\ rule \in [SeriesId -> Rule \cup {NoRule}]
  /\ occurrence \in [SeriesId -> [Date -> Status]]
  /\ other \in SUBSET Date /\ closed \in SUBSET MayClose
  /\ work \in [Worker -> {Idle} \cup Materialising]
  /\ job \in [Replica -> [phase : {"idle", "running"}, todo : SUBSET SeriesId]]
  /\ lock \in [session : Session \cup {<<>>}, depth : 0 .. MaxDepth]
  /\ mishaps \in 0 .. MaxMishaps
  /\ excused \in [SeriesId -> SUBSET Date]

\* A date is sold once, whoever inserts: the bookings that stand and those
\* the open transactions have inserted never meet on a date.  (materialise
\* checks nothing itself; two of them, a walk-in and a no-show marked as
\* played all lean on the exclusion constraint.)
HourSoldOnce ==
  \A d \in Date :
    Cardinality({s \in SeriesId : Occupies(s, d)} \cup (IF d \in other THEN {"other"} ELSE {})
                \cup {w \in Worker : d \in Inserted(w)}) <= 1

\* The rows and the calls have their types, and a date is sold once.
CalendarIsSound == TypeOK /\ HourSoldOnce

\* materialised_through is what the migration says it is: up to it every date
\* of the rule has its booking, or had one that was cancelled, or fell on a
\* closed day or after the series' end.  A call that meets a clash, fails or
\* is cut short leaves the column alone.
NoHole ==
  \A s \in SeriesId, d \in Date :
    /\ Exists(s) /\ d <= rule[s].through
    /\ Weekday(d) = rule[s].dayOfWeek /\ d >= rule[s].startsOn
    => occurrence[s][d] # "none" \/ d \in excused[s]

\* A week that was played or missed is history: none of the commands on the
\* series, the job or a rerun takes it off the books; only the owner's
\* cancelling of that one week does.
HistoryStays ==
  [][\A s \in SeriesId, d \in Date :
       /\ occurrence[s][d] \in {"completed", "no_show"}
       /\ occurrence'[s][d] \notin {"completed", "no_show"}
       => CancelWeek(s, d)]_vars

\* A weekly group never runs out of bookings: once a series stays active and
\* nothing stands in its way, every date of its rule up to the horizon gets
\* its booking, again and again if it is cancelled, through crashes and
\* through a lock that was left behind.
NothingInTheWay(s, d) ==
  LET dates == OccurrenceDates(rule[s], HorizonFrom(HorizonWeeks))
  IN  /\ rule[s].status = "active"
      /\ d \in dates \ closed
      /\ \A e \in dates : e \notin other /\ \A s2 \in SeriesId \ {s} : ~Occupies(s2, e)
      /\ \A c \in Clerk : work[c] = Idle

NeverRunsOut ==
  \A s \in SeriesId, d \in Date : <>[]NothingInTheWay(s, d) => []<>Live(s, d)

\* "A clash in week three must not roll back the eleven weeks that were
\* bookable" (docs/ARCHITECTURE.md:103): unless something failed, what a call
\* has inserted by the time it ends is booked.
ClashKeepsTheRest ==
  [][\A w \in Worker :
       work[w].phase = "insert" /\ work'[w] = Idle /\ mishaps' = mishaps
       => \A d \in work[w].inserted : occurrence'[work[w].series][d] = "confirmed"]_vars
=============================================================================
