---------------------------- MODULE SeriesProofs ----------------------------
(***************************************************************************)
(* Theorems about Series, for every set of series, workers and sessions,   *)
(* every calendar and every length of the week.                            *)
(***************************************************************************)
EXTENDS Series, FiniteSetTheorems, NaturalsInduction, TLAPS

---------------------------------------------------------------------------
\* Numbers.

\* Min of the community modules is the least of a set of dates: there is one.
LEMMA NextDateIs ==
  ASSUME NEW T \in SUBSET Date, T # {}
  PROVE  Min(T) \in T
<1>1. \E x \in T : \A y \in Nat : y < x => y \notin T
  <2>1. T \subseteq Nat
    BY DatesAssumption DEF Date
  <2>2. IsWellFoundedOn(OpToRel(<, Nat), Nat)
    BY NatLessThanWellFounded
  <2>3. PICK x \in T : \A y \in T : ~(<<y, x>> \in OpToRel(<, Nat))
    BY <2>1, <2>2, WFMin
  <2>4. QED
    BY <2>1, <2>3 DEF OpToRel
<1>2. \E x \in T : \A y \in T : x <= y
  BY <1>1, DatesAssumption DEF Date
<1>3. QED
  BY <1>2 DEF Min

LEMMA MaxOfTwo ==
  ASSUME NEW a \in Int, NEW b \in Int
  PROVE  Max({a, b}) = IF a >= b THEN a ELSE b
BY DEF Max

LEMMA QuotientAndRest ==
  ASSUME NEW a \in Int, NEW b \in Int, b > 0
  PROVE  /\ a = b * (a \div b) + (a % b)
         /\ a \div b \in Int /\ a % b \in 0 .. b - 1
<1>1. a = b * (a \div b) + (a % b)
  BY Z3
<1>2. QED
  BY <1>1

LEMMA RestIs ==
  ASSUME NEW b \in Int, b > 0, NEW c \in Int, NEW r \in 0 .. b - 1
  PROVE  /\ (b * c + r) % b = r /\ (b * c + r) \div b = c
OBVIOUS

LEMMA MultipleIs ==
  ASSUME NEW b \in Int, b > 0, NEW c \in Int
  PROVE  (b * c) % b = 0 /\ (b * c) \div b = c
OBVIOUS

LEMMA SmallRest ==
  ASSUME NEW b \in Int, b > 0, NEW r \in 0 .. b - 1
  PROVE  r % b = r
OBVIOUS

LEMMA OneMore ==
  ASSUME NEW w \in Int, NEW c \in Int
  PROVE  w * (c + 1) = w * c + w
OBVIOUS

LEMMA Scales ==
  ASSUME NEW w \in Int, w > 0, NEW a \in Int, NEW c \in Int, a >= c
  PROVE  /\ w * a >= w * c /\ w * (a - c) = w * a - w * c /\ w * (a - c) >= 0
<1>1. w * (a - c) >= 0 /\ w * (a - c) = w * a - w * c
  OBVIOUS
<1>2. QED
  BY <1>1

\* A date on the rule's weekday that is not before the rule's start is in step
\* with the rule's first date, and not before it.
LEMMA InStepWithFirst ==
  ASSUME NEW r, r.startsOn \in Date, r.dayOfWeek \in 0 .. DaysInWeek - 1,
         NEW d \in Date, Weekday(d) = r.dayOfWeek, d >= r.startsOn
  PROVE  /\ First(r) \in Nat /\ First(r) >= 1 /\ First(r) <= d
         /\ (d - First(r)) % DaysInWeek = 0
         /\ DaysInWeek * ((d - First(r)) \div DaysInWeek) = d - First(r)
<1>1. PICK w \in Int, st \in Int, k \in Int, e \in Int :
        /\ w = DaysInWeek /\ st = r.startsOn /\ k = r.dayOfWeek /\ e = d
        /\ w > 0 /\ st >= 1 /\ e >= st
  BY DatesAssumption DEF Date
<1>2. PICK m \in Int : m = e % w /\ k = m
  BY <1>1, QuotientAndRest DEF Weekday
<1>3. PICK f \in Int : f = st + ((k - (st % w) + w) % w) /\ f = First(r)
  BY <1>1, QuotientAndRest DEF First, Weekday
<1>4. PICK c \in Int : e = w * c + k /\ k \in 0 .. w - 1
  <2>1. e = w * (e \div w) + (e % w) /\ e \div w \in Int /\ e % w \in 0 .. w - 1
    BY <1>1, QuotientAndRest
  <2>2. QED
    BY <1>1, <1>2, <2>1
<1>5. PICK a \in Int, b \in 0 .. w - 1 : st = w * a + b /\ b = st % w
  <2>1. st = w * (st \div w) + (st % w) /\ st \div w \in Int /\ st % w \in 0 .. w - 1
    BY <1>1, QuotientAndRest
  <2>2. QED
    BY <2>1
<1>6. PICK q \in Int : f = w * q + k /\ f >= st /\ q <= c
  <2>1. CASE k >= b
    <3>1. (k - b + w) % w = k - b
      <4>1. k - b + w = w * 1 + (k - b) /\ k - b \in 0 .. w - 1
        BY <1>1, <1>5, <2>1
      <4>2. (w * 1 + (k - b)) % w = k - b
        BY <4>1, RestIs
      <4>3. QED
        BY <4>1, <4>2
    <3>2. f = st + (k - b)
      BY <3>1, <1>3, <1>5
    <3>3. a <= c
      <4>1. SUFFICES ASSUME a >= c + 1 PROVE FALSE
        BY <1>4, <1>5
      <4>2. w * a >= w * (c + 1) /\ w * (c + 1) = w * c + w
        BY <4>1, <1>4, <1>5, Scales, OneMore
      <4>3. QED
        BY <1>1, <4>2, <1>4, <1>5
    <3>4. f = w * a + k /\ f >= st
      BY <3>2, <1>5, <2>1
    <3>5. QED
      BY <3>3, <3>4
  <2>2. CASE k < b
    <3>1. (k - b + w) % w = k - b + w
      <4>1. k - b + w \in 0 .. w - 1
        BY <1>1, <1>5, <2>2
      <4>2. QED
        BY <4>1, SmallRest
    <3>2. f = st + (k - b + w)
      BY <3>1, <1>3, <1>5
    <3>3. a + 1 <= c
      <4>1. SUFFICES ASSUME a >= c PROVE FALSE
        BY <1>4, <1>5
      <4>2. w * a >= w * c
        BY <4>1, <1>4, <1>5, Scales
      <4>3. QED
        BY <1>1, <4>2, <1>4, <1>5, <2>2
    <3>4. PICK q \in Int : q = a + 1 /\ w * q = w * a + w
      BY <1>5, OneMore
    <3>5. f = w * a + w + k /\ f >= st
      BY <1>1, <3>2, <1>5, <2>2
    <3>6. QED
      BY <3>3, <3>4, <3>5
  <2>3. QED
    BY <2>1, <2>2, <1>5
<1>7. PICK n \in Int : n = c - q /\ e - f = w * n /\ w * n >= 0
  <2>1. w * (c - q) = w * c - w * q /\ w * (c - q) >= 0
    BY <1>4, <1>6, Scales
  <2>2. QED
    BY <2>1, <1>4, <1>6
<1>8. (w * n) % w = 0 /\ (w * n) \div w = n
  BY <1>7, MultipleIs
<1>9. f \in Nat /\ f >= st /\ f <= e
  BY <1>1, <1>4, <1>6, <1>7
<1>10. (e - f) % w = 0 /\ (e - f) \div w = n
  BY <1>7, <1>8
<1>11. d = e /\ First(r) = f /\ DaysInWeek = w /\ f >= 1
  BY <1>1, <1>3, <1>9
<1>12. First(r) \in Nat /\ First(r) >= 1 /\ First(r) <= d
  BY <1>9, <1>11
<1>13. (d - First(r)) % DaysInWeek = 0
  BY <1>10, <1>11
<1>14. DaysInWeek * ((d - First(r)) \div DaysInWeek) = d - First(r)
  BY <1>7, <1>10, <1>11
<1>15. QED
  BY <1>12, <1>13, <1>14

\* A date of the rule, as far as one call works the dates out: Cap weeks from
\* the series' first date.
Past(r, d) == r.endsOn # NoDate /\ d > r.endsOn
OfRule(r, d) ==
  Weekday(d) = r.dayOfWeek /\ d >= r.startsOn /\ (d - First(r)) \div DaysInWeek < Cap

LEMMA OccurrenceDatesAreAll ==
  ASSUME NEW r \in Rule, NEW through \in Nat, NEW d \in Date, OfRule(r, d), d <= through
  PROVE  d \in OccurrenceDates(r, through) \/ Past(r, d)
<1>0. r.startsOn \in Date /\ r.dayOfWeek \in 0 .. DaysInWeek - 1 /\ r.endsOn \in 0 .. LastDate
  BY DatesAssumption DEF Rule, Date, NoDate
<1>1. SUFFICES ASSUME ~Past(r, d) PROVE d \in OccurrenceDates(r, through)
  OBVIOUS
<1>2. /\ First(r) \in Nat /\ First(r) <= d /\ (d - First(r)) % DaysInWeek = 0
  BY <1>0, InStepWithFirst DEF OfRule
<1>3. d <= Limit(r, through)
  BY <1>0, <1>1, DatesAssumption DEF Past, Limit, NoDate, Date
<1>4. QED
  BY <1>2, <1>3 DEF OccurrenceDates, OfRule

\* In a calendar of no more than Cap weeks that is every date of the rule.
CapAssumption == LastDate <= DaysInWeek * Cap

LEMMA WithinTheCap ==
  ASSUME CapAssumption, NEW r \in Rule, NEW d \in Date,
         Weekday(d) = r.dayOfWeek, d >= r.startsOn
  PROVE  OfRule(r, d)
<1>1. r.startsOn \in Date /\ r.dayOfWeek \in 0 .. DaysInWeek - 1
  BY DEF Rule
<1>2. /\ First(r) \in Nat /\ First(r) >= 1 /\ First(r) <= d
      /\ DaysInWeek * ((d - First(r)) \div DaysInWeek) = d - First(r)
  BY <1>1, InStepWithFirst
<1>3. (d - First(r)) \div DaysInWeek < Cap
  <2>1. PICK w \in Int, n \in Int, x \in Int, cap \in Int :
          /\ w = DaysInWeek /\ w > 0 /\ n = (d - First(r)) \div DaysInWeek /\ cap = Cap
          /\ x = d - First(r) /\ x < w * cap /\ w * n = x
    <3>1. d - First(r) \in Int /\ DaysInWeek \in Int /\ DaysInWeek > 0 /\ Cap \in Int
      BY <1>2, DatesAssumption, BoundsAssumption DEF Date
    <3>2. (d - First(r)) \div DaysInWeek \in Int
      BY <3>1, QuotientAndRest
    <3>3. d - First(r) < LastDate
      BY <1>2, DatesAssumption DEF Date
    <3>4. d - First(r) < DaysInWeek * Cap
      BY <3>1, <3>3, <1>2, DatesAssumption DEF CapAssumption, Date
    <3>5. QED
      BY <3>1, <3>2, <3>4, <1>2
  <2>2. SUFFICES ASSUME n >= cap PROVE FALSE
    BY <2>1
  <2>3. w * n >= w * cap
    BY <2>1, <2>2, Scales
  <2>4. QED
    BY <2>1, <2>3
<1>4. QED
  BY <1>3 DEF OfRule

LEMMA HorizonInReach ==
  ASSUME today \in Date, NEW weeks \in 0 .. HorizonWeeks
  PROVE  HorizonFrom(weeks) \in 0 .. Horizon
<1>1. PICK w \in Int, n \in Int, h \in Int :
        /\ w = DaysInWeek /\ w > 0 /\ n = weeks /\ h = HorizonWeeks /\ h >= n /\ n >= 0
  BY DatesAssumption, BoundsAssumption
<1>2. w * h >= w * n /\ w * n >= 0
  <2>1. w * n >= w * 0 /\ w * 0 = 0
    BY <1>1, Scales
  <2>2. QED
    BY <1>1, <2>1, Scales
<1>3. DaysInWeek * HorizonWeeks = w * h /\ DaysInWeek * weeks = w * n
  BY <1>1
<1>4. QED
  BY <1>1, <1>2, <1>3, DatesAssumption DEF Horizon, HorizonFrom, Date

---------------------------------------------------------------------------
\* Types.  A call at work on a rule that is there finds it there; one that
\* makes a rule is the only one at work on it.  The job lists what is there,
\* and a lock somebody holds is held at least once.

LEMMA WorkTypes ==
  ASSUME NEW x \in {Idle} \cup Materialising
  PROVE  /\ x.phase \in {"idle", "read", "insert"}
         /\ x = Idle <=> x.phase = "idle"
         /\ x # Idle => /\ x.series \in SeriesId /\ x.new \in Rule \cup {NoRule}
                        /\ x.through \in 0 .. Horizon
         /\ x.phase = "read" => x.dates \in SUBSET Date
         /\ x.phase = "insert" => /\ x.todo \in SUBSET Date /\ x.inserted \in SUBSET Date
                                  /\ x.shut \in SUBSET Date
BY DEF Idle, Materialising

LEMMA RuleTypes ==
  ASSUME NEW r \in Rule \cup {NoRule}
  PROVE  /\ r \in Rule <=> r # NoRule
         /\ r = NoRule <=> r.status = "unused"
         /\ r.startsOn \in Date /\ r.dayOfWeek \in 0 .. DaysInWeek - 1
         /\ r.endsOn \in Date \cup {NoDate} /\ r.through \in 0 .. Horizon
BY HorizonInReach, DatesAssumption, BoundsAssumption DEF Rule, NoRule, Date, NoDate, Horizon

ClaimsHold ==
  \A w \in Worker : work[w] # Idle =>
    IF work[w].new = NoRule THEN Exists(work[w].series)
    ELSE /\ ~Exists(work[w].series)
         /\ \A v \in Worker : work[v] # Idle /\ work[v].series = work[w].series => v = w

Typed ==
  /\ TypeOK
  /\ ClaimsHold
  /\ \A r \in Replica : \A s \in job[r].todo : Exists(s)
  /\ lock.session # <<>> => lock.depth >= 1

LEMMA BeginTyped ==
  ASSUME TypeOK, NEW w \in Worker, NEW s \in SeriesId, NEW r, NEW new \in Rule \cup {NoRule},
         NEW through \in 0 .. Horizon, Begin(w, s, r, new, through)
  PROVE  /\ work' \in [Worker -> {Idle} \cup Materialising]
         /\ \A v \in Worker \ {w} : work'[v] = work[v]
         /\ work[w] = Idle /\ work'[w] # Idle /\ work'[w].phase = "read"
         /\ work'[w].series = s /\ work'[w].new = new /\ work'[w].through = through
         /\ work'[w].dates = OccurrenceDates(r, through)
<1>1. PICK x : x = [phase |-> "read", series |-> s, new |-> new, through |-> through,
                    dates |-> OccurrenceDates(r, through)]
  OBVIOUS
<1>2. x \in Materialising /\ x # Idle
  BY <1>1 DEF Materialising, OccurrenceDates, Idle
<1>3. work' = [work EXCEPT ![w] = x] /\ work[w] = Idle
  BY <1>1 DEF Begin
<1>4. work'[w] = x
  BY <1>3 DEF TypeOK
<1>5. work' \in [Worker -> {Idle} \cup Materialising] /\ \A v \in Worker \ {w} : work'[v] = work[v]
  BY <1>2, <1>3 DEF TypeOK
<1>6. QED
  BY <1>1, <1>2, <1>3, <1>4, <1>5

\* A step that begins no work and leaves the rules there are keeps the claims.
LEMMA ClaimsStay ==
  ASSUME TypeOK, ClaimsHold,
         \A s \in SeriesId : Exists(s)' <=> Exists(s),
         \A w \in Worker : work'[w] # Idle =>
            work[w] # Idle /\ work'[w].series = work[w].series /\ work'[w].new = work[w].new
  PROVE  ClaimsHold'
<1>1. SUFFICES ASSUME NEW w \in Worker, work'[w] # Idle
               PROVE  IF work'[w].new = NoRule THEN rule'[work'[w].series].status # "unused"
                      ELSE /\ ~(rule'[work'[w].series].status # "unused")
                           /\ \A v \in Worker :
                                work'[v] # Idle /\ work'[v].series = work'[w].series => v = w
  BY DEF ClaimsHold, Exists
<1>2. work[w] # Idle /\ work'[w].series = work[w].series /\ work'[w].new = work[w].new
  BY <1>1
<1>3. work[w].series \in SeriesId
  <2>1. work[w] \in {Idle} \cup Materialising
    BY DEF TypeOK
  <2>2. QED
    BY <1>2, <2>1, WorkTypes
<1>4. rule'[work[w].series].status # "unused" <=> Exists(work[w].series)
  BY <1>3 DEF Exists
<1>5. QED
  BY <1>2, <1>4 DEF ClaimsHold

\* A worker's call after one of its steps in the loop.
LEMMA WorkAfter ==
  ASSUME TypeOK, NEW w \in Worker, NEW x \in {Idle} \cup Materialising,
         work' = [work EXCEPT ![w] = x]
  PROVE  /\ work' \in [Worker -> {Idle} \cup Materialising]
         /\ work'[w] = x /\ \A v \in Worker \ {w} : work'[v] = work[v]
BY DEF TypeOK

LEMMA ReadBookedIs ==
  ASSUME TypeOK, NEW w \in Worker, ReadBooked(w)
  PROVE  /\ work' \in [Worker -> {Idle} \cup Materialising]
         /\ \A v \in Worker \ {w} : work'[v] = work[v]
         /\ work[w].phase = "read" /\ work[w] # Idle
         /\ work'[w].phase = "insert" /\ work'[w] # Idle
         /\ work'[w].series = work[w].series /\ work'[w].new = work[w].new
         /\ work'[w].through = work[w].through
         /\ work'[w].todo = (work[w].dates \ Already(work[w].series)) \ closed
         /\ work'[w].inserted = {}
         /\ work'[w].shut = (work[w].dates \ Already(work[w].series)) \cap closed
<1>1. work[w] \in {Idle} \cup Materialising /\ work[w].phase = "read"
  BY DEF TypeOK, ReadBooked
<1>2. PICK x : x = [phase |-> "insert", series |-> work[w].series, new |-> work[w].new,
                    through |-> work[w].through,
                    todo |-> (work[w].dates \ Already(work[w].series)) \ closed, inserted |-> {},
                    shut |-> (work[w].dates \ Already(work[w].series)) \cap closed]
  OBVIOUS
<1>3. /\ work[w] # Idle /\ work[w].series \in SeriesId /\ work[w].new \in Rule \cup {NoRule}
      /\ work[w].through \in 0 .. Horizon /\ work[w].dates \in SUBSET Date
  BY <1>1, WorkTypes
<1>4. x \in Materialising
  BY <1>2, <1>3 DEF Materialising
<1>5. work' = [work EXCEPT ![w] = x]
  BY <1>2 DEF ReadBooked
<1>6. /\ work' \in [Worker -> {Idle} \cup Materialising]
      /\ work'[w] = x /\ \A v \in Worker \ {w} : work'[v] = work[v]
  BY <1>4, <1>5, WorkAfter
<1>7. x # Idle
  BY <1>2 DEF Idle
<1>8. QED
  BY <1>1, <1>2, <1>3, <1>6, <1>7

LEMMA InsertOneIs ==
  ASSUME TypeOK, NEW w \in Worker, InsertOne(w)
  PROVE  /\ NextDate(w) \in work[w].todo /\ NextDate(w) \in Date
         /\ work' \in [Worker -> {Idle} \cup Materialising]
         /\ \A v \in Worker \ {w} : work'[v] = work[v]
         /\ work[w].phase = "insert" /\ work[w] # Idle
         /\ work'[w].phase = "insert" /\ work'[w] # Idle
         /\ work'[w].series = work[w].series /\ work'[w].new = work[w].new
         /\ work'[w].through = work[w].through
         /\ work'[w].todo = work[w].todo \ {NextDate(w)}
         /\ work'[w].inserted = work[w].inserted \cup {NextDate(w)}
         /\ work'[w].shut = work[w].shut
<1>1. work[w] \in {Idle} \cup Materialising /\ work[w].phase = "insert" /\ work[w].todo # {}
  BY DEF TypeOK, InsertOne
<1>2. work[w].todo \in SUBSET Date /\ work[w].inserted \in SUBSET Date /\ work[w] # Idle
  BY <1>1, WorkTypes
<1>3. NextDate(w) \in work[w].todo
  BY <1>1, <1>2, NextDateIs DEF NextDate
<1>4. PICK x : x = [work[w] EXCEPT !.todo = @ \ {NextDate(w)}, !.inserted = @ \cup {NextDate(w)}]
  OBVIOUS
<1>5. work[w] \in [phase : {"insert"}, series : SeriesId, new : Rule \cup {NoRule},
                   through : 0 .. Horizon,
                   todo : SUBSET Date, inserted : SUBSET Date, shut : SUBSET Date]
  BY <1>1 DEF Materialising, Idle
<1>6. /\ x \in Materialising /\ x.phase = "insert"
      /\ x.series = work[w].series /\ x.new = work[w].new /\ x.through = work[w].through
      /\ x.todo = work[w].todo \ {NextDate(w)}
      /\ x.inserted = work[w].inserted \cup {NextDate(w)} /\ x.shut = work[w].shut
  BY <1>2, <1>3, <1>4, <1>5 DEF Materialising
<1>7. work' = [work EXCEPT ![w] = x]
  BY <1>4 DEF InsertOne, TypeOK
<1>8. /\ work' \in [Worker -> {Idle} \cup Materialising]
      /\ work'[w] = x /\ \A v \in Worker \ {w} : work'[v] = work[v]
  BY <1>6, <1>7, WorkAfter
<1>9. x # Idle
  BY <1>6 DEF Idle
<1>10. QED
  BY <1>1, <1>2, <1>3, <1>6, <1>8, <1>9

\* A call that ends, of itself or not.
LEMMA WorkEnds ==
  ASSUME TypeOK, NEW w \in Worker, work' = [work EXCEPT ![w] = Idle]
  PROVE  /\ work' \in [Worker -> {Idle} \cup Materialising]
         /\ work'[w] = Idle /\ \A v \in Worker \ {w} : work'[v] = work[v]
BY WorkAfter

\* The rule a call is at work on, as its commit writes it.
Row(w) == IF work[w].new # NoRule THEN work[w].new ELSE rule[work[w].series]

LEMMA CommitIs ==
  ASSUME Typed, NEW w \in Worker, Commit(w)
  PROVE  /\ work[w].series \in SeriesId /\ work[w].phase = "insert" /\ work[w] # Idle
         /\ work[w].todo = {}
         /\ work[w].inserted \in SUBSET Date /\ work[w].shut \in SUBSET Date
         /\ Row(w) \in Rule /\ work[w].through \in 0 .. Horizon
         /\ rule' \in [SeriesId -> Rule \cup {NoRule}]
         /\ rule'[work[w].series] = [Row(w) EXCEPT !.through = work[w].through]
         /\ rule'[work[w].series] \in Rule
         /\ \A s \in SeriesId \ {work[w].series} : rule'[s] = rule[s]
         /\ occurrence' \in [SeriesId -> [Date -> Status]]
         /\ \A s \in SeriesId \ {work[w].series} : occurrence'[s] = occurrence[s]
         /\ \A d \in Date : occurrence'[work[w].series][d] =
              IF d \in work[w].inserted THEN "confirmed" ELSE occurrence[work[w].series][d]
         /\ excused' \in [SeriesId -> SUBSET Date]
         /\ \A s \in SeriesId \ {work[w].series} : excused'[s] = excused[s]
         /\ excused'[work[w].series] =
              excused[work[w].series] \cup work[w].shut \cup {d \in Date : Past(Row(w), d)}
<1> DEFINE s == work[w].series
<1>1. TypeOK /\ work[w] \in {Idle} \cup Materialising /\ work[w].phase = "insert" /\ work[w].todo = {}
  BY DEF Typed, TypeOK, Commit
<1>2. /\ s \in SeriesId /\ work[w] # Idle
      /\ work[w].inserted \in SUBSET Date /\ work[w].shut \in SUBSET Date
      /\ work[w].through \in 0 .. Horizon /\ work[w].new \in Rule \cup {NoRule}
  BY <1>1, WorkTypes
<1>3. Row(w) \in Rule
  <2>1. work[w].new = NoRule => rule[s].status # "unused"
    BY <1>2 DEF Typed, ClaimsHold, Exists
  <2>2. rule[s] \in Rule \cup {NoRule}
    BY <1>1, <1>2 DEF TypeOK
  <2>3. QED
    BY <1>2, <2>1, <2>2 DEF Row, NoRule
<1>4. /\ rule' = [rule EXCEPT ![s] = [Row(w) EXCEPT !.through = work[w].through]]
      /\ [Row(w) EXCEPT !.through = work[w].through] \in Rule
  BY <1>2, <1>3 DEF Commit, Row, Rule
<1>5. occurrence' = [occurrence EXCEPT ![s] =
         [d \in Date |-> IF d \in work[w].inserted THEN "confirmed" ELSE occurrence[s][d]]]
  BY <1>1, <1>2 DEF Commit, TypeOK
<1>6. occurrence'[s] = [d \in Date |-> IF d \in work[w].inserted THEN "confirmed" ELSE occurrence[s][d]]
  BY <1>1, <1>2, <1>5 DEF TypeOK
<1>7. /\ occurrence'[s] \in [Date -> Status]
      /\ \A t \in SeriesId \ {s} : occurrence'[t] = occurrence[t]
      /\ \A d \in Date : occurrence'[s][d] = IF d \in work[w].inserted THEN "confirmed" ELSE occurrence[s][d]
  BY <1>1, <1>2, <1>5, <1>6 DEF TypeOK, Status
<1>8. occurrence' \in [SeriesId -> [Date -> Status]]
  BY <1>1, <1>2, <1>5, <1>7 DEF TypeOK
<1>9. excused' = [excused EXCEPT ![s] =
         excused[s] \cup work[w].shut \cup {d \in Date : Past(Row(w), d)}]
  BY <1>1, <1>2 DEF Commit, TypeOK, Past, Row
<1>10. /\ excused' \in [SeriesId -> SUBSET Date]
       /\ \A t \in SeriesId \ {s} : excused'[t] = excused[t]
       /\ excused'[s] = excused[s] \cup work[w].shut \cup {d \in Date : Past(Row(w), d)}
  BY <1>1, <1>2, <1>9 DEF TypeOK
<1>11. /\ rule' \in [SeriesId -> Rule \cup {NoRule}]
       /\ rule'[s] = [Row(w) EXCEPT !.through = work[w].through] /\ rule'[s] \in Rule
       /\ \A t \in SeriesId \ {s} : rule'[t] = rule[t]
  BY <1>1, <1>2, <1>4 DEF TypeOK
<1>12. QED
  BY <1>1, <1>2, <1>3, <1>7, <1>8, <1>10, <1>11

\* Both commands that give a series an end.
LEMMA EndsOnIs ==
  ASSUME TypeOK, NEW s \in SeriesId, NEW to \in Date, UpdateEndsOn(s, to) \/ End(s, to)
  PROVE  /\ Exists(s)
         /\ rule' \in [SeriesId -> Rule \cup {NoRule}]
         /\ \A t \in SeriesId \ {s} : rule'[t] = rule[t]
         /\ rule'[s] \in Rule
         /\ rule'[s].dayOfWeek = rule[s].dayOfWeek /\ rule'[s].startsOn = rule[s].startsOn
         /\ rule'[s].through = rule[s].through
         /\ occurrence' \in [SeriesId -> [Date -> Status]]
         /\ \A t \in SeriesId, d \in Date :
              \/ occurrence'[t][d] = occurrence[t][d]
              \/ occurrence[t][d] = "confirmed" /\ occurrence'[t][d] = "cancelled"
         /\ excused' \in [SeriesId -> SUBSET Date]
         /\ \A t \in SeriesId \ {s} : excused'[t] = excused[t]
         /\ excused'[s] = excused[s] \cup {d \in Date : Past(rule'[s], d)}
         /\ UNCHANGED <<today, other, closed, work, job, lock, mishaps>>
<1>1. rule[s] \in Rule /\ Exists(s)
  BY DEF TypeOK, UpdateEndsOn, End, Exists, NoRule
<1>2. PICK e \in Date, r \in Rule :
        /\ r.dayOfWeek = rule[s].dayOfWeek /\ r.startsOn = rule[s].startsOn
        /\ r.through = rule[s].through /\ r.endsOn = e
        /\ rule' = [rule EXCEPT ![s] = r]
        /\ excused' = [excused EXCEPT ![s] = excused[s] \cup {d \in Date : d > e}]
  <2>1. CASE UpdateEndsOn(s, to)
    <3>1. [rule[s] EXCEPT !.endsOn = to] \in Rule
      BY <1>1 DEF Rule
    <3>2. /\ rule' = [rule EXCEPT ![s] = [rule[s] EXCEPT !.endsOn = to]]
          /\ excused' = [excused EXCEPT ![s] = excused[s] \cup {d \in Date : d > to}]
      BY <2>1 DEF UpdateEndsOn, TypeOK
    <3>3. /\ [rule[s] EXCEPT !.endsOn = to].dayOfWeek = rule[s].dayOfWeek
          /\ [rule[s] EXCEPT !.endsOn = to].startsOn = rule[s].startsOn
          /\ [rule[s] EXCEPT !.endsOn = to].through = rule[s].through
          /\ [rule[s] EXCEPT !.endsOn = to].endsOn = to
      BY <1>1 DEF Rule
    <3>4. QED
      BY <3>1, <3>2, <3>3
  <2>2. CASE End(s, to)
    <3>0. PICK e : e = Max({to - 1, rule[s].startsOn})
      OBVIOUS
    <3>1. e \in Date
      <4>1. to - 1 \in Int /\ rule[s].startsOn \in Int /\ rule[s].startsOn \in Date
        BY <1>1, DatesAssumption DEF Rule, Date
      <4>2. e = IF to - 1 >= rule[s].startsOn THEN to - 1 ELSE rule[s].startsOn
        BY <3>0, <4>1, MaxOfTwo
      <4>3. QED
        BY <4>1, <4>2, DatesAssumption DEF Date
    <3>2. PICK r : r = [rule[s] EXCEPT !.status = "ended", !.endsOn = e]
      OBVIOUS
    <3>3. /\ r \in Rule /\ r.dayOfWeek = rule[s].dayOfWeek /\ r.startsOn = rule[s].startsOn
          /\ r.through = rule[s].through /\ r.endsOn = e
      BY <1>1, <3>1, <3>2 DEF Rule
    <3>4. /\ rule' = [rule EXCEPT ![s] = r]
          /\ excused' = [excused EXCEPT ![s] = excused[s] \cup {d \in Date : d > e}]
      BY <2>2, <3>0, <3>2 DEF End, TypeOK
    <3>5. QED
      BY <3>1, <3>3, <3>4
  <2>3. QED
    BY <2>1, <2>2
<1>3. PICK from \in Int : occurrence' = [occurrence EXCEPT ![s] = Cancelled(s, from)]
  BY DatesAssumption DEF UpdateEndsOn, End, Date
<1>4. /\ occurrence' \in [SeriesId -> [Date -> Status]]
      /\ \A t \in SeriesId, d \in Date :
           \/ occurrence'[t][d] = occurrence[t][d]
           \/ occurrence[t][d] = "confirmed" /\ occurrence'[t][d] = "cancelled"
  <2>1. Cancelled(s, from) \in [Date -> Status]
    BY DEF Cancelled, Status, TypeOK
  <2>2. occurrence'[s] = Cancelled(s, from) /\ \A t \in SeriesId \ {s} : occurrence'[t] = occurrence[t]
    BY <1>3 DEF TypeOK
  <2>3. \A d \in Date : \/ Cancelled(s, from)[d] = occurrence[s][d]
                        \/ occurrence[s][d] = "confirmed" /\ Cancelled(s, from)[d] = "cancelled"
    BY DEF Cancelled
  <2>4. QED
    BY <1>3, <2>1, <2>2, <2>3 DEF TypeOK
<1>5. /\ rule' \in [SeriesId -> Rule \cup {NoRule}] /\ rule'[s] = r
      /\ \A t \in SeriesId \ {s} : rule'[t] = rule[t]
  BY <1>2 DEF TypeOK
<1>6. /\ excused' \in [SeriesId -> SUBSET Date]
      /\ \A t \in SeriesId \ {s} : excused'[t] = excused[t]
      /\ excused'[s] = excused[s] \cup {d \in Date : Past(rule'[s], d)}
  <2>1. {d \in Date : Past(rule'[s], d)} = {d \in Date : d > e}
    BY <1>2, <1>5, DatesAssumption DEF Past, NoDate, Date
  <2>2. QED
    BY <1>2, <2>1 DEF TypeOK
<1>7. UNCHANGED <<today, other, closed, work, job, lock, mishaps>>
  BY DEF UpdateEndsOn, End
<1>8. QED
  BY <1>1, <1>2, <1>4, <1>5, <1>6, <1>7

\* One week of one series is marked, or cancelled.
LEMMA WeekIs ==
  ASSUME TypeOK, NEW s \in SeriesId, NEW d \in Date, NEW to \in Status,
         occurrence' = [occurrence EXCEPT ![s][d] = to]
  PROVE  /\ occurrence' \in [SeriesId -> [Date -> Status]]
         /\ \A t \in SeriesId, e \in Date :
              occurrence'[t][e] = IF t = s /\ e = d THEN to ELSE occurrence[t][e]
BY DEF TypeOK

\* The lock is a lock after each step on it, and held if somebody has it.
LockOK(l) == /\ l \in [session : Session \cup {<<>>}, depth : 0 .. MaxDepth]
             /\ l.session # <<>> => l.depth >= 1

LEMMA LockSteps ==
  ASSUME LockOK(lock)
  PROVE  /\ LockOK(NoLock)
         /\ \A q \in Session : LockOK(Unlocked(q))
         /\ \A q \in Session : lock.depth < MaxDepth => LockOK([session |-> q, depth |-> lock.depth + 1])
<1>1. LockOK(NoLock)
  BY PoolAssumption DEF LockOK, NoLock
<1>2. ASSUME NEW q \in Session PROVE LockOK(Unlocked(q))
  <2>1. q # <<>>
    BY DEF Session
  <2>2. QED
    BY <1>1, <2>1, PoolAssumption DEF LockOK, Unlocked
<1>3. ASSUME NEW q \in Session, lock.depth < MaxDepth
      PROVE  LockOK([session |-> q, depth |-> lock.depth + 1])
  BY <1>3, PoolAssumption DEF LockOK
<1>4. QED
  BY <1>1, <1>2, <1>3

JobsOK(J) == J \in [Replica -> [phase : {"idle", "running"}, todo : SUBSET SeriesId]]

LEMMA InitTyped == Init => Typed
<1> SUFFICES ASSUME Init PROVE Typed
  OBVIOUS
<1>2. 1 \in Date /\ 0 \in 0 .. MaxMishaps /\ MayClose \subseteq Date
  BY DatesAssumption, BoundsAssumption, InputsAssumption DEF Date
<1>3. today \in Date /\ other \in SUBSET Date /\ closed \in SUBSET MayClose /\ mishaps \in 0 .. MaxMishaps
  BY <1>2 DEF Init
<1>4. /\ rule \in [SeriesId -> Rule \cup {NoRule}]
      /\ occurrence \in [SeriesId -> [Date -> Status]]
      /\ excused \in [SeriesId -> SUBSET Date]
  BY DEF Init, Status
<1>5. work \in [Worker -> {Idle} \cup Materialising] /\ ClaimsHold
  BY DEF Init, ClaimsHold
<1>6. JobsOK(job) /\ \A r \in Replica : job[r].todo = {}
  BY DEF Init, JobsOK, NoJob
<1>7. LockOK(lock)
  BY PoolAssumption DEF Init, LockOK, NoLock
<1>8. QED
  BY <1>3, <1>4, <1>5, <1>6, <1>7 DEF Typed, TypeOK, JobsOK, LockOK

LEMMA TypedStep == Typed /\ [Next]_vars => Typed'
<1> SUFFICES ASSUME Typed, [Next]_vars PROVE Typed'
  OBVIOUS
<1>0. /\ TypeOK /\ ClaimsHold /\ today \in Date /\ mishaps \in 0 .. MaxMishaps
      /\ LockOK(lock) /\ JobsOK(job)
      /\ \A r \in Replica : \A s \in job[r].todo : Exists(s)
  BY DEF Typed, TypeOK, LockOK, JobsOK
<1>1. ASSUME NEW c \in Clerk, NEW s \in SeriesId, NEW weeks \in 1 .. HorizonWeeks,
             NEW terms \in Terms, Create(c, s, terms, weeks)
      PROVE  Typed'
  <2>1. PICK r \in Rule :
          /\ r.status = "active" /\ r # NoRule
          /\ Begin(c, s, r, r, HorizonFrom(weeks))
    <3>1. terms \in [day : 0 .. DaysInWeek - 1, from : 1 .. LastDate, to : 0 .. LastDate]
      BY TermsAssumption
    <3>2. PICK r : r = [status |-> "active", dayOfWeek |-> terms.day, startsOn |-> terms.from,
                        endsOn |-> terms.to, through |-> NoDate]
      OBVIOUS
    <3>3. 0 \in 0 .. Horizon /\ terms.to \in Date \cup {NoDate} /\ terms.from \in Date
      BY <1>0, <3>1, HorizonInReach, DatesAssumption, BoundsAssumption DEF Date, NoDate, Horizon
    <3>4. r \in Rule /\ r.status = "active" /\ r # NoRule
      BY <3>1, <3>2, <3>3 DEF Rule, NoDate, NoRule
    <3>5. QED
      BY <1>1, <3>2, <3>4 DEF Create
  <2>2. c \in Worker /\ HorizonFrom(weeks) \in 0 .. Horizon
    BY <1>0, HorizonInReach, BoundsAssumption DEF Worker
  <2>3. /\ work' \in [Worker -> {Idle} \cup Materialising]
        /\ \A v \in Worker \ {c} : work'[v] = work[v]
        /\ work'[c].series = s /\ work'[c].new = r
    BY <1>0, <2>1, <2>2, BeginTyped
  <2>4. UNCHANGED <<today, rule, occurrence, other, closed, job, lock, mishaps, excused>>
    BY <1>1 DEF Create
  <2>5. ~Exists(s) /\ \A w \in Worker : work[w] # Idle => work[w].series # s
    <3>1. ~Exists(s) /\ ~Claimed(s)
      BY <1>1 DEF Create
    <3>2. ASSUME NEW w \in Worker, work[w] # Idle, work[w].series = s PROVE FALSE
      BY <1>0, <3>1, <3>2 DEF ClaimsHold, Claimed
    <3>3. QED
      BY <3>1, <3>2
  <2>6. ClaimsHold'
    <3>1. ASSUME NEW w \in Worker, work'[w] # Idle
          PROVE  IF work'[w].new = NoRule THEN rule'[work'[w].series].status # "unused"
                 ELSE /\ ~(rule'[work'[w].series].status # "unused")
                      /\ \A v \in Worker : work'[v] # Idle /\ work'[v].series = work'[w].series => v = w
      <4>1. CASE w = c
        BY <2>1, <2>3, <2>4, <2>5, <4>1 DEF Exists
      <4>2. CASE w # c
        BY <1>0, <2>3, <2>4, <2>5, <3>1, <4>2 DEF Exists, ClaimsHold
      <4>3. QED
        BY <4>1, <4>2
    <3>2. QED
      BY <3>1 DEF ClaimsHold, Exists
  <2>7. QED
    BY <1>0, <2>3, <2>4, <2>6 DEF Typed, TypeOK, Exists
<1>2. ASSUME NEW w \in Worker, NEW s \in SeriesId, NEW weeks \in 0 .. HorizonWeeks,
             Exists(s), Begin(w, s, rule[s], NoRule, HorizonFrom(weeks)),
             UNCHANGED <<today, rule, occurrence, other, closed, lock, mishaps, excused>>,
             JobsOK(job'), \A r \in Replica : job'[r].todo \subseteq job[r].todo
      PROVE  Typed'
  <2>1. HorizonFrom(weeks) \in 0 .. Horizon
    BY <1>0, HorizonInReach
  <2>2. /\ work' \in [Worker -> {Idle} \cup Materialising]
        /\ \A v \in Worker \ {w} : work'[v] = work[v]
        /\ work'[w].series = s /\ work'[w].new = NoRule
    BY <1>0, <1>2, <2>1, BeginTyped
  <2>3. ClaimsHold'
    <3>1. ASSUME NEW u \in Worker, work'[u] # Idle
          PROVE  IF work'[u].new = NoRule THEN rule'[work'[u].series].status # "unused"
                 ELSE /\ ~(rule'[work'[u].series].status # "unused")
                      /\ \A v \in Worker : work'[v] # Idle /\ work'[v].series = work'[u].series => v = u
      <4>1. CASE u = w
        BY <1>2, <2>2, <4>1 DEF Exists
      <4>2. CASE u # w
        BY <1>0, <1>2, <2>2, <3>1, <4>2 DEF Exists, ClaimsHold
      <4>3. QED
        BY <4>1, <4>2
    <3>2. QED
      BY <3>1 DEF ClaimsHold, Exists
  <2>4. QED
    BY <1>0, <1>2, <2>2, <2>3 DEF Typed, TypeOK, JobsOK, Exists
<1>3. ASSUME NEW c \in Clerk, NEW s \in SeriesId, NEW weeks \in 1 .. HorizonWeeks, Extend(c, s, weeks)
      PROVE  Typed'
  <2>1. weeks \in 0 .. HorizonWeeks /\ c \in Worker
    BY BoundsAssumption DEF Worker
  <2>2. QED
    BY <1>0, <1>2, <1>3, <2>1 DEF Extend
<1>4. ASSUME NEW r \in Replica, NEW s \in SeriesId, RollOne(r, s) PROVE Typed'
  <2>1. HorizonWeeks \in 0 .. HorizonWeeks /\ r \in Worker
    BY BoundsAssumption DEF Worker
  <2>2. JobsOK(job') /\ \A q \in Replica : job'[q].todo \subseteq job[q].todo
    BY <1>0, <1>4 DEF RollOne, JobsOK
  <2>3. QED
    BY <1>0, <1>2, <1>4, <2>1, <2>2 DEF RollOne
<1>5. ASSUME NEW w \in Worker, ReadBooked(w) PROVE Typed'
  <2>1. UNCHANGED <<today, rule, occurrence, other, closed, job, lock, mishaps, excused>>
    BY <1>5 DEF ReadBooked
  <2>2. ClaimsHold'
    BY <1>0, <1>5, <2>1, ReadBookedIs, ClaimsStay DEF Exists
  <2>3. QED
    BY <1>0, <1>5, <2>1, <2>2, ReadBookedIs DEF Typed, TypeOK, Exists
<1>6. ASSUME NEW w \in Worker, InsertOne(w) PROVE Typed'
  <2>1. UNCHANGED <<today, rule, occurrence, other, closed, job, lock, mishaps, excused>>
    BY <1>6 DEF InsertOne
  <2>2. ClaimsHold'
    BY <1>0, <1>6, <2>1, InsertOneIs, ClaimsStay DEF Exists
  <2>3. QED
    BY <1>0, <1>6, <2>1, <2>2, InsertOneIs DEF Typed, TypeOK, Exists
<1>7. ASSUME NEW w \in Worker, work' = [work EXCEPT ![w] = Idle],
             UNCHANGED <<today, rule, occurrence, other, closed, excused>>,
             LockOK(lock'), JobsOK(job'), \A r \in Replica : job'[r].todo \subseteq job[r].todo,
             mishaps' \in 0 .. MaxMishaps
      PROVE  Typed'
  <2>1. /\ work' \in [Worker -> {Idle} \cup Materialising]
        /\ work'[w] = Idle /\ \A v \in Worker \ {w} : work'[v] = work[v]
    BY <1>0, <1>7, WorkEnds
  <2>2. ClaimsHold'
    BY <1>0, <1>7, <2>1, ClaimsStay DEF Exists
  <2>3. QED
    BY <1>0, <1>7, <2>1, <2>2 DEF Typed, TypeOK, JobsOK, LockOK, Exists
<1>8. ASSUME NEW w \in Worker, InsertClash(w) \/ Fail(w) PROVE Typed'
  <2>1. mishaps' \in 0 .. MaxMishaps
    BY <1>0, <1>8, BoundsAssumption DEF InsertClash, Fail
  <2>2. QED
    BY <1>0, <1>7, <1>8, <2>1 DEF InsertClash, Fail
<1>9. ASSUME NEW w \in Worker, Commit(w) PROVE Typed'
  <2>1. UNCHANGED <<today, other, closed, job, lock, mishaps>> /\ work' = [work EXCEPT ![w] = Idle]
    BY <1>9 DEF Commit
  <2>2. /\ work' \in [Worker -> {Idle} \cup Materialising]
        /\ work'[w] = Idle /\ \A v \in Worker \ {w} : work'[v] = work[v]
    BY <1>0, <2>1, WorkEnds
  <2>3. \A t \in SeriesId : rule'[t].status # "unused" <=> Exists(t) \/ t = work[w].series
    BY <1>9, CommitIs DEF Exists, Rule
  <2>4. ClaimsHold'
    <3>1. ASSUME NEW u \in Worker, work'[u] # Idle
          PROVE  IF work'[u].new = NoRule THEN rule'[work'[u].series].status # "unused"
                 ELSE /\ ~(rule'[work'[u].series].status # "unused")
                      /\ \A v \in Worker : work'[v] # Idle /\ work'[v].series = work'[u].series => v = u
      <4>1. u # w /\ work'[u] = work[u] /\ work[u] # Idle
        BY <2>2, <3>1
      <4>2. work[u].series \in SeriesId /\ work[w] # Idle
        BY <1>0, <1>9, <4>1, WorkTypes, CommitIs DEF TypeOK
      <4>3. work[u].new # NoRule => work[u].series # work[w].series
        BY <1>0, <4>1, <4>2 DEF ClaimsHold
      <4>4. QED
        BY <1>0, <2>2, <2>3, <4>1, <4>2, <4>3 DEF ClaimsHold
    <3>2. QED
      BY <3>1 DEF ClaimsHold, Exists
  <2>5. QED
    <3>1. TypeOK'
      BY <1>0, <1>9, <2>1, <2>2, CommitIs DEF TypeOK
    <3>2. \A r \in Replica : \A s \in job[r].todo : rule'[s].status # "unused"
      BY <1>0, <2>3 DEF JobsOK
    <3>3. QED
      BY <1>0, <2>1, <2>4, <3>1, <3>2 DEF Typed, LockOK, Exists
<1>10. ASSUME NEW s \in SeriesId, NEW d \in Date, UpdateEndsOn(s, d) \/ End(s, d) PROVE Typed'
  <2>1. \A t \in SeriesId : rule'[t].status # "unused" <=> Exists(t)
    BY <1>0, <1>10, EndsOnIs DEF Exists, Rule
  <2>2. UNCHANGED <<today, other, closed, work, job, lock, mishaps>>
    BY <1>0, <1>10, EndsOnIs
  <2>3. TypeOK'
    BY <1>0, <1>10, <2>2, EndsOnIs DEF TypeOK
  <2>4. ClaimsHold'
    BY <1>0, <2>1, <2>2, ClaimsStay DEF Exists
  <2>5. QED
    BY <1>0, <2>1, <2>2, <2>3, <2>4 DEF Typed, LockOK, JobsOK, Exists
<1>11. ASSUME NEW s \in SeriesId, NEW d \in Date, NEW to \in {"completed", "no_show"},
              CancelWeek(s, d) \/ MarkWeek(s, d, to)
       PROVE  Typed'
  <2>1. /\ occurrence' \in [SeriesId -> [Date -> Status]]
        /\ UNCHANGED <<today, rule, other, closed, work, job, lock, mishaps, excused>>
    BY <1>0, <1>11, WeekIs DEF CancelWeek, MarkWeek, Status
  <2>2. QED
    BY <1>0, <2>1 DEF Typed, TypeOK, ClaimsHold, Exists
<1>12. ASSUME NEW d \in Wanted, BookOther(d) \/ CancelOther(d) PROVE Typed'
  <2>1. d \in Date
    BY InputsAssumption DEF Date
  <2>2. QED
    BY <1>0, <1>12, <2>1 DEF BookOther, CancelOther, Typed, TypeOK, ClaimsHold, Exists
<1>13. ASSUME Tick PROVE Typed'
  <2>1. today' \in Date
    BY <1>0, <1>13, DatesAssumption DEF Tick, Date
  <2>2. QED
    BY <1>0, <1>13, <2>1 DEF Tick, Typed, TypeOK, ClaimsHold, Exists
<1>14. ASSUME NEW r \in Replica, NEW q \in Session, StartJob(r, q) PROVE Typed'
  <2>1. UNCHANGED <<today, rule, occurrence, other, closed, work, mishaps, excused>>
    BY <1>14 DEF StartJob
  <2>2. LockOK(lock')
    BY <1>0, <1>14, LockSteps DEF StartJob
  <2>3. JobsOK(job') /\ \A t \in Replica : \A s \in job'[t].todo : Exists(s)
    <3>1. job' = [job EXCEPT ![r] = [phase |-> "running",
                                     todo |-> {s \in SeriesId : rule[s].status = "active"}]]
      BY <1>14 DEF StartJob
    <3>2. QED
      BY <1>0, <3>1 DEF JobsOK, Exists
  <2>4. QED
    BY <1>0, <2>1, <2>2, <2>3 DEF Typed, TypeOK, ClaimsHold, LockOK, JobsOK, Exists
<1>15. ASSUME NEW r \in Replica, NEW q \in Session, FinishJob(r, q) PROVE Typed'
  <2>1. UNCHANGED <<today, rule, occurrence, other, closed, work, mishaps, excused>>
    BY <1>15 DEF FinishJob
  <2>2. LockOK(lock')
    BY <1>0, <1>15, LockSteps DEF FinishJob
  <2>3. JobsOK(job') /\ \A t \in Replica : \A s \in job'[t].todo : Exists(s)
    BY <1>0, <1>15 DEF FinishJob, JobsOK, NoJob, Exists
  <2>4. QED
    BY <1>0, <2>1, <2>2, <2>3 DEF Typed, TypeOK, ClaimsHold, LockOK, JobsOK, Exists
<1>16. ASSUME NEW q \in Session, CloseSession(q) PROVE Typed'
  <2>1. /\ UNCHANGED <<today, rule, occurrence, other, closed, work, job, mishaps, excused>>
        /\ LockOK(lock')
    BY <1>0, <1>16, LockSteps DEF CloseSession
  <2>2. QED
    BY <1>0, <2>1 DEF Typed, TypeOK, ClaimsHold, LockOK, Exists
<1>17. ASSUME NEW r \in Replica, Crash(r) PROVE Typed'
  <2>1. /\ r \in Worker /\ mishaps' \in 0 .. MaxMishaps
        /\ UNCHANGED <<today, rule, occurrence, other, closed, excused>>
        /\ work' = [work EXCEPT ![r] = Idle]
    BY <1>0, <1>17, BoundsAssumption DEF Crash, Worker
  <2>2. LockOK(lock')
    BY <1>0, <1>17, LockSteps DEF Crash
  <2>3. JobsOK(job') /\ \A q \in Replica : job'[q].todo \subseteq job[q].todo
    BY <1>0, <1>17 DEF Crash, JobsOK, NoJob
  <2>4. QED
    BY <1>0, <1>7, <2>1, <2>2, <2>3
<1>18. CASE UNCHANGED vars
  BY <1>0, <1>18 DEF vars, Typed, TypeOK, ClaimsHold, Exists
<1>19. QED
  BY <1>1, <1>3, <1>4, <1>5, <1>6, <1>8, <1>9, <1>10, <1>11, <1>12, <1>13, <1>14, <1>15,
     <1>16, <1>17, <1>18 DEF Next, Step

---------------------------------------------------------------------------
\* A date is sold once.

SoldApart ==
  /\ \A s, t \in SeriesId, d \in Date : Occupies(s, d) /\ Occupies(t, d) => s = t
  /\ \A s \in SeriesId, d \in other : ~Occupies(s, d)

\* What an open transaction has inserted nobody else has, nor has the series
\* a booking there that counts.
InsertsApart ==
  \A w \in Worker : \A d \in Inserted(w) :
    /\ ~Sold(d) /\ ~Live(work[w].series, d)
    /\ \A v \in Worker : d \in Inserted(v) => v = w

SoldInv == Typed /\ SoldApart /\ InsertsApart

LEMMA InsertedIsDates ==
  ASSUME TypeOK, NEW w \in Worker
  PROVE  /\ Inserted(w) \in SUBSET Date
         /\ Inserted(w) # {} => work[w].phase = "insert" /\ work[w] # Idle /\ work[w].series \in SeriesId
<1>1. work[w] \in {Idle} \cup Materialising
  BY DEF TypeOK
<1>2. QED
  BY <1>1, WorkTypes DEF Inserted

\* A step in which nobody inserts and no date is sold anew.
LEMMA SoldLess ==
  ASSUME SoldInv,
         \A w \in Worker : \A d \in Inserted(w)' :
            d \in Inserted(w) /\ work'[w].series = work[w].series,
         \A s \in SeriesId, d \in Date : /\ Occupies(s, d)' => Occupies(s, d)
                                         /\ Live(s, d)' => Live(s, d),
         other' \subseteq other
  PROVE  SoldApart' /\ InsertsApart'
<1>1. other \subseteq Date /\ TypeOK
  BY DEF SoldInv, Typed, TypeOK
<1>2. SoldApart'
  BY <1>1 DEF SoldInv, SoldApart
<1>3. ASSUME NEW w \in Worker, NEW d \in Inserted(w)'
      PROVE  /\ ~Sold(d)' /\ occurrence'[work'[w].series][d] \in {"none", "cancelled"}
             /\ \A v \in Worker : d \in Inserted(v)' => v = w
  <2>1. d \in Inserted(w) /\ d \in Date /\ work[w].series \in SeriesId /\ work'[w].series = work[w].series
    BY <1>1, <1>3, InsertedIsDates
  <2>2. ~Sold(d) /\ ~Live(work[w].series, d) /\ \A v \in Worker : d \in Inserted(v) => v = w
    BY <2>1 DEF SoldInv, InsertsApart
  <2>3. ~Sold(d)'
    BY <2>1, <2>2 DEF Sold
  <2>4. ~Live(work[w].series, d)'
    BY <2>1, <2>2
  <2>5. QED
    BY <2>1, <2>2, <2>3, <2>4 DEF Live
<1>4. QED
  BY <1>2, <1>3 DEF InsertsApart, Live

\* A step of one worker's call after which it has inserted nothing, and in
\* which the calendar does not change.
LEMMA NothingSold ==
  ASSUME SoldInv, NEW w \in Worker, UNCHANGED <<occurrence, other>>,
         \A v \in Worker \ {w} : work'[v] = work[v],
         work'[w].phase = "insert" => work'[w].inserted = {}
  PROVE  SoldApart' /\ InsertsApart'
<1>1. \A v \in Worker : \A d \in Inserted(v)' :
         d \in Inserted(v) /\ work'[v].series = work[v].series
  BY DEF Inserted
<1>2. QED
  BY <1>1, SoldLess DEF Occupies, Live

LEMMA SoldStep == SoldInv /\ Typed' /\ [Next]_vars => SoldInv'
<1> SUFFICES ASSUME SoldInv, Typed', [Next]_vars PROVE SoldApart' /\ InsertsApart'
  BY DEF SoldInv
<1>0. TypeOK /\ Typed /\ SoldApart /\ InsertsApart
  BY DEF SoldInv, Typed
<1>1. ASSUME NEW w \in Worker, NEW s \in SeriesId, NEW r, NEW new, NEW through, Begin(w, s, r, new, through),
             UNCHANGED <<occurrence, other>>
      PROVE  SoldApart' /\ InsertsApart'
  <2>1. work'[w].phase = "read" /\ \A v \in Worker \ {w} : work'[v] = work[v]
    BY <1>0, <1>1 DEF Begin, TypeOK
  <2>2. QED
    BY <1>1, <2>1, NothingSold
<1>2. ASSUME NEW c \in Clerk, NEW s \in SeriesId, NEW weeks \in 1 .. HorizonWeeks,
             (\E terms \in Terms : Create(c, s, terms, weeks)) \/ Extend(c, s, weeks)
      PROVE  SoldApart' /\ InsertsApart'
  BY <1>1, <1>2 DEF Create, Extend, Worker
<1>3. ASSUME NEW r \in Replica, NEW s \in SeriesId, RollOne(r, s) PROVE SoldApart' /\ InsertsApart'
  BY <1>1, <1>3 DEF RollOne, Worker
<1>4. ASSUME NEW w \in Worker, ReadBooked(w) PROVE SoldApart' /\ InsertsApart'
  <2>1. UNCHANGED <<occurrence, other>>
    BY <1>4 DEF ReadBooked
  <2>2. QED
    BY <1>0, <1>4, <2>1, ReadBookedIs, NothingSold
<1>5. ASSUME NEW w \in Worker, work' = [work EXCEPT ![w] = Idle], UNCHANGED <<occurrence, other>>
      PROVE  SoldApart' /\ InsertsApart'
  <2>1. work'[w].phase = "idle" /\ \A v \in Worker \ {w} : work'[v] = work[v]
    BY <1>0, <1>5 DEF TypeOK, Idle
  <2>2. QED
    BY <1>5, <2>1, NothingSold
<1>6. ASSUME NEW w \in Worker, InsertClash(w) \/ Fail(w) PROVE SoldApart' /\ InsertsApart'
  BY <1>5, <1>6 DEF InsertClash, Fail
<1>7. ASSUME NEW r \in Replica, Crash(r) PROVE SoldApart' /\ InsertsApart'
  BY <1>5, <1>7 DEF Crash, Worker
<1>8. ASSUME NEW w \in Worker, InsertOne(w) PROVE SoldApart' /\ InsertsApart'
  <2> DEFINE n == NextDate(w)
  <2>1. UNCHANGED <<occurrence, other>> /\ ~Awaited(n) /\ ~Sold(n) /\ ~Live(work[w].series, n)
    BY <1>8 DEF InsertOne
  <2>2. SoldApart'
    BY <1>0, <2>1 DEF SoldApart, Occupies
  <2>3. /\ \A v \in Worker \ {w} : Inserted(v)' = Inserted(v) /\ work'[v].series = work[v].series
        /\ Inserted(w)' = Inserted(w) \cup {n} /\ work'[w].series = work[w].series
    BY <1>0, <1>8, InsertOneIs DEF Inserted
  <2>4. \A v \in Worker : n \notin Inserted(v)
    BY <2>1 DEF Awaited
  <2>5. ASSUME NEW v \in Worker, NEW d \in Inserted(v)'
        PROVE  /\ ~Sold(d)' /\ occurrence'[work'[v].series][d] \in {"none", "cancelled"}
               /\ \A u \in Worker : d \in Inserted(u)' => u = v
    <3>1. ~Sold(d) /\ ~Live(work[v].series, d) /\ work'[v].series = work[v].series
      BY <1>0, <2>1, <2>3, <2>5 DEF InsertsApart
    <3>2. ASSUME NEW u \in Worker, d \in Inserted(u)' PROVE u = v
      <4>1. CASE d = n
        <5>1. u = w /\ v = w
          BY <2>3, <2>4, <2>5, <3>2, <4>1
        <5>2. QED
          BY <5>1
      <4>2. CASE d # n
        <5>1. d \in Inserted(u) /\ d \in Inserted(v)
          BY <2>3, <2>5, <3>2, <4>2
        <5>2. QED
          BY <1>0, <5>1 DEF InsertsApart
      <4>3. QED
        BY <4>1, <4>2
    <3>3. QED
      BY <2>1, <3>1, <3>2 DEF Sold, Live, Occupies
  <2>6. QED
    BY <2>2, <2>5 DEF InsertsApart, Live
<1>9. ASSUME NEW w \in Worker, Commit(w) PROVE SoldApart' /\ InsertsApart'
  <2> DEFINE s == work[w].series
             I == work[w].inserted
  <2>1. /\ s \in SeriesId /\ I \in SUBSET Date /\ I = Inserted(w)
        /\ \A t \in SeriesId \ {s} : occurrence'[t] = occurrence[t]
        /\ \A d \in Date : occurrence'[s][d] = IF d \in I THEN "confirmed" ELSE occurrence[s][d]
        /\ UNCHANGED other
    BY <1>0, <1>9, CommitIs DEF Inserted, Commit
  <2>2. \A d \in I : ~Sold(d) /\ \A v \in Worker : d \in Inserted(v) => v = w
    BY <1>0, <2>1 DEF InsertsApart
  <2>3. \A t \in SeriesId, d \in Date : Occupies(t, d)' => Occupies(t, d) \/ (t = s /\ d \in I)
    BY <2>1 DEF Occupies
  <2>4. \A t \in SeriesId, d \in I : ~Occupies(t, d) /\ d \notin other
    BY <2>2 DEF Sold
  <2>5. SoldApart'
    <3>1. other \subseteq Date
      BY <1>0 DEF TypeOK
    <3>2. ASSUME NEW t \in SeriesId, NEW u \in SeriesId, NEW d \in Date, Occupies(t, d)', Occupies(u, d)'
          PROVE  t = u
      BY <1>0, <2>3, <2>4, <3>2 DEF SoldApart
    <3>3. ASSUME NEW t \in SeriesId, NEW d \in other PROVE ~Occupies(t, d)'
      BY <1>0, <2>3, <2>4, <3>1, <3>3 DEF SoldApart
    <3>4. QED
      BY <2>1, <3>2, <3>3 DEF SoldApart
  <2>6. \A v \in Worker : \A d \in Inserted(v)' : v # w /\ d \in Inserted(v) /\ work'[v].series = work[v].series
    <3>1. work' = [work EXCEPT ![w] = Idle]
      BY <1>9 DEF Commit
    <3>2. work'[w].phase = "idle" /\ \A v \in Worker \ {w} : work'[v] = work[v]
      BY <1>0, <3>1 DEF TypeOK, Idle
    <3>3. QED
      BY <3>2 DEF Inserted
  <2>7. ASSUME NEW v \in Worker, NEW d \in Inserted(v)'
        PROVE  /\ ~Sold(d)' /\ occurrence'[work'[v].series][d] \in {"none", "cancelled"}
               /\ \A u \in Worker : d \in Inserted(u)' => u = v
    <3>1. v # w /\ d \in Inserted(v) /\ d \in Date /\ work'[v].series = work[v].series
      BY <1>0, <2>6, <2>7, InsertedIsDates
    <3>2. ~Sold(d) /\ ~Live(work[v].series, d) /\ \A u \in Worker : d \in Inserted(u) => u = v
      BY <1>0, <3>1 DEF InsertsApart
    <3>3. d \notin I
      BY <2>2, <3>1
    <3>4. ~Sold(d)'
      BY <2>1, <2>3, <3>1, <3>2, <3>3 DEF Sold
    <3>5. occurrence'[work[v].series][d] = occurrence[work[v].series][d]
      <4>1. work[v].series \in SeriesId
        BY <1>0, <3>1, InsertedIsDates
      <4>2. QED
        BY <2>1, <3>1, <3>3, <4>1
    <3>6. QED
      BY <2>6, <3>1, <3>2, <3>4, <3>5 DEF Live
  <2>8. QED
    BY <2>5, <2>7 DEF InsertsApart, Live
<1>10. ASSUME UNCHANGED <<work, other>>,
              \A t \in SeriesId, e \in Date : /\ Occupies(t, e)' => Occupies(t, e)
                                              /\ Live(t, e)' => Live(t, e)
       PROVE  SoldApart' /\ InsertsApart'
  <2>1. \A w \in Worker : \A d \in Inserted(w)' :
          d \in Inserted(w) /\ work'[w].series = work[w].series
    BY <1>10 DEF Inserted
  <2>2. QED
    BY <1>10, <2>1, SoldLess
<1>11. ASSUME NEW s \in SeriesId, NEW d \in Date, UpdateEndsOn(s, d) \/ End(s, d)
       PROVE  SoldApart' /\ InsertsApart'
  BY <1>0, <1>10, <1>11, EndsOnIs DEF Occupies, Live
<1>12. ASSUME NEW s \in SeriesId, NEW d \in Date, CancelWeek(s, d) PROVE SoldApart' /\ InsertsApart'
  <2>1. \A t \in SeriesId, e \in Date :
          occurrence'[t][e] = IF t = s /\ e = d THEN "cancelled" ELSE occurrence[t][e]
    <3>1. "cancelled" \in Status /\ occurrence' = [occurrence EXCEPT ![s][d] = "cancelled"]
      BY <1>12 DEF CancelWeek, Status
    <3>2. QED
      BY <1>0, <3>1, WeekIs
  <2>2. QED
    BY <1>10, <1>12, <2>1 DEF CancelWeek, Occupies, Live
<1>13. ASSUME NEW s \in SeriesId, NEW d \in Date, NEW to \in {"completed", "no_show"}, MarkWeek(s, d, to)
       PROVE  SoldApart' /\ InsertsApart'
  <2>1. \A t \in SeriesId, e \in Date :
          occurrence'[t][e] = IF t = s /\ e = d THEN to ELSE occurrence[t][e]
    <3>1. to \in Status /\ occurrence' = [occurrence EXCEPT ![s][d] = to]
      BY <1>13 DEF MarkWeek, Status
    <3>2. QED
      BY <1>0, <3>1, WeekIs
  <2>2. Live(s, d) /\ UNCHANGED <<work, other>>
    BY <1>13 DEF MarkWeek
  <2>3. CASE to = "no_show" \/ Occupies(s, d)
    BY <1>10, <2>1, <2>2, <2>3 DEF Occupies, Live
  <2>4. CASE to = "completed" /\ ~Sold(d) /\ ~Awaited(d)
    <3>1. \A t \in SeriesId, e \in Date : Occupies(t, e)' <=> Occupies(t, e) \/ (t = s /\ e = d)
      BY <2>1, <2>4 DEF Occupies
    <3>2. \A t \in SeriesId : ~Occupies(t, d)
      BY <2>4 DEF Sold
    <3>3. SoldApart'
      BY <1>0, <2>2, <2>4, <3>1, <3>2 DEF SoldApart, Sold, TypeOK
    <3>4. ASSUME NEW w \in Worker, NEW e \in Inserted(w)'
          PROVE  /\ ~Sold(e)' /\ occurrence'[work'[w].series][e] \in {"none", "cancelled"}
                 /\ \A v \in Worker : e \in Inserted(v)' => v = w
      <4>1. \A v \in Worker : Inserted(v)' = Inserted(v) /\ work'[v].series = work[v].series
        BY <2>2 DEF Inserted
      <4>2. e \in Inserted(w) /\ e \in Date /\ work[w].series \in SeriesId /\ e # d
        BY <1>0, <2>4, <3>4, <4>1, InsertedIsDates DEF Awaited
      <4>3. ~Sold(e) /\ ~Live(work[w].series, e) /\ \A v \in Worker : e \in Inserted(v) => v = w
        BY <1>0, <4>2 DEF InsertsApart
      <4>4. QED
        BY <2>1, <2>2, <3>1, <4>1, <4>2, <4>3 DEF Sold, Live
    <3>5. QED
      BY <3>3, <3>4 DEF InsertsApart, Live
  <2>5. QED
    BY <1>13, <2>3, <2>4 DEF MarkWeek
<1>14. ASSUME NEW d \in Wanted, BookOther(d) PROVE SoldApart' /\ InsertsApart'
  <2>1. ~Sold(d) /\ ~Awaited(d) /\ other' = other \cup {d} /\ UNCHANGED <<work, occurrence>>
    BY <1>14 DEF BookOther
  <2>2. SoldApart'
    BY <1>0, <2>1 DEF SoldApart, Sold, Occupies
  <2>3. InsertsApart'
    BY <1>0, <2>1 DEF InsertsApart, Inserted, Sold, Awaited, Live, Occupies
  <2>4. QED
    BY <2>2, <2>3
<1>15. ASSUME NEW d \in Wanted, CancelOther(d) PROVE SoldApart' /\ InsertsApart'
  <2>1. other' \subseteq other /\ UNCHANGED <<work, occurrence>>
    BY <1>15 DEF CancelOther
  <2>2. \A w \in Worker : \A e \in Inserted(w)' :
          e \in Inserted(w) /\ work'[w].series = work[w].series
    BY <2>1 DEF Inserted
  <2>3. QED
    BY <2>1, <2>2, SoldLess DEF Occupies, Live
<1>16. ASSUME \/ Tick \/ UNCHANGED vars
              \/ \E r \in Replica, q \in Session : StartJob(r, q) \/ FinishJob(r, q)
              \/ \E q \in Session : CloseSession(q)
       PROVE  SoldApart' /\ InsertsApart'
  BY <1>10, <1>16 DEF Tick, StartJob, FinishJob, CloseSession, vars, Occupies, Live
<1>17. QED
  BY <1>2, <1>3, <1>4, <1>6, <1>7, <1>8, <1>9, <1>11, <1>12, <1>13, <1>14, <1>15, <1>16
     DEF Next, Step

LEMMA InitSoldInv == Init => SoldInv
<1> SUFFICES ASSUME Init PROVE SoldInv
  OBVIOUS
<1>1. Typed
  BY InitTyped
<1>2. \A s \in SeriesId, d \in Date : ~Occupies(s, d)
  BY DEF Init, Occupies
<1>3. \A w \in Worker : Inserted(w) = {}
  BY DEF Init, Inserted, Idle
<1>4. QED
  BY <1>1, <1>2, <1>3 DEF SoldInv, SoldApart, InsertsApart, Init

\* Whoever has sold a date, or has inserted a booking for it, is the only one.
LEMMA OneHasTheHour ==
  ASSUME SoldInv
  PROVE  HourSoldOnce
<1> SUFFICES ASSUME NEW d \in Date
             PROVE  Cardinality({s \in SeriesId : Occupies(s, d)} \cup (IF d \in other THEN {"other"} ELSE {})
                                \cup {w \in Worker : d \in Inserted(w)}) <= 1
  BY DEF HourSoldOnce
<1> DEFINE A == {s \in SeriesId : Occupies(s, d)}
           B == IF d \in other THEN {"other"} ELSE {}
           C == {w \in Worker : d \in Inserted(w)}
<1>0. SoldApart /\ InsertsApart
  BY DEF SoldInv
<1>1. \A s, t \in A : s = t
  BY <1>0 DEF SoldApart
<1>2. B # {} => A = {}
  BY <1>0 DEF SoldApart
<1>3. C # {} => A = {} /\ B = {}
  BY <1>0 DEF InsertsApart, Sold
<1>4. \A v, w \in C : v = w
  BY <1>0 DEF InsertsApart
<1>5. \A x, y \in A \cup B \cup C : x = y
  BY <1>1, <1>2, <1>3, <1>4
<1>6. CASE A \cup B \cup C = {}
  BY <1>6, FS_EmptySet
<1>7. CASE A \cup B \cup C # {}
  <2>1. PICK x : A \cup B \cup C = {x}
    BY <1>5, <1>7
  <2>2. Cardinality({x}) = 1
    BY FS_Singleton
  <2>3. QED
    BY <2>1, <2>2
<1>8. QED
  BY <1>6, <1>7

\* The rows and the calls have their types, and a date is sold once, whoever
\* inserts: for any number of series, workers and replicas.
THEOREM CalendarAlwaysSound == Spec => []CalendarIsSound
<1>1. SoldInv /\ [Next]_vars => SoldInv'
  BY TypedStep, SoldStep DEF SoldInv
<1>2. SoldInv => CalendarIsSound
  BY OneHasTheHour DEF SoldInv, Typed, CalendarIsSound
<1>3. QED
  BY InitSoldInv, <1>1, <1>2, PTL DEF Spec

\* None of the owner's commands on a series, of the job's runs or of the
\* reruns takes a played or missed week off the books.
THEOREM HistoryAlwaysStays == Spec => HistoryStays
<1>1. SoldInv /\ [Next]_vars =>
        [\A s \in SeriesId, d \in Date :
           /\ occurrence[s][d] \in {"completed", "no_show"}
           /\ occurrence'[s][d] \notin {"completed", "no_show"}
           => CancelWeek(s, d)]_vars
  <2> SUFFICES ASSUME SoldInv, Next, NEW s \in SeriesId, NEW d \in Date,
                      occurrence[s][d] \in {"completed", "no_show"},
                      occurrence'[s][d] \notin {"completed", "no_show"}
               PROVE  CancelWeek(s, d)
    BY DEF vars
  <2>0. TypeOK /\ Typed /\ InsertsApart
    BY DEF SoldInv, Typed
  <2>1. ASSUME NEW w \in Worker, Commit(w) PROVE FALSE
    <3>1. /\ work[w].phase = "insert"
          /\ \A t \in SeriesId \ {work[w].series} : occurrence'[t] = occurrence[t]
          /\ occurrence'[work[w].series][d] =
               IF d \in work[w].inserted THEN "confirmed" ELSE occurrence[work[w].series][d]
      BY <2>0, <2>1, CommitIs
    <3>2. ~Live(s, d)
      <4>1. s = work[w].series /\ d \in work[w].inserted
        BY <3>1
      <4>2. QED
        BY <2>0, <3>1, <4>1 DEF InsertsApart, Inserted
    <3>3. QED
      BY <3>2 DEF Live
  <2>2. ASSUME NEW t \in SeriesId, NEW e \in Date, UpdateEndsOn(t, e) \/ End(t, e) PROVE FALSE
    BY <2>0, <2>2, EndsOnIs
  <2>3. ASSUME NEW t \in SeriesId, NEW e \in Date, CancelWeek(t, e) PROVE t = s /\ e = d
    BY <2>0, <2>3 DEF CancelWeek, TypeOK
  <2>4. ASSUME NEW t \in SeriesId, NEW e \in Date, NEW to \in {"completed", "no_show"}, MarkWeek(t, e, to)
        PROVE  FALSE
    BY <2>0, <2>4 DEF MarkWeek, TypeOK
  <2>5. occurrence' # occurrence
    OBVIOUS
  <2>6. QED
    BY <2>1, <2>2, <2>3, <2>4, <2>5
       DEF Next, Step, Create, Extend, RollOne, ReadBooked, InsertOne, InsertClash, Fail, BookOther,
           CancelOther, Tick, StartJob, FinishJob, CloseSession, Crash
<1>2. SoldInv /\ [Next]_vars => SoldInv'
  BY TypedStep, SoldStep DEF SoldInv
<1>3. QED
  BY InitSoldInv, <1>1, <1>2, PTL DEF Spec, HistoryStays

---------------------------------------------------------------------------
\* Up to materialised_through a series has no hole.  The rule's dates are each
\* accounted for from the moment a call reads the rule: the call has the date
\* in hand, or there is a booking, or the date is excused.  The end of a
\* series may be moved while the call is at work, but never away from dates
\* that are neither booked nor excused.

NoHoleToTheCap ==
  \A s \in SeriesId, d \in Date :
    Exists(s) /\ d <= rule[s].through /\ OfRule(rule[s], d)
    => occurrence[s][d] # "none" \/ d \in excused[s]

EndsExcused == \A s \in SeriesId, d \in Date : Exists(s) /\ Past(rule[s], d) => d \in excused[s]

InHand(w, d) ==
  IF work[w].phase = "read" THEN d \in work[w].dates
  ELSE d \in work[w].todo \cup work[w].inserted \cup work[w].shut \/ occurrence[work[w].series][d] # "none"

NoneForgottenBy(w) ==
  \A d \in Date :
    work[w] # Idle /\ d <= work[w].through /\ OfRule(Row(w), d)
    => \/ InHand(w, d) \/ d \in excused[work[w].series]
       \/ work[w].new # NoRule /\ Past(work[w].new, d)

HoleInv == Typed /\ NoHoleToTheCap /\ EndsExcused /\ \A w \in Worker : NoneForgottenBy(w)

\* What no step takes back: a rule and its dates, a booking's row, an excuse.
Grows ==
  \A s \in SeriesId :
    /\ Exists(s) => /\ rule'[s].status # "unused"
                    /\ rule'[s].dayOfWeek = rule[s].dayOfWeek
                    /\ rule'[s].startsOn = rule[s].startsOn
    /\ \A d \in Date : occurrence[s][d] # "none" => occurrence'[s][d] # "none"
    /\ excused[s] \subseteq excused'[s]

LEMMA GrowsWithStep == Typed /\ [Next]_vars => Grows
<1> SUFFICES ASSUME Typed, [Next]_vars PROVE Grows
  OBVIOUS
<1>0. TypeOK
  BY DEF Typed
<1>1. CASE UNCHANGED <<rule, occurrence, excused>>
  BY <1>1 DEF Grows, Exists
<1>2. ASSUME NEW w \in Worker, Commit(w) PROVE Grows
  <2>1. ASSUME NEW s \in SeriesId, s = work[w].series
        PROVE  /\ Exists(s) => /\ rule'[s].status # "unused"
                               /\ rule'[s].dayOfWeek = rule[s].dayOfWeek
                               /\ rule'[s].startsOn = rule[s].startsOn
               /\ \A d \in Date : occurrence[s][d] # "none" => occurrence'[s][d] # "none"
               /\ excused[s] \subseteq excused'[s]
    <3>1. /\ rule'[s] = [Row(w) EXCEPT !.through = work[w].through] /\ Row(w) \in Rule
          /\ work[w] # Idle
          /\ \A d \in Date : occurrence'[s][d] = IF d \in work[w].inserted THEN "confirmed" ELSE occurrence[s][d]
          /\ excused[s] \subseteq excused'[s]
      BY <1>2, <2>1, CommitIs
    <3>2. Exists(s) => Row(w) = rule[s]
      BY <2>1, <3>1 DEF Typed, ClaimsHold, Row
    <3>3. Exists(s) => /\ rule'[s].status # "unused"
                       /\ rule'[s].dayOfWeek = rule[s].dayOfWeek
                       /\ rule'[s].startsOn = rule[s].startsOn
      BY <3>1, <3>2 DEF Rule
    <3>4. QED
      BY <3>1, <3>3
  <2>2. ASSUME NEW s \in SeriesId, s # work[w].series
        PROVE  rule'[s] = rule[s] /\ occurrence'[s] = occurrence[s] /\ excused'[s] = excused[s]
    BY <1>2, <2>2, CommitIs
  <2>3. QED
    BY <2>1, <2>2 DEF Grows, Exists
<1>3. ASSUME NEW s \in SeriesId, NEW d \in Date, UpdateEndsOn(s, d) \/ End(s, d) PROVE Grows
  <2>1. \A t \in SeriesId : /\ excused[t] \subseteq excused'[t]
                            /\ \A e \in Date : occurrence[t][e] # "none" => occurrence'[t][e] # "none"
    BY <1>0, <1>3, EndsOnIs
  <2>2. \A t \in SeriesId : Exists(t) => /\ rule'[t].status # "unused"
                                         /\ rule'[t].dayOfWeek = rule[t].dayOfWeek
                                         /\ rule'[t].startsOn = rule[t].startsOn
    BY <1>0, <1>3, EndsOnIs DEF Exists, Rule
  <2>3. QED
    BY <2>1, <2>2 DEF Grows
<1>4. ASSUME NEW s \in SeriesId, NEW d \in Date, NEW to \in {"cancelled", "completed", "no_show"},
             occurrence' = [occurrence EXCEPT ![s][d] = to], UNCHANGED <<rule, excused>>
      PROVE  Grows
  <2>1. to \in Status
    BY DEF Status
  <2>2. QED
    BY <1>0, <1>4, <2>1, WeekIs DEF Grows, Exists
<1>5. ASSUME NEW s \in SeriesId, NEW d \in Date,
             CancelWeek(s, d) \/ \E to \in {"completed", "no_show"} : MarkWeek(s, d, to)
      PROVE  Grows
  BY <1>4, <1>5 DEF CancelWeek, MarkWeek
<1>6. QED
  BY <1>1, <1>2, <1>3, <1>5
     DEF Next, Step, Create, Extend, RollOne, ReadBooked, InsertOne, InsertClash, Fail, BookOther,
         CancelOther, Tick, StartJob, FinishJob, CloseSession, Crash, vars

\* A call that stays where it was forgets nothing while others go on.
LEMMA OthersForgetNothing ==
  ASSUME Typed, Grows, NEW w \in Worker, NoneForgottenBy(w), work'[w] = work[w]
  PROVE  NoneForgottenBy(w)'
<1> SUFFICES ASSUME NEW d \in Date, work[w] # Idle, d <= work[w].through, OfRule(Row(w)', d)
             PROVE  \/ InHand(w, d)' \/ d \in excused'[work[w].series]
                    \/ work[w].new # NoRule /\ Past(work[w].new, d)
  BY DEF NoneForgottenBy
<1>1. work[w].series \in SeriesId
  <2>1. work[w] \in {Idle} \cup Materialising
    BY DEF Typed, TypeOK
  <2>2. QED
    BY <2>1, WorkTypes
<1>2. OfRule(Row(w), d)
  BY <1>1 DEF Typed, ClaimsHold, Grows, Row, OfRule, First
<1>3. \/ InHand(w, d) \/ d \in excused[work[w].series]
      \/ work[w].new # NoRule /\ Past(work[w].new, d)
  BY <1>2 DEF NoneForgottenBy
<1>4. QED
  BY <1>1, <1>3 DEF Grows, InHand

\* A call that has just read the rule has every date of it in hand.
LEMMA BeginForgetsNothing ==
  ASSUME Typed, EndsExcused, Grows, UNCHANGED <<rule, excused>>,
         NEW w \in Worker, NEW s \in SeriesId, NEW r \in Rule, NEW new \in {r, NoRule},
         NEW through \in 0 .. Horizon, Begin(w, s, r, new, through),
         new = NoRule => Exists(s) /\ r = rule[s]
  PROVE  NoneForgottenBy(w)'
<1>0. TypeOK /\ new \in Rule \cup {NoRule}
  BY DEF Typed
<1>1. /\ work'[w].phase = "read" /\ work'[w].series = s /\ work'[w].new = new
      /\ work'[w].through = through /\ work'[w].dates = OccurrenceDates(r, through)
  BY <1>0, BeginTyped
<1> SUFFICES ASSUME NEW d \in Date, d <= work'[w].through, OfRule(Row(w)', d)
             PROVE  \/ InHand(w, d)' \/ d \in excused'[work'[w].series]
                    \/ work'[w].new # NoRule /\ Past(work'[w].new, d)
  BY DEF NoneForgottenBy
<1>2. r # NoRule
  BY RuleTypes
<1>3. OfRule(r, d) /\ through \in Nat /\ d <= through
  <2>1. Row(w)' = r
    BY <1>1, <1>2 DEF Row
  <2>2. through \in Nat
    BY DatesAssumption, BoundsAssumption DEF Horizon
  <2>3. QED
    BY <1>1, <2>1, <2>2
<1>4. d \in OccurrenceDates(r, through) \/ Past(r, d)
  BY <1>3, OccurrenceDatesAreAll
<1>5. d \in OccurrenceDates(r, through) => InHand(w, d)'
  BY <1>1 DEF InHand
<1>6. QED
  BY <1>1, <1>2, <1>4, <1>5 DEF EndsExcused

\* What a step leaves to show: the calls of the others forget nothing, and
\* what no longer has a rule of its own keeps its excuses.
LEMMA OneCallAtATime ==
  ASSUME HoleInv, Grows, NEW w \in Worker, NoneForgottenBy(w)',
         \A v \in Worker \ {w} : work'[v] = work[v]
  PROVE  \A v \in Worker : NoneForgottenBy(v)'
BY OthersForgetNothing DEF HoleInv

LEMMA HoleStep == HoleInv /\ [Next]_vars => HoleInv'
<1> SUFFICES ASSUME HoleInv, [Next]_vars
             PROVE  NoHoleToTheCap' /\ EndsExcused' /\ \A v \in Worker : NoneForgottenBy(v)'
  BY TypedStep DEF HoleInv
<1>0. TypeOK /\ Typed /\ NoHoleToTheCap /\ EndsExcused /\ Grows /\ \A v \in Worker : NoneForgottenBy(v)
  BY GrowsWithStep DEF HoleInv, Typed
<1>1. ASSUME UNCHANGED rule PROVE NoHoleToTheCap' /\ EndsExcused'
  BY <1>0, <1>1 DEF NoHoleToTheCap, OfRule, First, EndsExcused, Grows, Exists
<1>2. ASSUME UNCHANGED <<rule, work>>
      PROVE  NoHoleToTheCap' /\ EndsExcused' /\ \A v \in Worker : NoneForgottenBy(v)'
  BY <1>0, <1>1, <1>2, OthersForgetNothing
<1>3. ASSUME NEW w \in Worker, work' = [work EXCEPT ![w] = Idle]
      PROVE  \A v \in Worker : NoneForgottenBy(v)'
  <2>1. work'[w] = Idle /\ \A v \in Worker \ {w} : work'[v] = work[v]
    BY <1>0, <1>3, WorkEnds
  <2>2. NoneForgottenBy(w)'
    BY <2>1 DEF NoneForgottenBy
  <2>3. QED
    BY <1>0, <2>1, <2>2, OneCallAtATime
<1>4. ASSUME NEW w \in Worker, NEW s \in SeriesId, NEW r \in Rule, NEW new \in {r, NoRule},
             NEW weeks \in 0 .. HorizonWeeks, Begin(w, s, r, new, HorizonFrom(weeks)),
             new = NoRule => Exists(s) /\ r = rule[s], UNCHANGED <<rule, excused>>
      PROVE  NoHoleToTheCap' /\ EndsExcused' /\ \A v \in Worker : NoneForgottenBy(v)'
  <2>1. HorizonFrom(weeks) \in 0 .. Horizon /\ new \in Rule \cup {NoRule}
    BY <1>0, HorizonInReach DEF TypeOK
  <2>2. NoneForgottenBy(w)'
    BY <1>0, <1>4, <2>1, BeginForgetsNothing
  <2>3. \A v \in Worker \ {w} : work'[v] = work[v]
    BY <1>0, <1>4, <2>1, BeginTyped
  <2>4. QED
    BY <1>1, <1>4, <2>2, <2>3, <1>0, OneCallAtATime
<1>5. ASSUME NEW c \in Clerk, NEW s \in SeriesId, NEW weeks \in 1 .. HorizonWeeks,
             NEW terms \in Terms, Create(c, s, terms, weeks)
      PROVE  NoHoleToTheCap' /\ EndsExcused' /\ \A v \in Worker : NoneForgottenBy(v)'
  <2>1. PICK r \in Rule : Begin(c, s, r, r, HorizonFrom(weeks)) /\ UNCHANGED <<rule, excused>>
    <3>1. PICK r : r = [status |-> "active", dayOfWeek |-> terms.day, startsOn |-> terms.from,
                        endsOn |-> terms.to, through |-> NoDate]
      OBVIOUS
    <3>2. r \in Rule
      BY <3>1, TermsAssumption, DatesAssumption, BoundsAssumption DEF Rule, Date, NoDate, Horizon
    <3>3. QED
      BY <1>5, <3>1, <3>2 DEF Create
  <2>2. c \in Worker /\ weeks \in 0 .. HorizonWeeks /\ r # NoRule
    BY RuleTypes DEF Worker
  <2>3. QED
    BY <1>4, <2>1, <2>2
<1>6. ASSUME NEW w \in Worker, NEW s \in SeriesId, NEW weeks \in 0 .. HorizonWeeks, Exists(s),
             Begin(w, s, rule[s], NoRule, HorizonFrom(weeks)), UNCHANGED <<rule, excused>>
      PROVE  NoHoleToTheCap' /\ EndsExcused' /\ \A v \in Worker : NoneForgottenBy(v)'
  <2>1. rule[s] \in Rule
    BY <1>0, <1>6, RuleTypes DEF TypeOK, Exists
  <2>2. QED
    BY <1>4, <1>6, <2>1
<1>7. ASSUME NEW c \in Clerk, NEW s \in SeriesId, NEW weeks \in 1 .. HorizonWeeks, Extend(c, s, weeks)
      PROVE  NoHoleToTheCap' /\ EndsExcused' /\ \A v \in Worker : NoneForgottenBy(v)'
  BY <1>6, <1>7 DEF Extend, Worker
<1>8. ASSUME NEW r \in Replica, NEW s \in SeriesId, RollOne(r, s)
      PROVE  NoHoleToTheCap' /\ EndsExcused' /\ \A v \in Worker : NoneForgottenBy(v)'
  <2>1. Exists(s) /\ r \in Worker /\ HorizonWeeks \in 0 .. HorizonWeeks
    BY <1>0, <1>8, BoundsAssumption DEF RollOne, Typed, Worker
  <2>2. QED
    BY <1>6, <1>8, <2>1 DEF RollOne
<1>9. ASSUME NEW w \in Worker, ReadBooked(w)
      PROVE  NoHoleToTheCap' /\ EndsExcused' /\ \A v \in Worker : NoneForgottenBy(v)'
  <2>1. UNCHANGED <<rule, occurrence, excused>>
    BY <1>9 DEF ReadBooked
  <2>2. /\ \A v \in Worker \ {w} : work'[v] = work[v]
        /\ work[w].phase = "read" /\ work[w] # Idle /\ work'[w].phase = "insert"
        /\ work'[w].series = work[w].series /\ work'[w].new = work[w].new
        /\ work'[w].through = work[w].through
        /\ work'[w].todo = (work[w].dates \ Already(work[w].series)) \ closed
        /\ work'[w].shut = (work[w].dates \ Already(work[w].series)) \cap closed
    BY <1>0, <1>9, ReadBookedIs
  <2>3. \A d \in Date : InHand(w, d) => InHand(w, d)'
    BY <2>1, <2>2 DEF InHand, Already, Live
  <2>4. \A d \in Date : OfRule(Row(w)', d) => OfRule(Row(w), d)
    BY <2>1, <2>2 DEF Row
  <2>5. NoneForgottenBy(w)'
    BY <1>0, <2>1, <2>2, <2>3, <2>4 DEF NoneForgottenBy
  <2>6. QED
    BY <1>0, <1>1, <2>1, <2>2, <2>5, OneCallAtATime
<1>10. ASSUME NEW w \in Worker, InsertOne(w)
       PROVE  NoHoleToTheCap' /\ EndsExcused' /\ \A v \in Worker : NoneForgottenBy(v)'
  <2>1. UNCHANGED <<rule, occurrence, excused>>
    BY <1>10 DEF InsertOne
  <2>2. /\ \A v \in Worker \ {w} : work'[v] = work[v]
        /\ work[w].phase = "insert" /\ work[w] # Idle /\ work'[w].phase = "insert"
        /\ work'[w].series = work[w].series /\ work'[w].new = work[w].new
        /\ work'[w].through = work[w].through
        /\ work'[w].todo = work[w].todo \ {NextDate(w)}
        /\ work'[w].inserted = work[w].inserted \cup {NextDate(w)}
        /\ work'[w].shut = work[w].shut
    BY <1>0, <1>10, InsertOneIs
  <2>3. \A d \in Date : InHand(w, d) => InHand(w, d)'
    BY <2>1, <2>2 DEF InHand
  <2>4. \A d \in Date : OfRule(Row(w)', d) => OfRule(Row(w), d)
    BY <2>1, <2>2 DEF Row
  <2>5. NoneForgottenBy(w)'
    BY <1>0, <2>1, <2>2, <2>3, <2>4 DEF NoneForgottenBy
  <2>6. QED
    BY <1>0, <1>1, <2>1, <2>2, <2>5, OneCallAtATime
<1>11. ASSUME NEW w \in Worker, InsertClash(w) \/ Fail(w)
       PROVE  NoHoleToTheCap' /\ EndsExcused' /\ \A v \in Worker : NoneForgottenBy(v)'
  BY <1>1, <1>3, <1>11 DEF InsertClash, Fail
<1>12. ASSUME NEW w \in Worker, Commit(w)
       PROVE  NoHoleToTheCap' /\ EndsExcused' /\ \A v \in Worker : NoneForgottenBy(v)'
  <2> DEFINE s == work[w].series
  <2>1. /\ s \in SeriesId /\ work[w].phase = "insert" /\ work[w] # Idle /\ work[w].todo = {}
        /\ Row(w) \in Rule
        /\ rule'[s] = [Row(w) EXCEPT !.through = work[w].through]
        /\ \A t \in SeriesId \ {s} : rule'[t] = rule[t]
        /\ \A d \in Date : occurrence'[s][d] =
             IF d \in work[w].inserted THEN "confirmed" ELSE occurrence[s][d]
        /\ excused'[s] = excused[s] \cup work[w].shut \cup {d \in Date : Past(Row(w), d)}
    BY <1>0, <1>12, CommitIs
  <2>2. /\ rule'[s].dayOfWeek = Row(w).dayOfWeek /\ rule'[s].startsOn = Row(w).startsOn
        /\ rule'[s].endsOn = Row(w).endsOn /\ rule'[s].through = work[w].through
    BY <2>1 DEF Rule
  <2>3. \A v \in Worker : NoneForgottenBy(v)'
    BY <1>3, <1>12 DEF Commit
  <2>4. EndsExcused'
    <3>1. \A d \in Date : Past(rule'[s], d) => d \in excused'[s]
      BY <2>1, <2>2 DEF Past
    <3>2. QED
      BY <1>0, <2>1, <3>1 DEF EndsExcused, Grows, Exists
  <2>5. ASSUME NEW d \in Date, d <= rule'[s].through, OfRule(rule'[s], d)
        PROVE  occurrence'[s][d] # "none" \/ d \in excused'[s]
    <3>1. OfRule(Row(w), d) /\ d <= work[w].through
      BY <2>2, <2>5 DEF OfRule, First
    <3>2. \/ InHand(w, d) \/ d \in excused[s]
          \/ work[w].new # NoRule /\ Past(work[w].new, d)
      BY <1>0, <2>1, <3>1 DEF NoneForgottenBy
    <3>3. CASE InHand(w, d)
      <4>1. d \in work[w].inserted \cup work[w].shut \/ occurrence[s][d] # "none"
        BY <2>1, <3>3 DEF InHand
      <4>2. QED
        BY <2>1, <4>1
    <3>4. CASE work[w].new # NoRule /\ Past(work[w].new, d)
      BY <2>1, <3>4 DEF Row
    <3>5. QED
      BY <2>1, <3>2, <3>3, <3>4
  <2>6. ASSUME NEW t \in SeriesId \ {s}, NEW d \in Date, rule'[t].status # "unused",
               d <= rule'[t].through, OfRule(rule'[t], d)
        PROVE  occurrence'[t][d] # "none" \/ d \in excused'[t]
    <3>1. rule'[t] = rule[t]
      BY <2>1
    <3>2. occurrence[t][d] # "none" \/ d \in excused[t]
      BY <1>0, <2>6, <3>1 DEF NoHoleToTheCap, Exists
    <3>3. QED
      BY <1>0, <3>2 DEF Grows
  <2>7. NoHoleToTheCap'
    BY <2>5, <2>6 DEF NoHoleToTheCap, OfRule, First, Exists
  <2>8. QED
    BY <2>3, <2>4, <2>7
<1>13. ASSUME NEW s \in SeriesId, NEW to \in Date, UpdateEndsOn(s, to) \/ End(s, to)
       PROVE  NoHoleToTheCap' /\ EndsExcused' /\ \A v \in Worker : NoneForgottenBy(v)'
  <2>1. /\ Exists(s) /\ \A t \in SeriesId \ {s} : rule'[t] = rule[t]
        /\ rule'[s].dayOfWeek = rule[s].dayOfWeek /\ rule'[s].startsOn = rule[s].startsOn
        /\ rule'[s].through = rule[s].through
        /\ excused'[s] = excused[s] \cup {d \in Date : Past(rule'[s], d)}
        /\ work' = work
    BY <1>0, <1>13, EndsOnIs
  <2>2. NoHoleToTheCap'
    BY <1>0, <2>1 DEF NoHoleToTheCap, OfRule, First, Grows, Exists
  <2>3. EndsExcused'
    BY <1>0, <2>1 DEF EndsExcused, Grows, Exists
  <2>4. QED
    BY <1>0, <2>1, <2>2, <2>3, OthersForgetNothing
<1>14. ASSUME NEW r \in Replica, Crash(r)
       PROVE  NoHoleToTheCap' /\ EndsExcused' /\ \A v \in Worker : NoneForgottenBy(v)'
  BY <1>1, <1>3, <1>14 DEF Crash, Worker
<1>15. ASSUME \/ \E s \in SeriesId, d \in Date : CancelWeek(s, d) \/ \E to \in {"completed", "no_show"} : MarkWeek(s, d, to)
              \/ \E d \in Wanted : BookOther(d) \/ CancelOther(d)
              \/ Tick \/ UNCHANGED vars
              \/ \E r \in Replica, q \in Session : StartJob(r, q) \/ FinishJob(r, q)
              \/ \E q \in Session : CloseSession(q)
       PROVE  NoHoleToTheCap' /\ EndsExcused' /\ \A v \in Worker : NoneForgottenBy(v)'
  BY <1>2, <1>15 DEF CancelWeek, MarkWeek, BookOther, CancelOther, Tick, StartJob, FinishJob, CloseSession, vars
<1>16. QED
  BY <1>5, <1>7, <1>8, <1>9, <1>10, <1>11, <1>12, <1>13, <1>14, <1>15 DEF Next, Step

LEMMA InitHoleInv == Init => HoleInv
<1> SUFFICES ASSUME Init PROVE HoleInv
  OBVIOUS
<1>1. Typed
  BY InitTyped
<1>2. \A s \in SeriesId : ~Exists(s)
  BY DEF Init, Exists, NoRule
<1>3. \A w \in Worker : work[w] = Idle
  BY DEF Init
<1>4. QED
  BY <1>1, <1>2, <1>3 DEF HoleInv, NoHoleToTheCap, EndsExcused, NoneForgottenBy

\* Up to materialised_through every date of the rule that a call works out is
\* accounted for: booked, or booked once and cancelled, or closed, or past the
\* end that the series has or had.
THEOREM NoHoleToTheCapEver == Spec => []NoHoleToTheCap
<1>1. HoleInv => NoHoleToTheCap
  BY DEF HoleInv
<1>2. QED
  BY InitHoleInv, HoleStep, <1>1, PTL DEF Spec

\* In a calendar that one call can work out, that is every date of the rule.
THEOREM NoHoleEver ==
  ASSUME CapAssumption
  PROVE  Spec => []NoHole
<1>1. HoleInv => NoHole
  <2> SUFFICES ASSUME HoleInv, NEW s \in SeriesId, NEW d \in Date, Exists(s), d <= rule[s].through,
                      Weekday(d) = rule[s].dayOfWeek, d >= rule[s].startsOn
               PROVE  occurrence[s][d] # "none" \/ d \in excused[s]
    BY DEF NoHole
  <2>1. rule[s] \in Rule
    BY RuleTypes DEF HoleInv, Typed, TypeOK, Exists
  <2>2. QED
    BY <2>1, WithinTheCap DEF HoleInv, NoHoleToTheCap
<1>2. QED
  BY InitHoleInv, HoleStep, <1>1, PTL DEF Spec
=============================================================================
