SPECIFICATION FairSpec
CONSTANTS
  s1 = s1
  s2 = s2
  c1 = c1
  c2 = c2
  r1 = r1
  r2 = r2
  SeriesId = {s1}
  LastDate = 2
  DaysInWeek = 1
  Wanted = {1}
  Terms <- MCEachDay
  MayClose = {2}
  Cap = 520
  HorizonWeeks = 1
  Clerk = {c1}
  Replica = {r1}
  PoolSize = 2
  MaxDepth = 1
  MaxMishaps = 1
INVARIANTS CalendarIsSound NoHole
PROPERTIES HistoryStays NeverRunsOut
