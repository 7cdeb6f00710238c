SPECIFICATION Spec
CONSTANTS
  b1 = b1
  b2 = b2
  p1 = p1
  r1 = r1
  r2 = r2
  Booking = {b1}
  Session = {}
  Replica = {r1, r2}
  NotificationsEnabled = TRUE
  BatchSize = 1
  ReminderBatch = 1
  MaxAttempts = 4
  MaxMishaps = 3
  MaxLost = 2
INVARIANTS DoneMeansBooked
PROPERTIES EveryMessageIsAnswered BookedIsKept BookedIsNoticed SlotComesBack ExpiredHoldsGo
CHECK_DEADLOCK FALSE
