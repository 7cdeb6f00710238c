SPECIFICATION OutboxSpec
CONSTANTS
  b1 = b1
  b2 = b2
  s1 = s1
  s2 = s2
  r1 = r1
  r2 = r2
  Booking = {b1}
  Session = {s1, s2}
  Replica = {r1, r2}
  NotificationsEnabled = TRUE
  BatchSize = 1
  ReminderBatch = 1
  MaxAttempts = 2
  MaxMishaps = 1
SYMMETRY Alike
INVARIANTS ToldOnce SaidIsSo EveryBookingIsSaid
PROPERTIES AnswersStand
