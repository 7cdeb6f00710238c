SPECIFICATION Spec
CONSTANTS
  b1 = b1
  b2 = b2
  b3 = b3
  p1 = p1
  p2 = p2
  r1 = r1
  r2 = r2
  Booking = {b1}
  Slot <- MCOneSlot
  Court = {}
  Payment = {}
  Amount = {1}
  Request = {r1}
  RequiresPrepayment = FALSE
  SweepLimit = 1
PROPERTIES SettledBookingsStay
