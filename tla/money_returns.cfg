SPECIFICATION CheckoutSpec
CONSTANTS
  b1 = b1
  b2 = b2
  p1 = p1
  p2 = p2
  r1 = r1
  o1 = o1
  o2 = o2
  a1 = a1
  a2 = a2
  w1 = w1
  w2 = w2
  q1 = q1
  q2 = q2
  Booking = {b1}
  Slot <- MCOneSlot
  Court = {}
  Payment = {p1, p2}
  Amount = {2}
  Request = {}
  RequiresPrepayment = TRUE
  SweepLimit = 1
  Order = {o1, o2}
  Attempt = {a1, a2}
  Webhook = {w1, w2}
  Session = {q1}
  Price = 2
  Sum = {1, 2}
  MayFail = TRUE
SYMMETRY Symmetric
INVARIANTS CheckoutTypeOK RecordedOnce BookedOrSentBack NoShortPaymentBooked PaidIsNotHeld LedgerRefundsMoved
