SPECIFICATION InvoicesSpec
CONSTANTS
  b1 = b1
  b2 = b2
  k1 = k1
  k2 = k2
  Booking = {b1, b2}
  Slot <- MCOneSlot
  Court = {}
  Payment = {}
  Amount = {}
  Request = {}
  RequiresPrepayment = FALSE
  SweepLimit = 1
  Clerk = {k1, k2}
  LastYear = 2
  Terms <- MCTerms
SYMMETRY Symmetric
INVARIANTS InvoicesTypeOK Unbroken TaxedOnce DocumentsAddUp
PROPERTY DocumentsStay
