SPECIFICATION Spec
CONSTANTS
  a1 = a1
  a2 = a2
  b1 = b1
  b2 = b2
  c1 = c1
  c2 = c2
  c3 = c3
  d1 = d1
  d2 = d2
  Nobody = Nobody
  Tenant = {a1, a2}
  Email = {b1, b2}
  Invite = {c1, c2}
  Request = {d1, d2}
  Phone = {a1, a2}
  Challenge = {b1, b2}
  Visitor = {c1, c2}
  MaxAttempts = 2
  Curated = Curated
  Typed = Typed
  Enquiry = {c3}
  Place = {a1, a2}
  Hire = {c1, c2}
  Agent = {b1, b2}
  NoHire = NoHire
SYMMETRY Alike
INVARIANTS PeopleTypeOK AnOwnerIsLeft InvitesMakeOneLogin CodesHold WonByBooking LapsedHoldsCanGo
CHECK_DEADLOCK FALSE
