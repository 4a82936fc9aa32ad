CONSTANTS
  None = None
  Void = Void
  Slots = {s1}
  Tokens = {t1, t2}
  Requests = {r1, r2}
  Bookings = {b1, b2}
  Tasks = {k1}
SPECIFICATION Spec
SYMMETRY Symmetry
INVARIANTS TypeOK TokenBuysOneBooking
PROPERTIES HolderComesFirst
