CONSTANTS
  None = None
  Void = Void
  Slots = {s1}
  Tokens = {t1, t2}
  Requests = {r1}
  Bookings = {b1, b2, b3}
  Tasks = {k1}
SPECIFICATION Spec
INVARIANT NoDoubleBookingByRace
