CONSTANTS
  None = None
  Void = Void
  Slots = {s1}
  Tokens = {t1}
  Requests = {r1}
  Bookings = {b1, b2, b3}
  Tasks = {k1, k2}
SPECIFICATION Spec
SYMMETRY Symmetry
INVARIANTS NoDoubleBooking SlotMatchesBooking PaymentMatchesBooking
PROPERTIES ImplementsAllocation
