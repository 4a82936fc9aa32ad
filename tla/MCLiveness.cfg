CONSTANTS
  None = None
  Void = Void
  Slots = {s1}
  Tokens = {t1}
  Requests = {r1}
  Bookings = {b1, b2}
  Tasks = {k1}
SPECIFICATION FairSpec
PROPERTIES AbandonedIsReleased ExpiredLockIsCleared
