CONSTANTS
  None = None
  q1 = q1
  q2 = q2
  a1 = a1
  a2 = a2
  Wanted = {q1, q2}
  Handlers = {h1, h2}
  Slots = {a1, a2}
  Last = 2
  DateOf <- TwoDates
  Window <- Competing
  Wish <- OwnWish
SPECIFICATION Spec
CHECK_DEADLOCK FALSE
SYMMETRY Symmetry
INVARIANTS TypeOK NoSlotTwice SeriesFollowsRequest
