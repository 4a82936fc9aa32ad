CONSTANTS
  None = None
  Day = 6
  Schedules <- AllSchedules
  Busy <- TwoLengths
  Staff = {h1, h2}
  Versions = 2
SPECIFICATION Spec
SYMMETRY Symmetry
INVARIANTS TypeOK PlanIsLawful DayIsAsPlanned
PROPERTY RowsSurvive
