SPECIFICATION UpdateSpec
CONSTANTS
  None = None
  Absent = Absent
  Unreadable = Unreadable
  Procs = {p1, p2}
  Builds = {TRUE, FALSE}
  Day = 2
  MaxTime = 2
  MaxVersion = 1
SYMMETRY Symmetry
PROPERTIES SavedChoicesHold OncePerDay
CHECK_DEADLOCK FALSE
