SPECIFICATION TreapSpec
CHECK_DEADLOCK FALSE
CONSTANTS
  None = None
  Horizon = 4
  MaxTime = 5
  NoLimit = 1000000
  Origin = 1
  Ratio = 20000
  Capacity = 2
  Windows <- SomeWindows
  Deltas = {1}
  Capacities = {1}
  Priorities <- Orders
  MaxUpdates = 3
INVARIANTS
  TreapShape
PROPERTIES
  AnswersAsColumns
