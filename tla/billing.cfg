CONSTANTS
  Prices = {monthly, yearly}
  MaxQuantity = 3
  Schedules = {s1, s2}
  Workers = {w1, w2}
SPECIFICATION Spec
SYMMETRY Symmetry
CHECK_DEADLOCK FALSE
INVARIANTS
  PlanIsPaid
  LastChangeWins
PROPERTIES
  ReductionsWait
