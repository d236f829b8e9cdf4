SPECIFICATION Spec
CONSTANTS
  s1 = s1 s2 = s2 w1 = w1 w2 = w2
  Shifts = {s1, s2}
  Workers = {w1, w2}
  MaxTime = 3
SYMMETRY SchedulesSymmetry
INVARIANTS
  ShiftsRunForward
  ShiftsKeepApart
