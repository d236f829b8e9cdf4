SPECIFICATION Spec
CONSTANTS
  s1 = s1 s2 = s2 s3 = s3 w1 = w1 w2 = w2
  Signings = {s1, s2, s3}
  Workers = {w1, w2}
  MaxTime = 1
  Typed = {1}
  MaxChanges = 2
  MaxTrials = 3
SYMMETRY ClockSymmetry
CONSTRAINT FewTrials
CHECK_DEADLOCK FALSE
INVARIANTS
  HistoryIsAChain
  EachEndClosesOneStart
  OrderlyDayStaysExact
PROPERTY
  MovesRepairTheDay
