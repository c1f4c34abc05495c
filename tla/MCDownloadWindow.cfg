SPECIFICATION Spec
CONSTANTS
  Days = 3
  Minutes = 3
INVARIANTS
  EqualTimesOpenTheDay
CHECK_DEADLOCK FALSE
