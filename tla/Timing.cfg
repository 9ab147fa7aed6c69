SPECIFICATION Spec
CONSTANTS
  Interval <- MCInterval
  Drift = 3
  Watch <- MCWatch
  Delay = 3
  MaxForm = 120
INVARIANTS
  OnlySlowFormsGivenUp
CHECK_DEADLOCK FALSE
