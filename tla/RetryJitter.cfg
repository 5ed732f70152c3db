CONSTANTS
  Halves <- MCHalves
  BaseDelays <- MCBaseDelays
  TimerMax = 15
SPECIFICATION Spec
CHECK_DEADLOCK FALSE
INVARIANTS
  FullJitter
