CONSTANTS
  Halves <- MCHalves
  BaseDelays <- MCBaseDelays
  TimerMax = 15
SPECIFICATION FairSpec
CHECK_DEADLOCK FALSE
INVARIANTS
  GivesUpWhenExhausted
  UnexpectedOnlyIfNotWhole
  DelaysGrow
PROPERTIES
  Ends
