CONSTANTS
  Collation <- MCCollation
  Bodies <- MCBodies
  MaxReplays = 1
SPECIFICATION Spec
CHECK_DEADLOCK FALSE
INVARIANTS
  VerdictsAreRight
