CONSTANTS
  Instances = {i1, i2}
  Max = 2
  MaxStarts = 2
SPECIFICATION Spec
SYMMETRY Symmetry
CHECK_DEADLOCK FALSE
INVARIANTS
  TypeOK
  SharedLimit
  LiveClientOffered
  OneLoudErrorPerOutage
