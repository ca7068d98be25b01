SPECIFICATION Spec
CONSTANTS
  Instances = {i1, i2}
  MaxRounds = 1
  MaxFaults = 0
  Faults = {}
INVARIANT DeletedAreStopped
CHECK_DEADLOCK FALSE
