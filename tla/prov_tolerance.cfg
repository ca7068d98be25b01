SPECIFICATION Spec
CONSTANTS
  Instances = {i1, i2, i3}
  MaxRounds = 2
  MaxFaults = 0
  Faults = {}
INVARIANT RequestedTolerance
CHECK_DEADLOCK FALSE
