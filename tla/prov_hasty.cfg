SPECIFICATION Spec
CONSTANTS
  Instances = {i1, i2}
  MaxRounds = 1
  MaxFaults = 1
  Faults = {"iaas"}
PROPERTY OnlyFailedOrLate
CHECK_DEADLOCK FALSE
