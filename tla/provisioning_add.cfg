SPECIFICATION Spec
CONSTANTS
  Instances = {i1, i2, i3}
  MaxRounds = 2
  MaxFaults = 1
  Faults = {"iaas", "start", "stop", "node", "abort", "cancel"}
INVARIANT EnoughServed
SYMMETRY Symmetry
CHECK_DEADLOCK FALSE
