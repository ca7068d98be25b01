SPECIFICATION Spec
CONSTANTS
  n1 = n1
  n2 = n2
  Nodes = {n1, n2}
  Actions = {"resizing"}
  MaxRounds = 2
  MaxFaults = 1
  Faults = {"timeout", "cancel"}
CHECK_DEADLOCK FALSE
INVARIANTS
  PostScaleAfterIaas
