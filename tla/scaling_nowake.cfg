SPECIFICATION FairSpec
CONSTANTS
  n1 = n1
  n2 = n2
  Nodes = {n1, n2}
  Actions = {"resizing"}
  MaxRounds = 1
  MaxFaults = 1
  Faults = {"iaas"}
CHECK_DEADLOCK FALSE
PROPERTIES
  WaitIaasDoneEnds
