SPECIFICATION FairSpec
CONSTANTS
  n1 = n1
  n2 = n2
  Nodes = {n1, n2}
  Actions = {"resizing", "disk_attaching"}
  MaxRounds = 2
  MaxFaults = 1
  Faults = {}
INVARIANTS
  HandshakeReset
  DeviceRecorded
PROPERTIES
  ImplementsHandshake
  ScalingCompletes
