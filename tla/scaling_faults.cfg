SPECIFICATION Spec
CONSTANTS
  n1 = n1
  n2 = n2
  Nodes = {n1, n2}
  Actions = {"disk_attaching"}
  MaxRounds = 2
  MaxFaults = 2
  Faults = {"script", "iaas", "timeout", "sigterm", "crash", "cancel", "cli", "late"}
SYMMETRY Symmetry
CHECK_DEADLOCK FALSE
INVARIANTS
  TypeOK
  CompletionsHonest
  PreScaleBeforeIaas
  ScaledMeansServed
  NoRebuildWithoutRestart
