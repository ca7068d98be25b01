SPECIFICATION FairSpec
CONSTANTS
  Instances = {i1, i2}
  MaxRounds = 3
  MaxFaults = 2
  Faults = {"iaas", "start", "stop", "node", "abort", "cancel"}
INVARIANT TypeOK
INVARIANT RemovedIsDown
INVARIANT StartedOnce
INVARIANT RemovingIsStopped
PROPERTY StoppedWasUnwanted
PROPERTY PreScaleBeforeStop
PROPERTY RunsComplete
CHECK_DEADLOCK FALSE
