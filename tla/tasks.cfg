SPECIFICATION FairSpec
CONSTANTS
  NTasks = 4
  MaxWorkers = 3
  IgnoreException = FALSE
INVARIANTS
  TypeOK
  AllDoneOnReturn
PROPERTIES
  ImplementsBatch
  FailureReported
  WaitEnds
