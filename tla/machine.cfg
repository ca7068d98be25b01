SPECIFICATION MachineSpec
CONSTANTS
  Chain <- MCChain
  Images <- MCImages
  MaxExecFaults = 1
  BootPlatforms <- MCPlatforms
  CallTries = 2
  DownloadTries = 2
  MaxBoots = 2
INVARIANTS
  MachineTypeOK
  LockMeansInstalled
  ServiceReadsItsConfig
  CompletedMeansRun
PROPERTIES
  ClientStaysUnderExecutor
  NoSecondRun
  AbortStopsScript
  BootEnds
CHECK_DEADLOCK FALSE
