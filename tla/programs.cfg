SPECIFICATION ProgramsSpec
CONSTANTS
  Callers = {t1, t2}
  MaxHttpFaults = 3
  BuildChain <- MCBuildChain
  Shapes = {"vm", "single"}
  KeepValues = {"on-error", "on-success", "maybe"}
  MaxBuildFaults = 1
  SshJobs <- MCSshJobs
  ConnectTries = 2
  AuthTries = 1
  WinrmTries = 1
  Senders = {nginx, db}
  MaxReports = 2
  MaxExecuteFaults = 1
  Updaters = {u1, u2}
  Catalogues <- MCCatalogues
  StoredOffers <- MCStoredOffers
  MaxOfferFaults = 1
  Trees <- MCTrees
  TransferRoot <- MCRoot
  MaxModuleFaults = 1
INVARIANTS
  ProgramsTypeOK
  AtMostOnce
  ImageIsWhole
  BuildLeavesNoVm
  StartedIsTold
  KillsWhatItPromised
  DownloadsLatest
  OffersInSync
  ModulesSurvive
PROPERTIES
  ProgramsEnd
CHECK_DEADLOCK FALSE
