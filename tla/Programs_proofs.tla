--------------------------- MODULE Programs_proofs ---------------------------
(***************************************************************************)
(* The programs of Programs, together: whichever of them runs, what its    *)
(* own proofs keep is kept, and the others stay as they were.              *)
(***************************************************************************)
EXTENDS Programs, VmPrograms_proofs, ServerPrograms_proofs

ProgramsInv ==
  /\ HttpInv /\ SshInv
  /\ IF who = "build" THEN BuildInv ELSE BuildIdle
  /\ IF who = "start" THEN StartInv ELSE StartIdle /\ vm.ran[Bootstrap] = 0
  /\ IF who = "execute" THEN ExecuteInv ELSE ExecuteIdle
  /\ IF who = "offers" THEN OfferInv ELSE OfferIdle
  /\ IF who = "transfer" THEN TransferInv ELSE TransferIdle

-----------------------------------------------------------------------------
(* What a program leaves alone stays as it is. *)
LEMMA HttpKept == HttpInv /\ UNCHANGED httpVars => HttpInv'
BY HttpSteps

LEMMA SshKept == SshInv /\ UNCHANGED sshVars => SshInv'
BY DEF SshInv, CallBounds, sshVars

LEMMA BuildKept == BuildInv /\ UNCHANGED <<sshVars, buildVars>> => BuildInv'
<1> SUFFICES ASSUME BuildInv, UNCHANGED <<sshVars, buildVars>> PROVE BuildInv'
  OBVIOUS
<1> USE DEF sshVars, buildVars
<1>1. BuildTypes' /\ SshInv'
  BY SshKept DEF BuildInv, BuildTypes
<1>2. Imaging' = Imaging /\ InCall' = InCall /\ Progress' = Progress /\ NoneRan' = NoneRan
  BY DEF Imaging, InCall, Progress, NoneRan, Wanted, ImageJobs, Returned, Skipped, NeedsStep, Doing
<1>3. ImageIsWhole' = ImageIsWhole
  BY DEF ImageIsWhole, NeedsStep
<1>4. ImageInv'
  BY <1>2, <1>3 DEF BuildInv, ImageInv
<1>5. LeaveInv'
  BY DEF BuildInv, LeaveInv, BuildLeavesNoVm, CreatorGone, Kept
<1> QED BY <1>1, <1>4, <1>5 DEF BuildInv

LEMMA StartKept == StartInv /\ UNCHANGED <<sshVars, startVars>> => StartInv'
BY DEF startVars, sshVars, StartInv, StartTypes, Phases, Threads

LEMMA ExecuteKept == ExecuteInv /\ UNCHANGED executeVars => ExecuteInv'
BY ExecuteSteps

LEMMA OfferKept == OfferInv /\ UNCHANGED offerVars => OfferInv'
<1> SUFFICES ASSUME OfferInv, UNCHANGED offerVars PROVE OfferInv'
  OBVIOUS
<1>1. OfferTypes' /\ OfferWriters'
  BY DEF offerVars, OfferInv, OfferTypes, OfferWriters
<1>2. \A u \in Updaters : OfferSound(u)'
  BY Undisturbed DEF offerVars, OfferInv
<1> QED BY <1>1, <1>2 DEF OfferInv

LEMMA TransferKept == TransferInv /\ UNCHANGED transferVars => TransferInv'
<1> SUFFICES ASSUME TransferInv, UNCHANGED transferVars PROVE TransferInv'
  OBVIOUS
<1>1. UNCHANGED <<topts, tmain, tfiles, tserver, tfaults>>
  BY DEF transferVars
<1>2. /\ Paths' = Paths /\ OneEach' = OneEach /\ Got' = Got /\ Uploaded' = Uploaded
      /\ \A p : FileOf(p)' = FileOf(p) /\ KindOf(p)' = KindOf(p)
  BY <1>1, TreeStays DEF Got, Uploaded
<1>3. TransferTypes'
  BY <1>1, <1>2 DEF TransferInv, TransferTypes, TransferMains
<1>4. PutInOrder'
  BY <1>1, <1>2 DEF TransferInv, PutInOrder, TransferAt, KindsTo
<1>5. NothingLost'
  BY <1>1, <1>2 DEF TransferInv, NothingLost, TransferAt, KindsTo
<1> QED BY <1>3, <1>4, <1>5 DEF TransferInv

(* A program that does not run is as it was at the start. *)
LEMMA IdleKept ==
  /\ BuildIdle /\ UNCHANGED buildVars => BuildIdle'
  /\ StartIdle /\ UNCHANGED startVars => StartIdle'
  /\ ExecuteIdle /\ UNCHANGED executeVars => ExecuteIdle'
  /\ OfferIdle /\ UNCHANGED offerVars => OfferIdle'
  /\ TransferIdle /\ UNCHANGED transferVars => TransferIdle'
BY DEF BuildIdle, buildVars, StartIdle, startVars, ExecuteIdle, executeVars, OfferIdle, offerVars,
       TransferIdle, transferVars, StateOps

(* No build starts the bootstrap of an instance. *)
LEMMA BootstrapApart == Bootstrap \in SshJobs \ BuildJobs
BY StartJobsAssumption DEF StartJobs, Bootstrap, BuildJobs, PackageInstall, Secure, Revert

-----------------------------------------------------------------------------
LEMMA ProgramsStart == ProgramsInit => ProgramsInv
<1> SUFFICES ASSUME ProgramsInit PROVE ProgramsInv
  OBVIOUS
<1>1. HttpInv
  BY HttpStarts DEF ProgramsInit
<1>2. SshInit
  BY DEF ProgramsInit
<1>3. SshInv /\ vm.ran[Bootstrap] = 0
  BY <1>2, BootstrapApart, SshAssumption
     DEF SshInit, NewVms, NoCall, SshInv, SshCallTypes, SshPlaces, Vms, CallBounds, CopyTries
<1>4. IF who = "build" THEN BuildInv ELSE BuildIdle
  BY <1>2, BuildStarts DEF ProgramsInit
<1>5. IF who = "start" THEN StartInv ELSE StartIdle /\ vm.ran[Bootstrap] = 0
  BY <1>2, <1>3, StartStarts DEF ProgramsInit
<1>6. IF who = "execute" THEN ExecuteInv ELSE ExecuteIdle
  BY ExecuteStarts DEF ProgramsInit
<1>7. IF who = "offers" THEN OfferInv ELSE OfferIdle
  BY OfferStarts DEF ProgramsInit
<1>8. IF who = "transfer" THEN TransferInv ELSE TransferIdle
  BY TransferStarts DEF ProgramsInit
<1> QED BY <1>1, <1>3, <1>4, <1>5, <1>6, <1>7, <1>8 DEF ProgramsInv

LEMMA ProgramsStep == ProgramsInv /\ [ProgramsNext]_programVars => ProgramsInv'
<1> SUFFICES ASSUME ProgramsInv, [ProgramsNext]_programVars PROVE ProgramsInv'
  OBVIOUS
<1> USE DEF ProgramsInv
<1>1. CASE UNCHANGED programVars
  <2>1. /\ who' = who
        /\ UNCHANGED <<httpVars, sshVars, buildVars, startVars, executeVars, offerVars,
                       transferVars>>
    BY <1>1 DEF programVars
  <2>2. vm' = vm
    BY <2>1 DEF sshVars
  <2> QED BY <2>1, <2>2, HttpKept, SshKept, BuildKept, StartKept, ExecuteKept, OfferKept,
         TransferKept, IdleKept
<1>2. CASE Http(HttpNext)
  <2>1. /\ who = "http" /\ who' = who /\ HttpNext
        /\ UNCHANGED <<sshVars, buildVars, startVars, executeVars, offerVars, transferVars>>
    BY <1>2 DEF Http
  <2>2. vm' = vm
    BY <2>1 DEF sshVars
  <2> QED BY <2>1, <2>2, HttpSteps, SshKept, IdleKept
<1>3. CASE Build(BuildProgress) \/ Build(BuildAborted)
  <2>1. /\ who = "build" /\ who' = who /\ (BuildProgress \/ BuildAborted)
        /\ UNCHANGED <<httpVars, startVars, executeVars, offerVars, transferVars>>
    BY <1>3 DEF Build
  <2>2. BuildInv /\ BuildInv'
    BY <2>1, BuildKeeps
  <2>3. SshInv'
    BY <2>2 DEF BuildInv
  <2>4. (vm.ran[Bootstrap] = 0)'
    BY <2>2, BootstrapApart DEF BuildInv, ImageInv
  <2> QED BY <2>1, <2>2, <2>3, <2>4, HttpKept, IdleKept
<1>4. CASE Start(StartProgress) \/ Start(StartAlarm \/ StartInterrupted)
  <2>1. /\ who = "start" /\ who' = who /\ StartNext
        /\ UNCHANGED <<httpVars, buildVars, executeVars, offerVars, transferVars>>
    BY <1>4 DEF Start, StartNext
  <2>2. StartInv' /\ SshInv'
    BY <2>1, StartSteps, StartKeepsCalls
  <2> QED BY <2>1, <2>2, HttpKept, IdleKept
<1>5. CASE Execute(ExecuteProgress) \/ Execute(ExecuteDisturbed)
  <2>1. /\ who = "execute" /\ who' = who /\ ExecuteNext
        /\ UNCHANGED <<httpVars, sshVars, buildVars, startVars, offerVars, transferVars>>
    BY <1>5 DEF Execute, ExecuteNext
  <2>2. ExecuteInv'
    BY <2>1, ExecuteSteps
  <2>3. vm' = vm
    BY <2>1 DEF sshVars
  <2> QED BY <2>1, <2>2, <2>3, HttpKept, SshKept, IdleKept
<1>6. CASE \/ Offer(\E u \in Updaters : OfferProgress(u))
           \/ Offer(\E u \in Updaters : OfferFails(u))
  <2>1. /\ who = "offers" /\ who' = who /\ OfferNext
        /\ UNCHANGED <<httpVars, sshVars, buildVars, startVars, executeVars, transferVars>>
    BY <1>6 DEF Offer, OfferNext
  <2>2. vm' = vm
    BY <2>1 DEF sshVars
  <2> QED BY <2>1, <2>2, OfferSteps, HttpKept, SshKept, IdleKept
<1>7. CASE Transfer(TransferNext)
  <2>1. /\ who = "transfer" /\ who' = who /\ TransferNext
        /\ UNCHANGED <<httpVars, sshVars, buildVars, startVars, executeVars, offerVars>>
    BY <1>7 DEF Transfer
  <2>2. vm' = vm
    BY <2>1 DEF sshVars
  <2> QED BY <2>1, <2>2, TransferSteps, HttpKept, SshKept, IdleKept
<1> QED
  BY <1>1, <1>2, <1>3, <1>4, <1>5, <1>6, <1>7 DEF ProgramsNext, ProgramsProgress, ProgramsDisturbed

(* Of the six programs the one that is followed keeps its invariant, the others are idle. *)
THEOREM ProgramsInvariance == ProgramsSpec => []ProgramsInv
BY ProgramsStart, ProgramsStep, PTL DEF ProgramsSpec

-----------------------------------------------------------------------------
LEMMA ProgramsTyped == ProgramsInv => ProgramsTypeOK
<1> SUFFICES ASSUME ProgramsInv PROVE ProgramsTypeOK
  OBVIOUS
<1>1. HttpTypeOK /\ SshTypeOK
  BY SshTyped DEF ProgramsInv, HttpInv
<1>2. BuildTypeOK
  <2>1. BuildIdle => BuildTypeOK
    BY BuildAssumption DEF BuildIdle, BuildTypeOK, NextBuildState
  <2> QED BY <2>1, BuiltWell DEF ProgramsInv
<1>3. StartTypeOK
  <2>1. StartIdle => StartTypeOK
    BY WinrmAssumption DEF StartIdle, StartTypeOK
  <2> QED BY <2>1, StartedWell DEF ProgramsInv
<1>4. ExecuteTypeOK
  <2>1. ExecuteIdle => ExecuteTypeOK
    BY ExecuteAssumption DEF ExecuteIdle, ExecuteTypeOK, RunStates
  <2> QED BY <2>1 DEF ProgramsInv, ExecuteInv, ExecuteTyped
<1>5. OfferTypeOK
  <2>1. OfferIdle => OfferTypeOK
    BY OfferAssumption DEF OfferIdle, OfferTypeOK
  <2> QED BY <2>1, OfferedInSync DEF ProgramsInv
<1>6. who = "transfer" => TransferTypeOK
  BY TransferredWell DEF ProgramsInv
<1> QED BY <1>1, <1>2, <1>3, <1>4, <1>5, <1>6 DEF ProgramsTypeOK

(* Types, and the bounds of every retry, whichever program runs. *)
THEOREM ProgramsTypeCorrect == ProgramsSpec => []ProgramsTypeOK
BY ProgramsInvariance, ProgramsTyped, PTL

(* Whatever the shell prints, and whatever aborts or fails, an image that is saved had every  *)
(* step it was to have, none that was done before, and none twice (BaseCloudConnector.py:     *)
(* _create_allow_ssh_to_revoke, build_image and what it calls).                                *)
THEOREM ImageWhole == ProgramsSpec => []ImageIsWhole
<1>1. ProgramsInv => ImageIsWhole
  BY BuiltWell DEF ProgramsInv, BuildIdle, ImageIsWhole
<1> QED BY ProgramsInvariance, <1>1, PTL

(* The orchestrator of a build does not stop itself and leave the creator running, unless VMs *)
(* are to be kept on errors and the run was aborted.                                           *)
THEOREM NoVmLeft == ProgramsSpec => []BuildLeavesNoVm
<1>1. ProgramsInv => BuildLeavesNoVm
  BY BuiltWell DEF ProgramsInv, BuildIdle, BuildLeavesNoVm
<1> QED BY ProgramsInvariance, <1>1, PTL

(* After an execution of the update that no other one crossed, the server holds exactly what *)
(* the cloud offers, at its price unless it held an offer twice; dry runs write nothing and   *)
(* nobody touches what is another connector's.                                               *)
THEOREM OffersAreInSync == ProgramsSpec => []OffersInSync
<1>1. OfferIdle => OffersInSync
  BY DEF OfferIdle, OffersInSync, OfferAt, Ours
<1>2. ProgramsInv => OffersInSync
  BY <1>1, OfferedInSync DEF ProgramsInv
<1> QED BY ProgramsInvariance, <1>2, PTL

(* Without faults every module comes to the second server, unless two share a file; each comes *)
(* once, after the project it is in, and no deployment comes before an image (the transfer      *)
(* commands: _writeModuleAsXml, _put_modules and its order).                                     *)
THEOREM ModulesTransferred == ProgramsSpec => []ModulesSurvive
<1>1. TransferIdle => ModulesSurvive
  BY DEF TransferIdle, ModulesSurvive, TransferAt
<1>2. ProgramsInv => ModulesSurvive
  BY <1>1, TransferredWell DEF ProgramsInv
<1> QED BY ProgramsInvariance, <1>2, PTL

(* Where they run beside the others, the calls are applied at most once, started instances *)
(* are told of, and runs are killed and reports got as promised.                            *)
THEOREM OthersCorrect ==
  ProgramsSpec => [](AtMostOnce /\ StartedIsTold /\ KillsWhatItPromised /\ DownloadsLatest)
<1>1. ProgramsInv => AtMostOnce
  BY DEF ProgramsInv, HttpInv
<1>2. ProgramsInv => StartedIsTold
  BY StartedWell DEF ProgramsInv, StartIdle, StartedIsTold
<1>3. ExecuteInv => KillsWhatItPromised /\ DownloadsLatest
  BY KilledAsPromised, DownloadedLatest
<1>4. ExecuteIdle => KillsWhatItPromised /\ DownloadsLatest
  BY DEF ExecuteIdle, KillsWhatItPromised, Ended, DownloadsLatest
<1>5. ProgramsInv => KillsWhatItPromised /\ DownloadsLatest
  BY <1>3, <1>4 DEF ProgramsInv
<1> QED BY ProgramsInvariance, <1>1, <1>2, <1>5, PTL
=============================================================================
