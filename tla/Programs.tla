------------------------------ MODULE Programs ------------------------------
(***************************************************************************)
(* The programs that do not share a run: the threads that call the server, *)
(* the build of an image, the command that starts an instance, ss-execute, *)
(* the update of the service offers and the transfer of modules.  Each is  *)
(* followed on its own, from its start to its end.                         *)
(***************************************************************************)
EXTENDS HttpRetry, ImageBuild, StartInstances, RunExecution, ServiceOffers, ModuleTransfer

VARIABLE who    \* the program that runs

programVars ==
  <<who, httpVars, sshVars, buildVars, startVars, executeVars, offerVars, transferVars>>

Unused == "unused"

(* The creator VM of a build has no use for at; the other programs have none for a VM. *)
VmOf(program) ==
  /\ program # "start" => vm.at = "running"
  /\ program \notin {"start", "build"} => ~vm.tty

ProgramsInit ==
  /\ who \in {"http", "build", "start", "execute", "offers", "transfer"}
  /\ HttpInit /\ SshInit /\ VmOf(who)
  /\ IF who = "build" THEN BuildInit ELSE BuildIdle /\ bopts = Unused
  /\ IF who = "start" THEN StartInit ELSE StartIdle /\ sopts = Unused
  /\ IF who = "execute" THEN ExecuteInit ELSE ExecuteIdle /\ eopts = Unused
  /\ IF who = "offers" THEN OfferInit ELSE OfferIdle
  /\ IF who = "transfer" THEN TransferInit ELSE TransferIdle /\ topts = Unused

Http(step) ==
  /\ who = "http" /\ step
  /\ UNCHANGED <<who, sshVars, buildVars, startVars, executeVars, offerVars, transferVars>>
Build(step) ==
  /\ who = "build" /\ step
  /\ UNCHANGED <<who, httpVars, startVars, executeVars, offerVars, transferVars>>
Start(step) ==
  /\ who = "start" /\ step
  /\ UNCHANGED <<who, httpVars, buildVars, executeVars, offerVars, transferVars>>
Execute(step) ==
  /\ who = "execute" /\ step
  /\ UNCHANGED <<who, httpVars, sshVars, buildVars, startVars, offerVars, transferVars>>
Offer(step) ==
  /\ who = "offers" /\ step
  /\ UNCHANGED <<who, httpVars, sshVars, buildVars, startVars, executeVars, transferVars>>
Transfer(step) ==
  /\ who = "transfer" /\ step
  /\ UNCHANGED <<who, httpVars, sshVars, buildVars, startVars, executeVars, offerVars>>

ProgramsProgress ==
  \/ Http(HttpNext) \/ Build(BuildProgress) \/ Start(StartProgress) \/ Execute(ExecuteProgress)
  \/ Offer(\E u \in Updaters : OfferProgress(u)) \/ Transfer(TransferNext)
ProgramsDisturbed ==
  \/ Build(BuildAborted) \/ Start(StartAlarm \/ StartInterrupted)
  \/ Execute(ExecuteDisturbed)
  \/ Offer(\E u \in Updaters : OfferFails(u))
ProgramsNext == ProgramsProgress \/ ProgramsDisturbed
ProgramsSpec ==
  ProgramsInit /\ [][ProgramsNext]_programVars /\ WF_programVars(ProgramsProgress)

-----------------------------------------------------------------------------
ProgramsTypeOK ==
  /\ HttpTypeOK /\ SshTypeOK /\ BuildTypeOK /\ StartTypeOK /\ ExecuteTypeOK /\ OfferTypeOK
  /\ who = "transfer" => TransferTypeOK

(* Every program ends, whatever fails, is refused or is interrupted, a number of times: no call *)
(* is retried for ever by itself, and no thread, state or file is waited for in vain.           *)
ProgramsEnd ==
  <>[](CASE who = "http" -> HttpDone
         [] who = "build" -> BuildOver
         [] who = "start" -> StartOver
         [] who = "execute" -> Ended
         [] who = "offers" -> OfferOver
         [] OTHER -> TransferOver)
=============================================================================
