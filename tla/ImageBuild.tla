----------------------------- MODULE ImageBuild -----------------------------
(***************************************************************************)
(* The orchestrator of an image build: it starts the creator VM, runs the  *)
(* recipes on it over ssh, saves the image and stops both VMs, state after *)
(* state of the run.  A call that fails either aborts the run or, outside  *)
(* of what the executor guards, ends the executor.                         *)
(***************************************************************************)
EXTENDS RemoteScript, Sequences

CONSTANTS
  BuildChain,       \* the chain of modules of the image, the base one first
  Shapes,           \* how the cloud groups VMs: "vm", "vapp" or "single" (one vapp for the build)
  KeepValues,       \* values of keep-running, valid or not
  MaxBuildFaults    \* bound: calls that fail, aborts and cancelled aborts

ASSUME BuildAssumption == MaxBuildFaults \in Nat

VARIABLES
  bopts,    \* the cloud, the image and the user's wishes
  brun,     \* the server: state of the run, who completed it, abort flag, image
  bvms,     \* the VMs
  border,   \* the orchestrator's executor
  bfaults

buildVars == <<bopts, brun, bvms, border, bfaults>>

ModuleSet == {BuildChain[i] : i \in 1 .. Len(BuildChain)}
Secure == <<"secure", "access">>
Revert == <<"revert", "access">>
PackageInstall == <<"packages", "all">>
Target(target) == [i \in 1 .. Len(BuildChain) |-> <<target, BuildChain[i]>>]
BuildJobs ==
  {Secure, Revert, PackageInstall} \cup {<<target, m>> : target \in {"prerecipe", "recipe"}, m \in ModuleSet}

(* No module is derived from itself. *)
ASSUME BuildChainAssumption ==
  /\ BuildChain \in Seq(ModuleSet)
  /\ \A i, j \in 1 .. Len(BuildChain) : BuildChain[i] = BuildChain[j] => i = j
ASSUME BuildJobsAssumption == BuildJobs \subseteq SshJobs

(* need_to_execute_build_step: what is derived from a module that is built has its step too. *)
NeedsStep(i) == \A k \in i .. Len(BuildChain) : BuildChain[k] \notin bopts.built
Skipped(job) ==
  \E i \in 1 .. Len(BuildChain) :
    job \in {<<target, BuildChain[i]>> : target \in {"prerecipe", "recipe"}} /\ ~NeedsStep(i)

BOp(op) == [op |-> op, job |-> NoJob, api |-> FALSE]
Connecting(api) == [op |-> "connect", job |-> NoJob, api |-> api]
Each(jobs, api) == [i \in 1 .. Len(jobs) |-> [op |-> "script", job |-> jobs[i], api |-> api]]

(* Without contextualization access goes by a new key pair as soon as the password is blocked. *)
SecureAccess ==
  IF bopts.ctx THEN <<>> ELSE <<Connecting(bopts.password)>> \o Each(<<Secure>>, bopts.password)

(* The public key to take off again is only bound if the credentials had no private key. *)
RevertAccess ==
  CASE bopts.ctx -> <<>>
    [] ~bopts.ctx /\ ~bopts.password -> <<BOp("unbound")>>
    [] OTHER -> <<Connecting(FALSE)>> \o Each(<<Revert>>, FALSE)

BuildIncrement ==
  LET api == bopts.ctx /\ bopts.password IN
    <<Connecting(api)>> \o Each(Target("prerecipe"), api)
    \o <<[op |-> "command", job |-> PackageInstall, api |-> api]>>
    \o Each(Target("recipe"), api) \o RevertAccess

BuildImage == SecureAccess \o BuildIncrement \o <<BOp("snapshot"), BOp("save")>>

StateOps(state) ==
  CASE state = "Provisioning" -> <<BOp("start"), BOp("machine"), BOp("orch")>>
    [] state = "Executing" -> <<BOp("check")>> \o BuildImage \o <<BOp("machine"), BOp("orch")>>
    [] state = "SendingReports" -> <<BOp("send"), BOp("machine"), BOp("orch")>>
    [] state = "Ready" -> <<BOp("machine"), BOp("orch")>>
    [] state = "Finalizing" -> <<BOp("creator"), BOp("machine"), BOp("orch"), BOp("itself")>>
    [] OTHER -> <<BOp("raise")>>

BuildOps == {"connect", "script", "command", "unbound", "snapshot", "save"}

BuildOptions ==
  [ctx : BOOLEAN, password : BOOLEAN, built : SUBSET ModuleSet,
   keep : KeepValues, shape : Shapes, self : BOOLEAN]

BuildIdle ==
  /\ brun = [state |-> "Provisioning", done |-> {}, abort |-> FALSE, ever |-> FALSE,
             saved |-> FALSE]
  /\ bvms = [creator |-> "none", orch |-> "up"]
  /\ border = [pc |-> "run", in |-> "Provisioning", todo |-> StateOps("Provisioning"),
               guarded |-> TRUE]
  /\ bfaults = 0
BuildInit == bopts \in BuildOptions /\ BuildIdle

Doing == Head(border.todo)
Does(op) == border.pc = "run" /\ bvms.orch = "up" /\ border.todo # <<>> /\ Doing.op = op
Carry(todo) == border' = [border EXCEPT !.todo = todo]
Carried == Carry(Tail(border.todo))
Aborted(run) == [run EXCEPT !.abort = TRUE, !.ever = TRUE]
BuildFault == bfaults < MaxBuildFaults /\ bfaults' = bfaults + 1

(* An error in a handler aborts the run and sends the reports, out of the guard of the loop; *)
(* the state is completed all the same, except Finalizing.  Out of the guard the loop ends.  *)
Guarded == border.guarded /\ (Doing.op = "orch" => border.in = "Finalizing")
Final == {"Finalizing", "Done"}
HandleError ==
  border' =
    IF Guarded
    THEN [border EXCEPT !.guarded = FALSE,
            !.todo = <<BOp("send"), BOp("machine")>>
                     \o (IF border.in \in Final THEN <<>> ELSE <<BOp("orch")>>)]
    ELSE [border EXCEPT !.pc = "dead", !.todo = <<>>]
Handled == HandleError /\ brun' = Aborted(brun)

(* onProvisioning: the VM may be up although starting it fails; the machine is completed. *)
BuildStart ==
  /\ Does("start")
  /\ \/ bvms' = [bvms EXCEPT !.creator = "up"] /\ Carried /\ UNCHANGED bfaults
     \/ /\ \E creator \in {"none", "up"} : bvms' = [bvms EXCEPT !.creator = creator]
        /\ Carry(<<BOp("machine"), BOp("raise")>>) /\ BuildFault
  /\ UNCHANGED <<brun, bopts, sshVars>>

BuildRaises ==
  /\ Does("raise") /\ Handled
  /\ UNCHANGED <<bopts, bvms, bfaults, sshVars>>

BuildCheck ==
  /\ Does("check")
  /\ IF brun.abort THEN Carry(<<BOp("machine"), BOp("orch")>>) ELSE Carried
  /\ UNCHANGED <<brun, bvms, bopts, bfaults, sshVars>>

(* Whatever goes wrong in build_image aborts the run, and the executor goes on. *)
BuildBreaks == brun' = Aborted(brun) /\ Carry(<<BOp("machine"), BOp("orch")>>)

BuildUnbound ==
  /\ Does("unbound") /\ BuildBreaks
  /\ UNCHANGED <<bvms, bopts, bfaults, sshVars>>

(* _remote_run_build_target goes through all of a target, built or not. *)
BuildSkips ==
  /\ Does("script") /\ ssh.pc = "idle" /\ Skipped(Doing.job) /\ Carried
  /\ UNCHANGED <<brun, bvms, bopts, bfaults, sshVars>>

BuildCalls ==
  /\ \E op \in {"connect", "script", "command"} : Does(op)
  /\ ssh.pc = "idle" /\ ~Skipped(Doing.job)
  /\ ssh' = CASE Doing.op = "connect" -> Connect(Doing.api)
              [] Doing.op = "script"  -> RunScript(Doing.job, Doing.api, FALSE)
              [] OTHER                -> RunCommand(Doing.job, Doing.api)
  /\ UNCHANGED <<vm, buildVars>>

BuildSsh ==
  /\ border.pc = "run" /\ SshStep
  /\ UNCHANGED buildVars

(* Mutant: the outcome of a script is not looked at. *)
MutantBuildReturns ==
  /\ border.pc = "run" /\ ssh.pc \in {"ok", "raised"}
  /\ ssh' = NoCall /\ Carried
  /\ UNCHANGED <<brun, vm, bvms, bopts, bfaults>>

BuildReturns ==
  /\ border.pc = "run" /\ ssh.pc \in {"ok", "raised"}
  /\ ssh' = NoCall
  /\ IF ssh.pc = "ok" THEN Carried /\ UNCHANGED brun ELSE BuildBreaks
  /\ UNCHANGED <<vm, bvms, bopts, bfaults>>

(* The connector takes the image; its new id is put on the image module. *)
BuildSnapshot ==
  /\ Does("snapshot")
  /\ \/ Carried /\ UNCHANGED <<brun, bfaults>>
     \/ BuildFault /\ BuildBreaks
  /\ UNCHANGED <<bvms, bopts, sshVars>>

BuildSave ==
  /\ Does("save")
  /\ \/ brun' = [brun EXCEPT !.saved = TRUE] /\ Carried /\ UNCHANGED bfaults
     \/ BuildFault /\ BuildBreaks
  /\ UNCHANGED <<bvms, bopts, sshVars>>

BuildSend ==
  /\ Does("send")
  /\ \/ Carried /\ UNCHANGED <<brun, bfaults>>
     \/ BuildFault /\ Handled
  /\ UNCHANGED <<bvms, bopts, sshVars>>

(* A completion is posted once; if its answer is lost it raises although it was counted. *)
BuildComplete ==
  /\ \E op \in {"machine", "orch"} : Does(op)
  /\ LET counted(run) == [run EXCEPT !.done = IF border.in = run.state THEN @ \cup {Doing.op} ELSE @] IN
     \/ brun' = counted(brun) /\ Carried /\ UNCHANGED bfaults
     \/ /\ BuildFault /\ HandleError
        /\ brun' \in {Aborted(brun), Aborted(counted(brun))}
  /\ UNCHANGED <<bvms, bopts, sshVars>>

(* need_to_stop_images(True): a wrong value of keep-running aborts the run and is as never. *)
KeepOnError == {"always", "on-error"}
KnownKeepValues == {"never", "always", "on-error", "on-success"}
RunToStop == IF bopts.keep \in KnownKeepValues THEN brun ELSE Aborted(brun)
NeedToStop == ~(RunToStop.abort /\ bopts.keep \in KeepOnError)

BuildStopCreator ==
  /\ Does("creator")
  /\ IF ~NeedToStop
     THEN /\ Carried /\ brun' = RunToStop /\ UNCHANGED <<bvms, bfaults>>
     ELSE \/ /\ bvms.creator = "none" /\ Handled                \* no such VM
             /\ UNCHANGED <<bvms, bfaults>>
          \/ /\ bvms.creator = "up" /\ Carried /\ brun' = RunToStop
             /\ bvms' = IF bopts.shape = "single" THEN bvms ELSE [bvms EXCEPT !.creator = "down"]
             /\ UNCHANGED bfaults
          \/ /\ bvms.creator = "up" /\ bopts.shape # "single" /\ BuildFault /\ Handled
             /\ UNCHANGED bvms
  /\ UNCHANGED <<bopts, sshVars>>

(* Mutant: only ever its own VM. *)
MutantBuildStopItself ==
  /\ Does("itself")
  /\ IF ~NeedToStop
     THEN Carried /\ brun' = RunToStop /\ UNCHANGED <<bvms, bfaults>>
     ELSE \/ /\ bvms' = [bvms EXCEPT !.orch = "down"]
             /\ Carried /\ brun' = RunToStop /\ UNCHANGED bfaults
          \/ BuildFault /\ Handled /\ UNCHANGED bvms
  /\ UNCHANGED <<bopts, sshVars>>

(* stopOrchestratorBuild: itself, its vapp, or everything by the server. *)
BuildStopItself ==
  /\ Does("itself")
  /\ IF ~NeedToStop
     THEN Carried /\ brun' = RunToStop /\ UNCHANGED <<bvms, bfaults>>
     ELSE \/ /\ bvms' = [orch |-> "down",
                         creator |-> IF (~bopts.self \/ bopts.shape = "single") /\ bvms.creator = "up"
                                     THEN "down" ELSE bvms.creator]
             /\ Carried /\ brun' = RunToStop /\ UNCHANGED bfaults
          \/ BuildFault /\ Handled /\ UNCHANGED bvms
  /\ UNCHANGED <<bopts, sshVars>>

BuildNextState ==
  /\ border.pc = "run" /\ bvms.orch = "up" /\ border.todo = <<>> /\ border.in # brun.state
  /\ border' = [border EXCEPT !.in = brun.state, !.todo = StateOps(brun.state), !.guarded = TRUE]
  /\ UNCHANGED <<brun, bvms, bopts, bfaults, sshVars>>

-----------------------------------------------------------------------------
(* The server and the user *)

NextBuildState == [Provisioning |-> "Executing", Executing |-> "SendingReports",
                   SendingReports |-> "Ready", Ready |-> "Finalizing", Finalizing |-> "Done"]

BuildServerAdvances ==
  /\ brun.done = {"machine", "orch"} /\ brun.state # "Done"
  /\ brun' = [brun EXCEPT !.state = NextBuildState[@], !.done = {}]
  /\ UNCHANGED <<bvms, bopts, border, bfaults, sshVars>>

BuildAborted ==
  /\ brun.state # "Done" /\ BuildFault
  /\ brun' = IF brun.abort THEN [brun EXCEPT !.abort = FALSE] ELSE Aborted(brun)
  /\ UNCHANGED <<bvms, bopts, border, sshVars>>

BuildProgress ==
  \/ BuildStart \/ BuildRaises \/ BuildCheck \/ BuildUnbound \/ BuildSkips
  \/ BuildCalls \/ BuildSsh
  \/ BuildReturns \/ BuildSnapshot \/ BuildSave \/ BuildSend \/ BuildComplete
  \/ BuildStopCreator \/ BuildStopItself \/ BuildNextState \/ BuildServerAdvances

-----------------------------------------------------------------------------
BuildTypeOK ==
  /\ brun.state \in DOMAIN NextBuildState \cup {"Done"} /\ brun.done \subseteq {"machine", "orch"}
  /\ {brun.abort, brun.ever, brun.saved, border.guarded} \subseteq BOOLEAN
  /\ bvms \in [creator : {"none", "up", "down"}, orch : {"up", "down"}]
  /\ border.pc \in {"run", "dead"} /\ border.in \in DOMAIN NextBuildState \cup {"Done"}
  /\ bfaults \in 0 .. MaxBuildFaults

(* The image that is saved had every step of its modules that are not built on this cloud, no *)
(* step of one that is, the packages, and the orchestrator's access taken back; and no step    *)
(* twice, unless what it printed made the ssh command run it again.                            *)
ImageIsWhole ==
  brun.saved =>
    /\ \A target \in {"prerecipe", "recipe"}, i \in 1 .. Len(BuildChain) :
         (vm.ran[<<target, BuildChain[i]>>] > 0) <=> NeedsStep(i)
    /\ vm.ran[PackageInstall] > 0
    /\ (vm.ran[Secure] > 0 <=> vm.ran[Revert] > 0)
    /\ (~vm.tty => \A j \in BuildJobs : vm.ran[j] <= 1)

(* The orchestrator does not stop itself and leave the creator running, unless the user wants *)
(* VMs to be kept on errors and the run was aborted.                                           *)
BuildLeavesNoVm ==
  bvms.orch = "down" /\ bvms.creator = "up" => bopts.keep \in KeepOnError /\ brun.ever

(* The end: the orchestrator stopped, dead, or alive in a run that is over or cannot go on. *)
BuildOver ==
  \/ bvms.orch = "down" \/ border.pc = "dead"
  \/ border.todo = <<>> /\ border.in = brun.state
=============================================================================
