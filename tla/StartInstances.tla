--------------------------- MODULE StartInstances ---------------------------
(***************************************************************************)
(* The command of a connector that starts one instance: a daemon thread    *)
(* starts the VM, prints its id and address, secures it and launches its   *)
(* bootstrap, while the main thread waits for it and for an alarm.         *)
(***************************************************************************)
EXTENDS RemoteScript

CONSTANT WinrmTries    \* bound: attempts to connect to a Windows VM in ten minutes

ASSUME WinrmAssumption == WinrmTries \in Nat

VARIABLES
  sopts,   \* the image, the cloud and the environment
  smain,   \* the main thread
  swork,   \* the daemon thread
  svm      \* the VM, and what of it was printed

startVars == <<sopts, smain, swork, svm>>

SecureSsh == <<"secure", "ssh">>
Bootstrap == <<"bootstrap", "node">>
StartJobs == {SecureSsh, Bootstrap}

ASSUME StartJobsAssumption == StartJobs \subseteq SshJobs

StartOptions ==
  [windows : BOOLEAN, native : BOOLEAN, direct : BOOLEAN, password : BOOLEAN, env : BOOLEAN]

StartIdle ==
  /\ smain = [pc |-> "args", exit |-> -1]
  /\ swork = [pc |-> "off", left |-> WinrmTries]
  /\ svm = [up |-> FALSE, ip |-> FALSE, told |-> "nothing", booting |-> FALSE]
StartInit == sopts \in StartOptions /\ StartIdle

Running == smain.exit = -1
MainTo(pc) == smain' = [smain EXCEPT !.pc = pc]
MainAt(pc) == Running /\ smain.pc = pc
WorkTo(pc) == swork' = [swork EXCEPT !.pc = pc]
WorkAt(pc) == Running /\ swork.pc = pc

-----------------------------------------------------------------------------
(* The main thread *)

StartBegins ==
  /\ MainAt("args")
  /\ \/ MainTo("wait") /\ WorkTo("start")
     \/ MainTo("failed") /\ UNCHANGED swork          \* a missing option, or no access to the cloud
  /\ UNCHANGED <<sopts, svm, sshVars>>

(* wait_tasks_processed: the error of the thread, or its end. *)
StartWaits ==
  /\ MainAt("wait")
  /\ \/ swork.pc = "done" /\ MainTo("good")
     \/ swork.pc = "failed" /\ MainTo("failed")
  /\ UNCHANGED <<sopts, swork, svm, sshVars>>

(* SIGALRM, which raises in the main thread only, and the interrupt of the user. *)
StartAlarm ==
  /\ MainAt("wait") /\ MainTo("failed")
  /\ UNCHANGED <<sopts, swork, svm, sshVars>>

StartInterrupted ==
  /\ MainAt("wait") /\ MainTo("interrupted")
  /\ UNCHANGED <<sopts, swork, svm, sshVars>>

(* main: the exit codes.  A verbose command ends with the trace of its error.  The daemon *)
(* thread goes on until the process is gone, and no longer.                               *)
ExitCodes == [good |-> {0}, failed |-> {1, 2}, interrupted |-> {1}]
StartExits ==
  /\ Running /\ smain.pc \in DOMAIN ExitCodes
  /\ \E code \in ExitCodes[smain.pc] : smain' = [smain EXCEPT !.exit = code]
  /\ UNCHANGED <<sopts, swork, svm, sshVars>>

-----------------------------------------------------------------------------
(* The daemon thread *)

Local == UNCHANGED <<sopts, smain, sshVars>>

(* _start_image: the VM may run before the call returns, or although it fails. *)
StartCloudCall ==
  /\ WorkAt("start") /\ WorkTo("starting")
  /\ \E up \in BOOLEAN : svm' = [svm EXCEPT !.up = up]
  /\ Local

(* Mutant: a VM that comes with its address is not published. *)
MutantStartCloudAnswer ==
  /\ WorkAt("starting")
  /\ \/ /\ WorkTo(IF sopts.direct THEN "contextualize" ELSE "publish")
        /\ svm' = [svm EXCEPT !.up = TRUE, !.ip = sopts.direct]
     \/ WorkTo("failed") /\ UNCHANGED svm
  /\ Local

StartCloudAnswer ==
  /\ WorkAt("starting")
  /\ \/ WorkTo("publish") /\ svm' = [svm EXCEPT !.up = TRUE, !.ip = sopts.direct]
     \/ WorkTo("failed") /\ UNCHANGED svm
  /\ Local

(* The id is printed as soon as it is known, and again with the address. *)
StartPublish ==
  /\ WorkAt("publish")
  /\ svm' = [svm EXCEPT !.told = IF svm.ip THEN "address" ELSE "id"]
  /\ WorkTo(IF svm.ip THEN "contextualize" ELSE "address")
  /\ Local

StartAddress ==
  /\ WorkAt("address")
  /\ \/ WorkTo("publish") /\ svm' = [svm EXCEPT !.ip = TRUE]
     \/ WorkTo("failed") /\ UNCHANGED svm
  /\ Local

StartContextualize ==
  /\ WorkAt("contextualize")
  /\ WorkTo(CASE sopts.native -> "done"
              [] ~sopts.native /\ sopts.windows -> "winscript"
              [] OTHER -> "connect")
  /\ svm' = [svm EXCEPT !.booting = sopts.native]
  /\ Local

(* Access goes by password until a key pair is put in place and passwords are blocked. *)
SshCalls ==
  [connect   |-> Connect(sopts.password),
   secure    |-> RunScript(SecureSsh, sopts.password, FALSE),
   reconnect |-> Connect(FALSE),
   bootstrap |-> RunScript(Bootstrap, FALSE, TRUE)]
AfterCall ==
  [connect |-> "secure", secure |-> "reconnect", reconnect |-> "script", bootstrap |-> "done"]

StartSshCall ==
  /\ Running /\ swork.pc \in DOMAIN AfterCall /\ ssh.pc = "idle"
  /\ ssh' = SshCalls[swork.pc]
  /\ UNCHANGED <<vm, startVars>>

StartSsh ==
  /\ Running /\ SshStep
  /\ UNCHANGED startVars

StartSshReturns ==
  /\ Running /\ ssh.pc \in {"ok", "raised"}
  /\ WorkTo(IF ssh.pc = "ok" THEN AfterCall[swork.pc] ELSE "failed")
  /\ svm' = [svm EXCEPT !.booting = @ \/ (ssh.pc = "ok" /\ swork.pc = "bootstrap")]
  /\ ssh' = NoCall
  /\ UNCHANGED <<vm, sopts, smain>>

(* The script is only put together now, and needs the URL of the bootstrap; on Windows before *)
(* anything is done to the VM.                                                                  *)
StartScript ==
  /\ swork.pc \in {"script", "winscript"} /\ Running
  /\ WorkTo(CASE ~sopts.env -> "failed"
              [] sopts.env /\ swork.pc = "script" -> "bootstrap"
              [] OTHER -> "winconnect")
  /\ UNCHANGED svm /\ Local

(* A Windows VM that cannot be reached in time is taken for reachable; so is one whose answer *)
(* cannot be read.  Errors of any other kind than transport end the wait.                      *)
StartWinConnect ==
  /\ WorkAt("winconnect")
  /\ \/ WorkTo("winrun")
     \/ swork.left > 0 /\ swork' = [swork EXCEPT !.left = @ - 1]
     \/ WorkTo("failed")
  /\ UNCHANGED svm /\ Local

(* The command is sent and not waited for. *)
StartWinRun ==
  /\ WorkAt("winrun")
  /\ \/ WorkTo("done") /\ svm' = [svm EXCEPT !.booting = TRUE]
     \/ WorkTo("failed") /\ UNCHANGED svm
  /\ Local

StartMain == StartBegins \/ StartWaits \/ StartExits
StartWork ==
  \/ StartCloudCall \/ StartCloudAnswer \/ StartPublish \/ StartAddress \/ StartContextualize
  \/ StartSshCall \/ StartSsh \/ StartSshReturns \/ StartScript \/ StartWinConnect \/ StartWinRun
StartProgress == StartMain \/ StartWork
StartNext == StartProgress \/ StartAlarm \/ StartInterrupted
StartSpec == StartInit /\ SshInit /\ [][StartNext]_<<startVars, sshVars>>

-----------------------------------------------------------------------------
StartTypeOK ==
  /\ smain \in [pc : {"args", "wait", "good", "failed", "interrupted"}, exit : -1 .. 2]
  /\ swork.pc \in {"off", "start", "starting", "publish", "address", "contextualize", "script",
                   "winscript", "winconnect", "winrun", "done", "failed"} \cup DOMAIN AfterCall
  /\ swork.left \in 0 .. WinrmTries
  /\ svm \in [up : BOOLEAN, ip : BOOLEAN, told : {"nothing", "id", "address"}, booting : BOOLEAN]

(* A command that ends well printed the address of a VM that bootstraps; no bootstrap starts  *)
(* on a VM whose address was not printed; and a VM that runs unknown to the caller is one     *)
(* whose start had not returned, or had not been printed, when the command failed, was        *)
(* interrupted or timed out.                                                                  *)
StartedIsTold ==
  /\ smain.exit = 0 => svm.up /\ svm.told = "address" /\ svm.booting
  /\ svm.booting \/ vm.ran[Bootstrap] > 0 => svm.told = "address"
  /\ svm.up /\ svm.told = "nothing" /\ ~Running =>
       smain.exit # 0 /\ swork.pc \in {"starting", "publish", "failed"}

StartOver == ~Running
=============================================================================
