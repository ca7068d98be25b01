---------------------------- MODULE RemoteScript ----------------------------
(***************************************************************************)
(* utils/ssh.py: waiting until a VM can be reached over ssh, and running   *)
(* a script or a command on it, in the foreground or handed over to its    *)
(* at daemon.  One call at a time; the caller waits for "ok" or "raised".  *)
(***************************************************************************)
EXTENDS Integers

CONSTANTS
  SshJobs,      \* the scripts and commands that are run on the VM
  ConnectTries, \* bound: attempts to connect before the deadline of ten minutes
  AuthTries     \* refused authentications that are tolerated (20 in the code)

CopyTries == 4
ASSUME SshAssumption == ConnectTries \in Nat \ {0} /\ AuthTries \in Nat

VARIABLES
  ssh,   \* the call: where it is, what it runs and how
  vm     \* the VM: its at daemon, whether what it prints mentions sudo and tty, what it ran

sshVars == <<ssh, vm>>

NoJob == <<"", "">>
NoCall == [pc |-> "idle", job |-> NoJob, api |-> FALSE, nohup |-> FALSE,
           left |-> 0, auth |-> 0, copies |-> 0]
NewVms == [at : {"running", "stopped", "none"}, tty : BOOLEAN, ran : {[j \in SshJobs |-> 0]}]

SshInit == ssh = NoCall /\ vm \in NewVms

(* A password makes the calls go through the library, a key through the command line. *)
Connect(api) ==
  [NoCall EXCEPT !.pc = "connect", !.api = api, !.left = ConnectTries, !.auth = AuthTries]
RunScript(job, api, nohup) ==
  [NoCall EXCEPT !.pc = "copy", !.job = job, !.api = api, !.nohup = nohup,
                 !.copies = CopyTries]
RunCommand(job, api) == [NoCall EXCEPT !.pc = "run", !.job = job, !.api = api]

SshAt(pc) == ssh.pc = pc
SshTo(pc) == ssh' = [ssh EXCEPT !.pc = pc]

-----------------------------------------------------------------------------
(* waitUntilSshCanConnectOrTimeout: a refused authentication is one of many to be tolerated, *)
(* since a VM that boots may not know its users yet; a name that does not resolve ends it.    *)
SshConnect ==
  /\ SshAt("connect")
  /\ \E outcome \in {"connected", "retry", "auth", "raise"} :
       LET last == ssh.left = 1 IN
       CASE outcome = "connected" -> SshTo("ok")
         [] outcome = "raise" -> SshTo("raised")
         [] outcome = "auth" /\ ssh.auth = 0 -> SshTo("raised")
         [] OTHER -> ssh' = [ssh EXCEPT !.pc = IF last THEN "raised" ELSE @, !.left = @ - 1,
                                        !.auth = IF outcome = "auth" THEN @ - 1 ELSE @]
  /\ UNCHANGED vm

(* The library raises where the command line returns a code, so it is never tried again. *)
SshCopy ==
  /\ SshAt("copy")
  /\ \/ SshTo("chmod")
     \/ IF ssh.api \/ ssh.copies = 1 THEN SshTo("raised")
        ELSE ssh' = [ssh EXCEPT !.copies = @ - 1]
  /\ UNCHANGED vm

SshChmod ==
  /\ SshAt("chmod")
  /\ \/ SshTo("run")                     \* the exit code is not looked at
     \/ ssh.api /\ SshTo("raised")
  /\ UNCHANGED vm

(* How often one ssh command executes what it is given: the command line runs it once more, *)
(* with a terminal, whenever what it printed mentions sudo and tty, whatever its exit code.  *)
(* Where sudo requires a terminal the first of the two did not execute.                      *)
Executions == IF ~ssh.api /\ vm.tty THEN 2 ELSE 1
Ran(times) == vm' = [vm EXCEPT !.ran[ssh.job] = @ + times]

(* remoteRunCommand in the foreground: the connection may break before or after it ran. *)
SshRun ==
  /\ SshAt("run") /\ ~ssh.nohup
  /\ \/ Ran(Executions) /\ SshTo("ok")
     \/ \E times \in 0 .. Executions : Ran(times) /\ SshTo("raised")

(* "at now": the job is only queued when the daemon does not run.  If the command fails, which *)
(* it may do after the job was accepted, at is looked for, by a call that may fail as well.     *)
SshQueue ==
  /\ SshAt("run") /\ ssh.nohup
  /\ \/ vm.at = "running" /\ Ran(1) /\ SshTo("ok")
     \/ vm.at = "stopped" /\ SshTo("atd") /\ UNCHANGED vm
     \/ /\ \E times \in 0 .. 1 : (times = 1 => vm.at = "running") /\ Ran(times)
        /\ \/ vm.at # "none" /\ SshTo("raised")
           \/ SshTo("which")

(* remote_start_service: the daemon that is started executes what was queued. *)
SshStartAtd ==
  /\ SshAt("atd")
  /\ \/ SshTo("ok")
        /\ vm' = [vm EXCEPT !.at = "running", !.ran[ssh.job] = @ + 1]
     \/ SshTo("raised") /\ UNCHANGED vm

(* Without at the script is put in the background, under nohup if the VM has that. *)
SshBackground ==
  /\ SshAt("which")
  /\ \/ Ran(1) /\ SshTo("ok")
     \/ SshTo("raised") /\ UNCHANGED vm

SshStep ==
  \/ SshConnect \/ SshCopy \/ SshChmod \/ SshRun \/ SshQueue \/ SshStartAtd \/ SshBackground

SshTypeOK ==
  /\ ssh \in [pc : {"idle", "connect", "copy", "chmod", "run", "atd", "which", "ok", "raised"},
              job : SshJobs \cup {NoJob}, api : BOOLEAN, nohup : BOOLEAN,
              left : 0 .. ConnectTries, auth : 0 .. AuthTries, copies : 0 .. CopyTries]
  /\ vm \in [at : {"running", "stopped", "none"}, tty : BOOLEAN, ran : [SshJobs -> Nat]]
=============================================================================
