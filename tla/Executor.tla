------------------------------ MODULE Executor ------------------------------
(***************************************************************************)
(* The executor of one application VM: the service that starts it, the     *)
(* loop over the states of the run (MachineExecutor), the scripts of its   *)
(* component that it runs in each state (NodeDeploymentExecutor) and what  *)
(* it tells the server.  The other executors of the run are the            *)
(* environment: the run goes on once this VM has completed its state.      *)
(***************************************************************************)
EXTENDS Integers, Sequences, SequencesExt

CONSTANTS
  Chain,        \* the modules the component inherits from, the component last
  Images,       \* the sets of modules that may already be built into the image
  MaxExecFaults \* bound: lost calls, signals, scripts that cannot be launched, VM crashes

Modules == Range(Chain)
RunStates == {"Provisioning", "Executing", "SendingReports", "Ready", "Finalizing", "Done"}

ASSUME ChainAssumption ==                \* no module inherits from itself
  Chain \in Seq(STRING) /\ Chain # << >> /\ IsInjective(Chain)
ASSUME ImagesAssumption == Images \subseteq SUBSET Range(Chain)
ASSUME ExecFaultsAssumption == MaxExecFaults \in Nat

VARIABLES
  xproc,    \* the executor: where it is, the state it executes, the steps left of it
  xscript,  \* the script it waits for: "none", "running", or how it ended, "ok" or "bad"
  xorphan,  \* a script is running that the executor no longer waits for
  xpid,     \* the PID file of the service
  xserver,  \* the run on the server, as far as this VM reads and writes it
  ximage,   \* the modules of the chain that are already built into the image
  xran,     \* the scripts that succeeded under this executor
  xever,    \* the scripts that ever succeeded on this VM
  xcut,     \* the executor was once interrupted while it executed a state
  xfaults

execVars == <<xproc, xscript, xorphan, xpid, xserver, ximage, xran, xever, xcut, xfaults>>

-----------------------------------------------------------------------------
(* What the executor does in each state *)

Step(target, module) == [target |-> target, module |-> module]
Call(name) == Step(name, "")

(* need_to_execute_build_step: the scan starts from the component itself, and a module that *)
(* is built there hides all the modules it inherits from.                                   *)
LastBuilt == SelectLastInSeq(Chain, LAMBDA module : module \in ximage)
BuildSteps(target) ==
  [i \in 1 .. Len(Chain) - LastBuilt |-> Step(target, Chain[LastBuilt + i])]
Packages == IF Last(Chain) \in ximage THEN << >> ELSE <<Call("packages")>>
DeploymentSteps ==
  BuildSteps("prerecipe") \o Packages \o BuildSteps("recipe") \o <<Step("execute", Last(Chain))>>

(* Mutant: an instance that is operational is deployed again. *)
MutantExecuting == IF xserver.recovery THEN << >> ELSE DeploymentSteps

Executing ==
  CASE xserver.recovery -> << >>
    [] ~xserver.recovery /\ xserver.scale # "operational" -> DeploymentSteps
    [] OTHER -> IF xserver.adding THEN <<Step("onvmadd", Last(Chain))>> ELSE << >>

SendReport == <<Call("send")>>
SendingReports(send) ==
  (IF send \/ xserver.scale # "operational" THEN <<Step("report", Last(Chain))>> \o SendReport
   ELSE << >>) \o <<Call("operational")>>

StepsOf(state, send) ==
  CASE state = "Provisioning" -> IF xserver.scale = "creating" THEN <<Call("created")>> ELSE << >>
    [] state = "Executing" -> Executing
    [] state = "SendingReports" -> SendingReports(send)
    [] state = "Done" -> <<Call("raise")>>
    [] OTHER -> << >>

Scripts == {"prerecipe", "packages", "recipe", "execute", "onvmadd", "report"}

(* Mutant: the exit code of the deployment target is not looked at. *)
MutantAbortsOnError == {"prerecipe", "packages", "recipe"}

AbortsOnError == {"prerecipe", "packages", "recipe", "execute"}
IgnoresAbort == {"report"}
NeedToComplete(state) == state \notin {"Finalizing", "Done"}

-----------------------------------------------------------------------------
NoProc == [pc |-> "off", state |-> "", todo |-> << >>, send |-> FALSE, guarded |-> FALSE]

ExecInit ==
  /\ xproc = NoProc /\ xscript = "none" /\ xorphan = FALSE /\ xpid = "none"
  /\ xran = {} /\ xever = {} /\ xcut = FALSE /\ xfaults = 0
  /\ ximage \in Images
  /\ \E recovery \in BOOLEAN :
       xserver = [state |-> "Provisioning", done |-> FALSE, abort |-> FALSE, scale |-> "creating",
                  adding |-> FALSE, recovery |-> recovery]

At(pc) == xproc.pc = pc
Todo == Head(xproc.todo)
Alive == xproc.pc \notin {"off", "dead"}
Fault == xfaults < MaxExecFaults /\ xfaults' = xfaults + 1
NextStep == [xproc EXCEPT !.pc = "run", !.todo = Tail(@)]

(* _execute_state, for the state the run is in. *)
EnterState == [xproc EXCEPT !.pc = "run", !.state = xserver.state, !.guarded = TRUE,
                            !.todo = StepsOf(xserver.state, xproc.send)]

(* _fail: the message goes to the abort flag of the run. *)
Failing == [xserver EXCEPT !.abort = TRUE]

(* Only the executor that wrote the PID file removes it. *)
PidFileRemoved == xpid' = IF xpid = "ours" THEN "none" ELSE xpid

(* execute(): an exception that leaves the loop fails the run and ends the executor. *)
Die ==
  /\ xproc' = [NoProc EXCEPT !.pc = "dead"] /\ PidFileRemoved
  /\ UNCHANGED <<xorphan, ximage, xran, xever, xcut>>

(* An exception in a state: the handler fails the run and sends the reports; one in the    *)
(* handler itself, or between two states, leaves the loop.                                 *)
Raise(server) ==
  IF xproc.guarded
  THEN /\ xserver' = [server EXCEPT !.abort = TRUE]
       /\ xproc' = [xproc EXCEPT !.pc = "run", !.guarded = FALSE,
                                 !.todo = SendingReports(xproc.send)]
       /\ UNCHANGED <<xpid, xorphan, ximage, xran, xever, xcut>>
  ELSE xserver' = Failing /\ Die

-----------------------------------------------------------------------------
(* The service *)

(* DaemonRunner: a stale PID file is broken; one that names a process that is alive, maybe *)
(* not an executor at all, makes the start fail, which is only logged.  Without an action  *)
(* the executor runs in the foreground and has no PID file.  A second executor that starts *)
(* beside one of them is not followed.                                                     *)
DaemonStart(service) ==
  IF ~Alive /\ (service => xpid \in {"none", "stale"})
  THEN /\ xpid' = IF service THEN "ours" ELSE xpid
       /\ xproc' = [NoProc EXCEPT !.pc = "create"]
       /\ xran' = {}
       /\ UNCHANGED <<xscript, xorphan, xserver, ximage, xever, xcut, xfaults>>
  ELSE /\ xproc' = IF At("off") THEN [xproc EXCEPT !.pc = "dead"] ELSE xproc
       /\ UNCHANGED <<xscript, xorphan, xpid, xserver, ximage, xran, xever, xcut, xfaults>>

(* Machine.execute: an executor that cannot be created aborts the run and ends. *)
ExecCreate ==
  /\ At("create")
  /\ xproc' = EnterState
  /\ UNCHANGED <<xscript, xorphan, xpid, xserver, ximage, xran, xever, xcut, xfaults>>

ExecCallFails ==
  /\ xproc.pc \in {"create", "poll"} /\ Fault
  /\ xserver' = Failing /\ Die
  /\ UNCHANGED xscript

-----------------------------------------------------------------------------
(* The loop over the states *)

ExecStateDone ==
  /\ At("run") /\ xproc.todo = << >>
  /\ xproc' = [xproc EXCEPT !.pc = IF NeedToComplete(xproc.state) THEN "complete" ELSE "poll",
                            !.guarded = FALSE]
  /\ UNCHANGED <<xscript, xorphan, xpid, xserver, ximage, xran, xever, xcut, xfaults>>

(* complete_state is a POST, which is never tried again: when its answer is lost the state *)
(* is completed, the run failed and the executor gone.                                     *)
ExecComplete ==
  /\ At("complete")
  /\ xserver' = [xserver EXCEPT !.done = @ \/ xserver.state = xproc.state]
  /\ xproc' = [xproc EXCEPT !.pc = "poll"]
  /\ UNCHANGED <<xscript, xorphan, xpid, ximage, xran, xever, xcut, xfaults>>

ExecCompleteFails ==
  /\ At("complete") /\ Fault
  /\ \E done \in BOOLEAN :
       xserver' = [Failing EXCEPT !.done = @ \/ (done /\ xserver.state = xproc.state)]
  /\ Die /\ UNCHANGED xscript

ExecPoll ==
  /\ At("poll") /\ xserver.state # xproc.state
  /\ xproc' = EnterState
  /\ UNCHANGED <<xscript, xorphan, xpid, xserver, ximage, xran, xever, xcut, xfaults>>

-----------------------------------------------------------------------------
(* The calls of a state *)

CallEffect(name) ==
  IF name \in {"created", "operational"} THEN [xserver EXCEPT !.scale = name] ELSE xserver

ExecCall ==
  /\ At("run") /\ xproc.todo # << >> /\ Todo.target \notin Scripts \cup {"raise"}
  /\ xserver' = CallEffect(Todo.target)
  /\ xproc' = [NextStep EXCEPT !.send = @ /\ Todo.target # "operational"]
  /\ UNCHANGED <<xscript, xorphan, xpid, ximage, xran, xever, xcut, xfaults>>

(* A call that raises may have had its effect on the server. *)
ExecCallRaises ==
  /\ At("run") /\ xproc.todo # << >> /\ Todo.target \notin Scripts
  /\ IF Todo.target = "raise" THEN UNCHANGED xfaults ELSE Fault
  /\ \E server \in {xserver, CallEffect(Todo.target)} : Raise(server)
  /\ UNCHANGED xscript

-----------------------------------------------------------------------------
(* The scripts of a state *)

ExecLaunch ==
  /\ At("run") /\ xproc.todo # << >> /\ Todo.target \in Scripts
  /\ xscript' = "running"
  /\ xproc' = [xproc EXCEPT !.pc = "wait"]
  /\ UNCHANGED <<xorphan, xpid, xserver, ximage, xran, xever, xcut, xfaults>>

(* An exception around a script.  The one of the report script still lets the report go. *)
ScriptRaises ==
  IF Todo.target = "report"
  THEN /\ xproc' = [NextStep EXCEPT !.todo = SendReport \o <<Call("raise")>>]
       /\ UNCHANGED <<xserver, xpid, ximage, xran, xever, xcut>>
  ELSE Raise(xserver)

ExecLaunchFails ==
  /\ At("run") /\ xproc.todo # << >> /\ Todo.target \in Scripts /\ Fault
  /\ ScriptRaises
  /\ UNCHANGED <<xscript, xorphan>>

ScriptEnds ==
  /\ xscript = "running"
  /\ xscript' \in {"ok", "bad"}
  /\ UNCHANGED <<xproc, xorphan, xpid, xserver, ximage, xran, xever, xcut, xfaults>>

OrphanEnds ==
  /\ xorphan /\ xorphan' = FALSE
  /\ UNCHANGED <<xproc, xscript, xpid, xserver, ximage, xran, xever, xcut, xfaults>>

(* _launch_script, given how the script ended: some failures abort the run, and the rest of *)
(* the state is not executed; the others are not looked at.                                 *)
AfterScript(ended) ==
  /\ xscript' = "none"
  /\ IF ended = "ok"
     THEN /\ xran' = xran \cup {Todo} /\ xever' = xever \cup {Todo}
          /\ xproc' = [NextStep EXCEPT !.send = @ \/ Todo.target \in {"execute", "onvmadd"}]
          /\ UNCHANGED xserver
     ELSE /\ UNCHANGED <<xran, xever>>
          /\ IF Todo.target \in AbortsOnError
             THEN xserver' = Failing /\ xproc' = [xproc EXCEPT !.pc = "run", !.todo = << >>]
             ELSE /\ xproc' = [NextStep EXCEPT !.send = @ \/ Todo.target = "onvmadd"]
                  /\ UNCHANGED xserver
  /\ UNCHANGED <<xorphan, xpid, ximage, xcut, xfaults>>

ExecSeeEnd == At("wait") /\ xscript \in {"ok", "bad"} /\ AfterScript(xscript)

(* Mutant: looks for the next state in place of the abort flag. *)
MutantExecSeeAbort ==
  /\ At("wait") /\ xscript = "running" /\ xserver.state # xproc.state /\ Todo.target \notin IgnoresAbort
  /\ xproc' = [xproc EXCEPT !.pc = "term"]
  /\ UNCHANGED <<xscript, xorphan, xpid, xserver, ximage, xran, xever, xcut, xfaults>>

(* The abort flag is read while the script runs, which is asked to terminate. *)
ExecSeeAbort ==
  /\ At("wait") /\ xscript = "running" /\ xserver.abort /\ Todo.target \notin IgnoresAbort
  /\ xproc' = [xproc EXCEPT !.pc = "term"]
  /\ UNCHANGED <<xscript, xorphan, xpid, xserver, ximage, xran, xever, xcut, xfaults>>

(* Five seconds later: a script that ended meanwhile counts as it ended, even well; one that *)
(* is still running is killed, and has no exit code.                                         *)
ExecTerminate ==
  /\ At("term")
  /\ AfterScript(IF xscript = "running" THEN "bad" ELSE xscript)

-----------------------------------------------------------------------------
(* Faults *)

(* A signal interrupts the wait: _run_target_script returns one value where the caller      *)
(* unpacks two, and the script goes on alone.                                               *)
ExecInterrupted ==
  /\ At("wait") /\ xscript = "running" /\ ~xorphan /\ Fault
  /\ xscript' = "none" /\ xorphan' = TRUE
  /\ IF Todo.target = "report"
     THEN /\ xproc' = [NextStep EXCEPT !.todo = SendReport \o <<Call("raise")>>]
          /\ UNCHANGED xserver
     ELSE /\ xserver' = Failing
          /\ xproc' = [xproc EXCEPT !.pc = "run", !.guarded = FALSE,
                                    !.todo = SendingReports(xproc.send)]
  /\ UNCHANGED <<xpid, ximage, xran, xever, xcut>>

(* SIGTERM: the executor that executes a state sends its reports and goes on with the loop; *)
(* anywhere else it ends.  A script it waited for goes on alone.                            *)
ExecSigterm ==
  /\ Alive /\ ~xorphan /\ Fault
  /\ xcut' = (xcut \/ xproc.guarded)
  /\ xorphan' = (xscript = "running") /\ xscript' = "none"
  /\ IF xproc.guarded
     THEN /\ xproc' = [xproc EXCEPT !.pc = "run", !.guarded = FALSE,
                                    !.todo = SendingReports(xproc.send)]
          /\ UNCHANGED xpid
     ELSE xproc' = [NoProc EXCEPT !.pc = "dead"] /\ PidFileRemoved
  /\ UNCHANGED <<xserver, ximage, xran, xever>>

(* The VM is power cycled: a PID file that outlives it may name another process by then. *)
ExecCrash ==
  /\ xproc' = NoProc /\ xscript' = "none" /\ xorphan' = FALSE
  /\ xpid' \in IF xpid = "none" THEN {"none"} ELSE {"none", "stale", "foreign"}
  /\ UNCHANGED <<xserver, ximage, xran, xever, xcut>>

-----------------------------------------------------------------------------
(* The server and the rest of the run *)

NextRunState(state) ==
  CASE state = "Provisioning" -> {"Executing"}
    [] state = "Executing" -> {"SendingReports"}
    [] state = "SendingReports" -> {"Ready"}
    [] state = "Ready" -> {"Finalizing"}
    [] OTHER -> {"Done"}

ServerAdvances ==
  /\ xserver.done \/ xserver.state = "Finalizing"
  /\ \E state \in NextRunState(xserver.state) :
       xserver' = [xserver EXCEPT !.state = state, !.done = FALSE]
  /\ UNCHANGED <<xproc, xscript, xorphan, xpid, ximage, xran, xever, xcut, xfaults>>

(* VMs are added to a mutable run, once, and its states start over. *)
ServerScales ==
  /\ xserver.state = "Ready" /\ xserver.done /\ ~xserver.adding /\ ~xserver.abort
  /\ xserver' = [xserver EXCEPT !.state = "Provisioning", !.done = FALSE, !.adding = TRUE]
  /\ UNCHANGED <<xproc, xscript, xorphan, xpid, ximage, xran, xever, xcut, xfaults>>

(* Another executor fails, or the user aborts the run. *)
RunAborted ==
  /\ ~xserver.abort /\ xserver.state # "Done"
  /\ xserver' = Failing
  /\ UNCHANGED <<xproc, xscript, xorphan, xpid, ximage, xran, xever, xcut, xfaults>>

ExecProgress ==
  \/ ExecCreate \/ ExecStateDone \/ ExecComplete \/ ExecPoll \/ ExecCall
  \/ ExecLaunch \/ ExecSeeEnd \/ ExecSeeAbort \/ ExecTerminate
ExecFaulty == ExecCallFails \/ ExecCompleteFails \/ ExecCallRaises \/ ExecLaunchFails
              \/ ExecInterrupted \/ ExecSigterm
ExecEnvironment == ScriptEnds \/ OrphanEnds \/ ServerAdvances \/ ServerScales \/ RunAborted

-----------------------------------------------------------------------------
(* Types of what the executor, the service and the server hold. *)
ExecTypeOK ==
  /\ xproc.pc \in {"off", "create", "run", "wait", "term", "complete", "poll", "dead"}
  /\ xproc.state \in RunStates \cup {""} /\ xproc.send \in BOOLEAN /\ xproc.guarded \in BOOLEAN
  /\ xscript \in {"none", "running", "ok", "bad"} /\ xorphan \in BOOLEAN
  /\ xpid \in {"none", "ours", "stale", "foreign"}
  /\ xserver \in [state : RunStates, done : BOOLEAN, abort : BOOLEAN, adding : BOOLEAN,
                  scale : {"creating", "created", "operational"}, recovery : BOOLEAN]
  /\ ximage \subseteq Modules /\ xcut \in BOOLEAN /\ xfaults \in 0 .. MaxExecFaults

(* A VM that has completed its deployment, in a run that was not aborted, has run to a good *)
(* end every script its image lacked, whatever crashed meanwhile - unless the executor was  *)
(* told to stop while it executed a state, in which case it completes the state all the     *)
(* same and calls itself operational.                                                       *)
Deployed == \/ xserver.state \in {"SendingReports", "Ready", "Finalizing"}
            \/ xserver.state = "Executing" /\ xserver.done
CompletedMeansRun ==
  Deployed /\ ~xserver.abort /\ ~xserver.recovery
    => \/ \A i \in DOMAIN DeploymentSteps : DeploymentSteps[i] \in xever
       \/ xcut

(* An executor does not run a script of the deployment again that succeeded under it, also *)
(* not when the states of a mutable run start over.                                        *)
NoSecondRun ==
  [][At("run") /\ xproc'.pc = "wait" => Todo \notin xran \/ Todo.target \in {"report", "onvmadd"}]_execVars

(* A script that runs when the run is aborted does not keep its executor waiting, be it    *)
(* endless; the report script is the exception.                                            *)
AbortStopsScript ==
  (At("wait") /\ xserver.abort /\ Todo.target \notin IgnoresAbort) ~> ~At("wait")
=============================================================================
