--------------------------- MODULE VerticalScaling ---------------------------
(***************************************************************************)
(* Vertical scaling (resize, attach or detach a disk) of the node          *)
(* instances of a mutable run.  Three kinds of program take part and share *)
(* nothing but runtime parameters (RTPs) kept by the SlipStream server:    *)
(*                                                                         *)
(*   - the ss-scale-* command of a user (VerticalScaleCommandBase);        *)
(*   - the orchestrator's executor (OrchestratorDeploymentExecutor and     *)
(*     CloudWrapper.vertically_scale_instances) with its IaaS threads;     *)
(*   - one executor per node instance (NodeDeploymentExecutor).            *)
(*                                                                         *)
(* For each scaled instance the handshake is                               *)
(*     prescale script    -> pre.scale.done  := true      (node)           *)
(*     action on the VM   -> scale.iaas.done := true      (IaaS thread)    *)
(*     pre.scale.done := false, postscale script,                          *)
(*                        scale.state := <action done>    (node)           *)
(*     all instances done -> scale.iaas.done := false     (orchestrator)   *)
(*                                                                         *)
(* The visit to Executing, SendingReports and Ready that follows is        *)
(* modelled as far as it reads or writes the state above.  Every executor  *)
(* completes every one of these states, Ready too, by a call that does not *)
(* say which state it is about.                                            *)
(***************************************************************************)
EXTENDS Naturals, FiniteSets

CONSTANTS
  Nodes,         \* the node instances of the run (one node type, no orchestrator)
  Actions,       \* the scale states ss-scale-* can request in this instance
  MaxRounds,     \* bound: number of scaling requests
  MaxFaults,     \* bound: number of things that go wrong, VM faults included
  Faults         \* what may go wrong, see AllFaults

\* BaseWrapper.SCALE_STATES_VERTICAL_SCALABILITY and its START_STOP map.
VerticalStates == {"resizing", "disk_attaching", "disk_detaching"}
DoneStates     == {"resized", "disk_attached", "disk_detached"}
MutantStartStopMap == [s \in VerticalStates |-> IF s = "resizing" THEN "resized" ELSE "attached"]
StartStopMap ==
  [s \in VerticalStates |-> CASE s = "resizing"       -> "resized"
                              [] s = "disk_attaching" -> "disk_attached"
                              [] s = "disk_detaching" -> "disk_detached"]
ScaleStates == VerticalStates \cup DoneStates \cup {"operational"}

\* "script"  a prescale/postscale target cannot be run (an exception, not an exit code)
\* "iaas"    the connector raises while applying the action on a VM
\* "timeout" the orchestrator's waits may time out
\* "sigterm" a VM goes down gracefully: its executor gets SIGTERM first
\* "crash"   a VM may also restart when the IaaS action did not ask for it
\* "cancel"  a user resets the abort flag (ss-cancel-abort)
\* "cli"     the ss-scale-* command is interrupted
\* "late"    executors complete Ready after the command has set the run to Provisioning
AllFaults == {"script", "iaas", "timeout", "sigterm", "crash", "cancel", "cli", "late"}

ASSUME ConstantsAssumption ==
  /\ IsFiniteSet(Nodes)
  /\ Nodes # {}
  /\ Actions \subseteq VerticalStates
  /\ Actions # {}
  /\ MaxRounds \in Nat
  /\ MaxFaults \in Nat
  /\ Faults \subseteq AllFaults

Rounds == 1 .. MaxRounds

VARIABLES
  \* The server: run state machine, abort flag, completions, and the RTPs.
  runState, abort, round, nDone, oDone,
  scaleState, preDone, iaasDone, device,
  \* The ss-scale-* command.
  cPc, cAct, cNodes, cLeft,
  \* Node executors: program counter, last run state handled, the in-memory
  \* _skip_execute_due_to_vertical_scaling, and the instances its cached Run
  \* shows as being scaled.
  nPc, nAt, skip, view,
  \* The orchestrator's executor: program counter, last run state handled,
  \* cached scale states, instances being scaled, and the latch of _wait_rtp_equals.
  oPc, oAt, oCache, oNodes, oSeen,
  \* The action of each round and the IaaS task of each instance in it.
  action, job,
  \* Things that went wrong so far.
  faults,
  \* History: last round in which an instance ended its prescale script, had the IaaS action
  \* applied, ran postscale; instances whose build recipes were run again; those
  \* whose executor died, and those where it got SIGTERM in a handler.  Executors,
  \* the orchestrator's included, that the server may credit with a completion of a
  \* state they have not handled.
  pre, iaas, post, rebuilt, crashed, credited, terminated

server == <<runState, abort, round, nDone, oDone>>
rtps   == <<scaleState, preDone, iaasDone, device>>
cli    == <<cPc, cAct, cNodes, cLeft>>
nodes  == <<nPc, nAt, skip, view>>
orch   == <<oPc, oAt, oCache, oNodes, oSeen>>
tasks  == <<action, job>>
hist   == <<pre, iaas, post, rebuilt, crashed, credited, terminated>>
vars   == <<server, rtps, cli, nodes, orch, tasks, faults, hist>>

RunStates == {"Provisioning", "Executing", "SendingReports", "Ready", "Aborted"}
NodePcs   == {"poll", "prescale", "set_pre", "wait_iaas", "unset_pre", "postscale",
              "set_done", "reports", "complete", "down"}
OrchPcs   == {"poll", "classify", "select", "wait_pre", "iaas", "wait_done",
              "unset_iaas", "complete"}
JobStates == {"none", "running", "applied", "reported", "done", "failed"}
Orchestrator == "orchestrator"

FlagType == abort \in BOOLEAN /\ oDone \in BOOLEAN

ServerType ==
  /\ runState \in RunStates
  /\ round \in 0 .. MaxRounds
  /\ nDone \subseteq Nodes

RtpType ==
  /\ scaleState \in [Nodes -> ScaleStates]
  /\ preDone \in [Nodes -> BOOLEAN]
  /\ iaasDone \in [Nodes -> BOOLEAN]
  /\ device \in [Nodes -> 0 .. MaxRounds]

CliType ==
  /\ cPc \in {"idle", "setting"}
  /\ cAct \in VerticalStates \cup {"none"}
  /\ cPc = "setting" => cAct \in Actions /\ round < MaxRounds
  /\ cNodes \subseteq Nodes
  /\ cLeft \subseteq Nodes

NodeType ==
  /\ nPc \in [Nodes -> NodePcs]
  /\ nAt \in [Nodes -> RunStates \cup {"none"}]
  /\ skip \in [Nodes -> BOOLEAN]
  /\ view \in [Nodes -> SUBSET Nodes]

OrchType ==
  /\ oPc \in OrchPcs
  /\ oAt \in RunStates
  /\ oCache \in [Nodes -> ScaleStates]
  /\ oNodes \subseteq Nodes
  /\ oSeen \subseteq Nodes

TaskType ==
  /\ action \in [Rounds -> VerticalStates \cup {"none"}]
  /\ job \in [Rounds -> [Nodes -> JobStates]]

HistType ==
  /\ faults \in 0 .. MaxFaults
  /\ pre \in [Nodes -> 0 .. MaxRounds]
  /\ iaas \in [Nodes -> 0 .. MaxRounds]
  /\ post \in [Nodes -> 0 .. MaxRounds]
  /\ rebuilt \subseteq Nodes
  /\ crashed \subseteq Nodes
  /\ credited \subseteq Nodes \cup {Orchestrator}
  /\ terminated \subseteq Nodes

TypeOK ==
  /\ FlagType /\ ServerType /\ RtpType /\ CliType
  /\ NodeType /\ OrchType /\ TaskType /\ HistType

\* The deployment is up: every instance is operational and the run is Ready.
Init ==
  /\ runState = "Ready" /\ abort = FALSE /\ round = 0
  /\ nDone = {} /\ oDone = FALSE
  /\ scaleState = [n \in Nodes |-> "operational"]
  /\ preDone = [n \in Nodes |-> FALSE]
  /\ iaasDone = [n \in Nodes |-> FALSE]
  /\ device = [n \in Nodes |-> 0]
  /\ cPc = "idle" /\ cAct = "none" /\ cNodes = {} /\ cLeft = {}
  /\ nPc = [n \in Nodes |-> "poll"]
  /\ nAt = [n \in Nodes |-> "Ready"]
  /\ skip = [n \in Nodes |-> FALSE]
  /\ view = [n \in Nodes |-> {}]
  /\ oPc = "poll" /\ oAt = "Ready"
  /\ oCache = [n \in Nodes |-> "operational"]
  /\ oNodes = {} /\ oSeen = {}
  /\ action = [r \in Rounds |-> "none"]
  /\ job = [r \in Rounds |-> [n \in Nodes |-> "none"]]
  /\ faults = 0
  /\ pre = [n \in Nodes |-> 0]
  /\ iaas = [n \in Nodes |-> 0]
  /\ post = [n \in Nodes |-> 0]
  /\ rebuilt = {} /\ crashed = {} /\ credited = {} /\ terminated = {}

-----------------------------------------------------------------------------
(* Reading the scale states.  One pass of GETs over the instances is one   *)
(* step: within a round an instance only ever leaves the requested state,  *)
(* so a pass that finds every instance in it finds them all in it at once. *)

\* BaseWrapper._get_effective_scale_states: the states, now, of the instances
\* that the cached Run shows as being scaled.
EffectiveStates(scaling) == {scaleState[n] : n \in scaling}

Scaling(states) == {n \in Nodes : states[n] # "operational"}

Inconsistent(states) == Cardinality(states) > 1

-----------------------------------------------------------------------------
(* Every event that is not the normal course uses up one of MaxFaults.      *)

GoesWrong == faults < MaxFaults /\ faults' = faults + 1

Fault(f) == f \in Faults /\ GoesWrong

-----------------------------------------------------------------------------
(* The ss-scale-* command: check the run, set scale.state on each instance, *)
(* set the run to Provisioning.                                             *)

\* _check_allowed_to_scale.  Like each later request of the command, it is refused
\* with a conflict, and the command ends, while the abort flag is up.
CliCheck ==
  /\ cPc = "idle" /\ runState = "Ready" /\ ~abort /\ round < MaxRounds
  /\ \E a \in Actions, S \in (SUBSET Nodes) \ {{}} :
        cAct' = a /\ cNodes' = S /\ cLeft' = S
  /\ cPc' = "setting"
  /\ UNCHANGED <<server, rtps, nodes, orch, tasks, faults, hist>>

\* _set_scale_state
CliSetScaleState(n) ==
  /\ cPc = "setting" /\ n \in cLeft /\ ~abort
  /\ scaleState' = [scaleState EXCEPT ![n] = cAct]
  /\ cLeft' = cLeft \ {n}
  /\ UNCHANGED <<preDone, iaasDone, device, cPc, cAct, cNodes,
                 server, nodes, orch, tasks, faults, hist>>

\* The executors that have handled Ready and not yet completed it.
CompletingReady ==
  {n \in Nodes : nPc[n] = "complete" /\ nAt[n] = "Ready"}
    \cup {o \in {Orchestrator} : oPc = "complete" /\ oAt = "Ready"}

\* _set_run_provisioning
CliSetProvisioning ==
  /\ cPc = "setting" /\ cLeft = {} /\ ~abort
  /\ IF CompletingReady = {} THEN UNCHANGED faults ELSE Fault("late")
  /\ credited' = credited \cup CompletingReady
  /\ cPc' = "idle"
  /\ runState' = "Provisioning" /\ round' = round + 1
  /\ nDone' = {} /\ oDone' = FALSE
  /\ UNCHANGED <<abort, cAct, cNodes, cLeft, rtps, nodes, orch, tasks,
                 pre, iaas, post, rebuilt, crashed, terminated>>

CliInterrupted ==
  /\ cPc = "setting"
  /\ Fault("cli") \/ (abort /\ UNCHANGED faults)
  /\ cPc' = "idle"
  /\ UNCHANGED <<cAct, cNodes, cLeft, server, rtps, nodes, orch, tasks, hist>>

CancelAbort ==
  /\ "cancel" \in Faults /\ abort /\ runState # "Aborted"
  /\ abort' = FALSE
  /\ UNCHANGED <<runState, round, nDone, oDone, rtps, cli, nodes, orch, tasks, faults, hist>>

-----------------------------------------------------------------------------
(* The server's run state machine: it moves on when every executor has     *)
(* completed the state, and an aborted run does not stay Ready.  It leaves *)
(* Ready and Aborted without any completion, so it counts none there.      *)

NextState == [s \in {"Provisioning", "Executing", "SendingReports"} |->
                CASE s = "Provisioning"   -> "Executing"
                  [] s = "Executing"      -> "SendingReports"
                  [] s = "SendingReports" -> "Ready"]

Counts == runState \in DOMAIN NextState

ServerAdvance ==
  /\ Counts /\ nDone = Nodes /\ oDone
  /\ runState' = NextState[runState]
  /\ nDone' = {} /\ oDone' = FALSE
  /\ UNCHANGED <<abort, round, rtps, cli, nodes, orch, tasks, faults, hist>>

ServerAbort ==
  /\ runState = "Ready" /\ abort
  /\ runState' = "Aborted"
  /\ UNCHANGED <<abort, round, nDone, oDone, rtps, cli, nodes, orch, tasks, faults, hist>>

-----------------------------------------------------------------------------
(* A node instance's executor.  A Mutant... definition is the plausible bug *)
(* that the property named in PROJECT.json must notice; nothing uses it.     *)

Goto(n, pc) == nPc' = [nPc EXCEPT ![n] = pc]

\* MachineExecutor._wait_for_next_state and the start of _execute_state.
NewState(n, s) ==
  /\ nPc[n] = "poll" /\ runState = s /\ nAt[n] # s
  /\ nAt' = [nAt EXCEPT ![n] = s]

\* MachineExecutor._execute_state's last except clause: raise the abort flag,
\* then run onSendingReports of the subclass.
Fail(n) == Goto(n, "reports") /\ abort' = TRUE

\* The RTPs a node instance sets for itself.
MutantUnsetPreScaleDone(n) == UNCHANGED preDone
UnsetPreScaleDone(n) == preDone' = [preDone EXCEPT ![n] = FALSE]

MutantScaleActionDone(s) == "operational"
ScaleActionDone(s) == StartStopMap[s]

MutantSetOperational(n) ==
  scaleState' = [scaleState EXCEPT ![n] = IF @ \in VerticalStates THEN "operational" ELSE @]
SetOperational(n) == scaleState' = [scaleState EXCEPT ![n] = "operational"]

\* _skip_execute_due_to_vertical_scaling
SetSkip(n) == skip' = [skip EXCEPT ![n] = TRUE]

\* Back to polling after the completion was posted.
MutantPollAgain(n) == UNCHANGED nPc
PollAgain(n) == Goto(n, "poll")

\* onProvisioning up to its first blocking call.  The cache of instances is dropped;
\* wait_scale_iaas_done fills it again when prescale is not run.
NodeProvisioning(n) ==
  /\ NewState(n, "Provisioning")
  /\ LET waits == scaleState[n] \in VerticalStates /\ preDone[n]
     IN /\ view' = [view EXCEPT ![n] = IF waits THEN Scaling(scaleState) ELSE {}]
        /\ Goto(n, IF scaleState[n] \notin VerticalStates THEN "complete"
                   ELSE IF waits THEN "wait_iaas" ELSE "prescale")
  /\ UNCHANGED <<server, rtps, cli, skip, orch, tasks, faults, hist>>

\* _execute_pre_scale_action_target; its exports fill the cache of instances.  The
\* exit code of the script makes no difference, nor does the abort flag killing it.
NodePreScale(n) ==
  /\ nPc[n] = "prescale"
  /\ view' = [view EXCEPT ![n] = Scaling(scaleState)]
  /\ \/ /\ Goto(n, "set_pre")
        /\ pre' = [pre EXCEPT ![n] = round]
        /\ UNCHANGED <<abort, faults>>
     \/ /\ Fault("script") /\ Fail(n)
        /\ UNCHANGED pre
  /\ UNCHANGED <<runState, round, nDone, oDone, rtps, cli, nAt, skip, orch, tasks,
                 iaas, post, rebuilt, crashed, credited, terminated>>

NodeSetPreScaleDone(n) ==
  /\ nPc[n] = "set_pre"
  /\ preDone' = [preDone EXCEPT ![n] = TRUE]
  /\ Goto(n, "wait_iaas")
  /\ UNCHANGED <<server, scaleState, iaasDone, device, cli, nAt, skip, view, orch,
                 tasks, faults, hist>>

\* BaseWrapper.wait_scale_iaas_done: no timeout, and no look at the abort flag.
NodeSeeIaasDone(n) ==
  /\ nPc[n] = "wait_iaas" /\ iaasDone[n]
  /\ Goto(n, "unset_pre")
  /\ UNCHANGED <<server, rtps, cli, nAt, skip, view, orch, tasks, faults, hist>>

NodeUnsetPreScaleDone(n) ==
  /\ nPc[n] = "unset_pre"
  /\ UnsetPreScaleDone(n)
  /\ Goto(n, "postscale")
  /\ UNCHANGED <<server, scaleState, iaasDone, device, cli, nAt, skip, view, orch,
                 tasks, faults, hist>>

\* _execute_post_scale_action_target
NodePostScale(n) ==
  /\ nPc[n] = "postscale"
  /\ view' = [view EXCEPT ![n] = IF view[n] = {} THEN Scaling(scaleState) ELSE view[n]]
  /\ \/ /\ Goto(n, "set_done")
        /\ post' = [post EXCEPT ![n] = round]
        /\ UNCHANGED <<abort, faults>>
     \/ /\ Fault("script") /\ Fail(n)
        /\ UNCHANGED post
  /\ UNCHANGED <<runState, round, nDone, oDone, rtps, cli, nAt, skip, orch, tasks,
                 pre, iaas, rebuilt, crashed, credited, terminated>>

\* set_scale_action_done, then _skip_execute_due_to_vertical_scaling.
NodeSetScaleActionDone(n) ==
  /\ nPc[n] = "set_done"
  /\ IF scaleState[n] \in VerticalStates
     THEN /\ scaleState' = [scaleState EXCEPT ![n] = ScaleActionDone(@)]
          /\ SetSkip(n)
          /\ Goto(n, "complete")
          /\ UNCHANGED abort
     ELSE Fail(n) /\ UNCHANGED <<scaleState, skip>>
  /\ UNCHANGED <<runState, round, nDone, oDone, preDone, iaasDone, device, cli, nAt,
                 view, orch, tasks, faults, hist>>

\* onExecuting.  An operational instance looks for a scale action to run a
\* target for (none is mapped to a vertical action) and so reads the scale
\* states, from the cache if an earlier target filled it.
NodeExecuting(n) ==
  /\ NewState(n, "Executing")
  /\ LET seen == IF view[n] = {} THEN Scaling(scaleState) ELSE view[n]
     IN \/ /\ skip[n]
           /\ skip' = [skip EXCEPT ![n] = FALSE]
           /\ Goto(n, "complete")
           /\ UNCHANGED <<abort, rebuilt, view>>
        \/ /\ ~skip[n] /\ scaleState[n] # "operational"
           /\ rebuilt' = rebuilt \cup {n}
           /\ Goto(n, "complete")
           /\ UNCHANGED <<abort, skip, view>>
        \/ /\ ~skip[n] /\ scaleState[n] = "operational"
           /\ view' = [view EXCEPT ![n] = seen]
           /\ IF Inconsistent(EffectiveStates(seen))
              THEN Fail(n)
              ELSE Goto(n, "complete") /\ UNCHANGED abort
           /\ UNCHANGED <<skip, rebuilt>>
  /\ UNCHANGED <<runState, round, nDone, oDone, rtps, cli, orch, tasks, faults,
                 pre, iaas, post, crashed, credited, terminated>>

NodeSendingReports(n) ==
  /\ NewState(n, "SendingReports")
  /\ Goto(n, "reports")
  /\ UNCHANGED <<server, rtps, cli, skip, view, orch, tasks, faults, hist>>

\* onReady prints.
NodeReady(n) ==
  /\ NewState(n, "Ready")
  /\ Goto(n, "complete")
  /\ UNCHANGED <<server, rtps, cli, skip, view, orch, tasks, faults, hist>>

\* onSendingReports, as a state of the run or on the way out of a failed one.
NodeReports(n) ==
  /\ nPc[n] = "reports"
  /\ SetOperational(n)
  /\ Goto(n, "complete")
  /\ UNCHANGED <<server, preDone, iaasDone, device, cli, nAt, skip, view, orch,
                 tasks, faults, hist>>

\* MachineExecutor._complete_state: whatever state the run is in by now.
NodeComplete(n) ==
  /\ nPc[n] = "complete"
  /\ nDone' = IF Counts THEN nDone \cup {n} ELSE nDone
  /\ PollAgain(n)
  /\ UNCHANGED <<runState, abort, round, oDone, rtps, cli, nAt, skip, view, orch,
                 tasks, faults, hist>>

\* _wait_for_next_state before the state changes: is_mutable fetches the Run, which
\* stays cached for onExecuting.  In the other states nothing reads it before
\* clean_local_cache drops it.
NodePoll(n) ==
  /\ nPc[n] = "poll" /\ nAt[n] = "Provisioning" /\ runState = "Provisioning"
  /\ view[n] = {} /\ Scaling(scaleState) # {}
  /\ view' = [view EXCEPT ![n] = Scaling(scaleState)]
  /\ UNCHANGED <<server, rtps, cli, nPc, nAt, skip, orch, tasks, faults, hist>>

-----------------------------------------------------------------------------
(* Restarts of a VM: the connector may restart it to apply the action, and  *)
(* the init system starts its executor again at boot.                       *)

MayGoDown(n) ==
  /\ GoesWrong
  /\ "crash" \in Faults \/ \E r \in Rounds : job[r][n] = "running"

\* The executor process is gone, and what it kept in memory with it.  If it has
\* completed the state of the run, it will handle and complete it again.
VmDown(n) ==
  /\ MayGoDown(n) /\ nPc[n] # "down"
  /\ Goto(n, "down")
  /\ nAt' = [nAt EXCEPT ![n] = "none"]
  /\ skip' = [skip EXCEPT ![n] = FALSE]
  /\ view' = [view EXCEPT ![n] = {}]
  /\ crashed' = crashed \cup {n}
  /\ credited' = credited \cup ({n} \cap nDone)
  /\ UNCHANGED <<server, rtps, cli, orch, tasks, pre, iaas, post, rebuilt, terminated>>

\* MachineExecutor.__init__ looks its instance up in the Run, which stays cached.
VmBoot(n) ==
  /\ nPc[n] = "down"
  /\ Goto(n, "poll")
  /\ view' = [view EXCEPT ![n] = Scaling(scaleState)]
  /\ UNCHANGED <<server, rtps, cli, nAt, skip, orch, tasks, faults, hist>>

\* SIGTERM while a handler runs: SystemExit reaches _execute_state, which sends
\* reports and carries on, without the abort flag.
VmSigterm(n) ==
  /\ "sigterm" \in Faults /\ MayGoDown(n)
  /\ nPc[n] \in {"prescale", "set_pre", "wait_iaas", "unset_pre", "postscale", "set_done"}
  /\ Goto(n, "reports")
  /\ terminated' = terminated \cup {n}
  /\ UNCHANGED <<server, rtps, cli, nAt, skip, view, orch, tasks,
                 pre, iaas, post, rebuilt, crashed, credited>>

-----------------------------------------------------------------------------
(* The orchestrator's executor. *)

OrchNewState(s) == oPc = "poll" /\ runState = s /\ oAt # s /\ oAt' = s

\* _execute_state's last except clause; onSendingReports of the orchestrator
\* changes nothing of this module's state.
OrchFail == oPc' = "complete" /\ abort' = TRUE /\ oNodes' = {} /\ oSeen' = {}

OrchNext(pc) == oPc' = pc /\ UNCHANGED <<abort, oNodes, oSeen>>

\* _wait_rtp_equals: what its two uses wait for, and when it returns.
MutantAllSeen == oSeen # {}
AllSeen == oSeen = oNodes

MutantInScaledState(n) == scaleState[n] # action[round]
InScaledState(n) == scaleState[n] = StartStopMap[action[round]]

\* onProvisioning: drop the caches, fetch the instances again.
OrchProvisioning ==
  /\ OrchNewState("Provisioning")
  /\ oCache' = scaleState
  /\ oPc' = "classify"
  /\ UNCHANGED <<server, rtps, cli, nodes, oNodes, oSeen, tasks, faults, hist>>

\* is_vertical_scaling; with nothing to scale vertically there is nothing to do.
OrchClassify ==
  /\ oPc = "classify"
  /\ LET eff == EffectiveStates(Scaling(oCache))
     IN \/ Inconsistent(eff) /\ OrchFail
        \/ ~Inconsistent(eff) /\ eff \cap VerticalStates # {} /\ OrchNext("select")
        \/ ~Inconsistent(eff) /\ eff \cap VerticalStates = {} /\ OrchNext("complete")
  /\ UNCHANGED <<runState, round, nDone, oDone, rtps, cli, nodes, oAt, oCache, tasks,
                 faults, hist>>

\* vertically_scale_instances, up to its first wait.
OrchSelect ==
  /\ oPc = "select"
  /\ LET eff == EffectiveStates(Scaling(oCache))
     IN \/ /\ Inconsistent(eff) \/ eff \cap VerticalStates = {}
           /\ OrchFail /\ UNCHANGED action
        \/ /\ ~Inconsistent(eff)
           /\ \E s \in eff \cap VerticalStates :
                /\ action' = [action EXCEPT ![round] = s]
                /\ oNodes' = {n \in Nodes : oCache[n] = s}
           /\ oPc' = "wait_pre"
           /\ UNCHANGED <<abort, oSeen>>
  /\ UNCHANGED <<runState, round, nDone, oDone, rtps, cli, nodes, oAt, oCache, job,
                 faults, hist>>

\* _wait_pre_scale_done: an instance seen done is not read again.
OrchSeePreScaleDone(n) ==
  /\ oPc = "wait_pre" /\ n \in oNodes \ oSeen /\ preDone[n]
  /\ oSeen' = oSeen \cup {n}
  /\ UNCHANGED <<server, rtps, cli, nodes, oPc, oAt, oCache, oNodes, tasks, faults, hist>>

\* TimeoutException of _wait_rtp_equals in _wait_pre_scale_done or _wait_scale_state.
OrchTimeout ==
  /\ oPc \in {"wait_pre", "wait_done"} /\ ~AllSeen
  /\ Fault("timeout") /\ OrchFail
  /\ UNCHANGED <<runState, round, nDone, oDone, rtps, cli, nodes, oAt, oCache, tasks, hist>>

\* _request_iaas_scaling_action: one task per instance for the IaaS threads.
OrchRequestIaas ==
  /\ oPc = "wait_pre" /\ AllSeen
  /\ job' = [job EXCEPT ![round] = [n \in Nodes |-> IF n \in oNodes THEN "running" ELSE "none"]]
  /\ oPc' = "iaas"
  /\ UNCHANGED <<server, rtps, cli, nodes, oAt, oCache, oNodes, oSeen, action, faults, hist>>

\* TasksRunner.wait_tasks_processed returns, or raises the exception of a thread
\* while the other threads go on.
OrchIaasDone ==
  /\ oPc = "iaas" /\ \A n \in oNodes : job[round][n] = "done"
  /\ oPc' = "wait_done" /\ oSeen' = {}
  /\ UNCHANGED <<server, rtps, cli, nodes, oAt, oCache, oNodes, tasks, faults, hist>>

OrchIaasFailed ==
  /\ oPc = "iaas" /\ \E n \in oNodes : job[round][n] = "failed"
  /\ OrchFail
  /\ UNCHANGED <<runState, round, nDone, oDone, rtps, cli, nodes, oAt, oCache, tasks,
                 faults, hist>>

\* _wait_scale_state
OrchSeeScaleActionDone(n) ==
  /\ oPc = "wait_done" /\ n \in oNodes \ oSeen /\ InScaledState(n)
  /\ oSeen' = oSeen \cup {n}
  /\ UNCHANGED <<server, rtps, cli, nodes, oPc, oAt, oCache, oNodes, tasks, faults, hist>>

OrchScaled ==
  /\ oPc = "wait_done" /\ AllSeen
  /\ oPc' = IF oNodes = {} THEN "complete" ELSE "unset_iaas"
  /\ oSeen' = {}
  /\ UNCHANGED <<server, rtps, cli, nodes, oAt, oCache, oNodes, tasks, faults, hist>>

OrchUnsetIaasDone(n) ==
  /\ oPc = "unset_iaas" /\ n \in oNodes
  /\ iaasDone' = [iaasDone EXCEPT ![n] = FALSE]
  /\ oNodes' = oNodes \ {n}
  /\ oPc' = IF oNodes' = {} THEN "complete" ELSE "unset_iaas"
  /\ UNCHANGED <<server, scaleState, preDone, device, cli, nodes, oAt, oCache, oSeen,
                 tasks, faults, hist>>

\* onExecuting: check_scale_state_consistency, over the cache of Provisioning.
OrchExecuting ==
  /\ OrchNewState("Executing")
  /\ IF Inconsistent(EffectiveStates(Scaling(oCache)))
     THEN OrchFail ELSE OrchNext("complete")
  /\ UNCHANGED <<runState, round, nDone, oDone, rtps, cli, nodes, oCache, tasks,
                 faults, hist>>

OrchSendingReports ==
  /\ OrchNewState("SendingReports")
  /\ oPc' = "complete"
  /\ UNCHANGED <<server, rtps, cli, nodes, oCache, oNodes, oSeen, tasks, faults, hist>>

\* onReady: the completions for failed instances are left out, and the executor of a
\* mutable run does not kill itself.
OrchReady ==
  /\ OrchNewState("Ready")
  /\ oPc' = "complete"
  /\ UNCHANGED <<server, rtps, cli, nodes, oCache, oNodes, oSeen, tasks, faults, hist>>

OrchComplete ==
  /\ oPc = "complete"
  /\ oDone' = (oDone \/ Counts)
  /\ oPc' = "poll"
  /\ UNCHANGED <<runState, abort, round, nDone, rtps, cli, nodes, oAt, oCache, oNodes,
                 oSeen, tasks, faults, hist>>

-----------------------------------------------------------------------------
(* The IaaS threads: BaseCloudConnector._resize_and_report and its siblings *)
(* run by a TasksRunner.  A thread never looks at the orchestrator again.   *)

SetJob(r, n, s) == job' = [job EXCEPT ![r][n] = s]

JobApply(r, n) ==
  /\ job[r][n] = "running"
  /\ SetJob(r, n, "applied")
  /\ iaas' = [iaas EXCEPT ![n] = IF r > iaas[n] THEN r ELSE iaas[n]]
  /\ UNCHANGED <<server, rtps, cli, nodes, orch, action, faults, pre, post, rebuilt,
                 crashed, credited, terminated>>

JobFail(r, n) ==
  /\ Fault("iaas") /\ job[r][n] = "running"
  /\ SetJob(r, n, "failed")
  /\ UNCHANGED <<server, rtps, cli, nodes, orch, action, hist>>

\* The order of apply and report, and what a done reporter does after its first step.
MutantMayReport(r, n) == job[r][n] \in {"running", "applied"}
MayReport(r, n) == job[r][n] = "applied"

MutantAfterReport(r) == "done"
AfterReport(r) == IF action[r] = "disk_attaching" THEN "reported" ELSE "done"

\* set_scale_iaas_done, the first step of every done reporter.
JobReport(r, n) ==
  /\ MayReport(r, n)
  /\ iaasDone' = [iaasDone EXCEPT ![n] = TRUE]
  /\ SetJob(r, n, AfterReport(r))
  /\ UNCHANGED <<server, scaleState, preDone, device, cli, nodes, orch, action, faults, hist>>

\* set_attached_disk, the second step when a disk was attached.
JobReportDevice(r, n) ==
  /\ job[r][n] = "reported"
  /\ device' = [device EXCEPT ![n] = r]
  /\ SetJob(r, n, "done")
  /\ UNCHANGED <<server, scaleState, preDone, iaasDone, cli, nodes, orch, action, faults, hist>>

-----------------------------------------------------------------------------
NodeStep(n) ==
  \/ NodeProvisioning(n) \/ NodePreScale(n) \/ NodeSetPreScaleDone(n)
  \/ NodeSeeIaasDone(n) \/ NodeUnsetPreScaleDone(n) \/ NodePostScale(n)
  \/ NodeSetScaleActionDone(n) \/ NodeExecuting(n) \/ NodeSendingReports(n)
  \/ NodeReady(n) \/ NodePoll(n) \/ NodeReports(n) \/ NodeComplete(n) \/ VmBoot(n)

OrchStep ==
  \/ OrchProvisioning \/ OrchClassify \/ OrchSelect \/ OrchRequestIaas
  \/ OrchIaasDone \/ OrchIaasFailed \/ OrchScaled \/ OrchExecuting
  \/ OrchSendingReports \/ OrchReady \/ OrchComplete \/ OrchTimeout
  \/ \E n \in Nodes : OrchSeePreScaleDone(n) \/ OrchSeeScaleActionDone(n) \/ OrchUnsetIaasDone(n)

JobStep(r, n) ==
  JobApply(r, n) \/ JobFail(r, n) \/ JobReport(r, n) \/ JobReportDevice(r, n)

CliStep ==
  CliCheck \/ (\E n \in Nodes : CliSetScaleState(n)) \/ CliSetProvisioning \/ CliInterrupted

ServerStep == ServerAdvance \/ ServerAbort

\* Between requests, and once the run is aborted, nothing has to happen.
Quiet == runState \in {"Ready", "Aborted"} /\ UNCHANGED vars

Next ==
  \/ Quiet
  \/ CliStep \/ CancelAbort \/ ServerStep \/ OrchStep
  \/ \E n \in Nodes : NodeStep(n) \/ VmDown(n) \/ VmSigterm(n)
  \/ \E r \in Rounds, n \in Nodes : JobStep(r, n)

\* Executors, IaaS threads and server keep running; users need not do anything
\* and nothing has to fail.  A script, a connector call or a boot ends.
Fairness ==
  /\ \A n \in Nodes : WF_vars(NodeStep(n))
  /\ WF_vars(OrchStep)
  /\ \A r \in Rounds, n \in Nodes : WF_vars(JobStep(r, n))
  /\ WF_vars(ServerStep)

Spec == Init /\ [][Next]_vars
FairSpec == Spec /\ Fairness

-----------------------------------------------------------------------------
(* Properties *)

\* The action of a round is applied to an instance's VM only after the instance
\* ended its prescale script in that round: what _wait_pre_scale_done is for.  Two
\* kinds of instance are excepted, which can leave pre.scale.done up for a later
\* request: one that once got SIGTERM in a handler, and one that was credited with a
\* completion it had not earned, so that the run may go on without it.
PreScaleBeforeIaas ==
  \A n \in Nodes \ (terminated \cup credited) : iaas[n] <= pre[n]

\* An instance runs its postscale script only after the action of that round was
\* applied to its VM: what wait_scale_iaas_done is for.
PostScaleAfterIaas == \A n \in Nodes : post[n] <= iaas[n]

\* Once the run has left Provisioning the handshake is reset for the next request.
HandshakeReset ==
  runState # "Provisioning" =>
    \A n \in Nodes : ~preDone[n] /\ ~iaasDone[n]

\* When the instances move on to Executing, every instance a disk was requested
\* for has the RTP that names the disk attached in this very request.
DeviceRecorded ==
  runState = "Executing" /\ cAct = "disk_attaching" =>
    \A n \in cNodes : device[n] = round

\* When the orchestrator concludes that the instances are scaled, each of them
\* has had the action of this request applied and has run postscale in it.
ScaledMeansServed ==
  oPc = "unset_iaas" => \A n \in oNodes : iaas[n] = round /\ post[n] = round

\* A deployed instance never runs its build recipes and execute target again
\* because of vertical scaling, unless its executor died and forgot that it has
\* to skip them, or the run went through a state without it, which its credit allows,
\* and its scale state was not reset; one that got SIGTERM still remembers.
NoRebuildWithoutRestart == rebuilt \subseteq crashed \cup credited

\* A completion that the server counts comes from an executor that has handled
\* the state it is counted for, although complete_state does not say which state it is
\* about.  There are two exceptions, and none of handlers that fail, time out or get
\* SIGTERM: an executor that dies having completed a state and completes it again, and
\* one that is still to complete Ready when a request sets the run to Provisioning.
CompletionsHonest ==
  /\ \A n \in nDone \ credited : nAt[n] = runState
  /\ oDone => oAt = runState \/ Orchestrator \in credited

\* How far an instance got in the current round.
Stage ==
  [n \in Nodes |-> CASE post[n] = round -> "served"
                     [] post[n] # round /\ iaas[n] = round -> "applied"
                     [] post[n] # round /\ iaas[n] # round /\ pre[n] = round -> "prepared"
                     [] OTHER -> "untouched"]

\* The programs together are the handshake that users rely on: per request and instance,
\* prescale, action and postscale happen once and in this order, within Provisioning, and
\* the run does not leave Provisioning with an instance half-way.
Handshaking == INSTANCE ScalingHandshake WITH
  stage <- Stage, requested <- (runState = "Provisioning")
ImplementsHandshake == Handshaking!Spec

\* Every request is eventually served and the run is Ready again.
ScalingCompletes == runState = "Provisioning" ~> runState = "Ready"

\* BaseWrapper.wait_scale_iaas_done documents a wait with a timeout.
WaitIaasDoneEnds == \A n \in Nodes : nPc[n] = "wait_iaas" ~> nPc[n] # "wait_iaas"
=============================================================================
