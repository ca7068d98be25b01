---------------------------- MODULE Provisioning ----------------------------
(***************************************************************************)
(* Deployment and horizontal scaling of a mutable run: how node instances  *)
(* are started, tolerated when they fail, and stopped.  The parts are      *)
(*                                                                         *)
(*   - the commands ss-node-add and ss-node-remove of a user;              *)
(*   - the orchestrator's executor (OrchestratorDeploymentExecutor and     *)
(*     CloudWrapper) with the threads that start VMs, of which this module *)
(*     uses what TaskBatch promises;                                       *)
(*   - one executor per VM (NodeDeploymentExecutor), which exists only     *)
(*     while the VM is up;                                                 *)
(*   - the SlipStream server, which keeps the run state and the RTPs.      *)
(*                                                                         *)
(* An instance's scale.state goes                                          *)
(*   creating -> created -> operational -> removing -> removed -> gone     *)
(* where the node writes created and operational, the orchestrator removed *)
(* and gone, and removing comes from a user (scale down) or from the       *)
(* orchestrator, for an instance it gave up on.  One node type; vertical   *)
(* scaling is in VerticalScaling.                                          *)
(***************************************************************************)
EXTENDS Naturals, FiniteSets

CONSTANTS
  Instances,     \* node instances there can ever be; names are not used again
  MaxRounds,     \* bound: provisionings, the deployment included
  MaxFaults,     \* bound: number of things that go wrong
  Faults         \* what may go wrong, see AllFaults

\* "iaas"   a running VM fails
\* "start"  the connector raises while it starts a VM
\* "stop"   the connector raises while it stops VMs
\* "node"   a handler of a node executor raises, or a recipe fails
\* "abort"  a user aborts the run
\* "cancel" a user resets the abort flag
AllFaults == {"iaas", "start", "stop", "node", "abort", "cancel"}

ASSUME ProvisioningAssumption ==
  /\ IsFiniteSet(Instances)
  /\ Instances # {}
  /\ MaxRounds \in Nat
  /\ MaxFaults \in Nat
  /\ Faults \subseteq AllFaults

\* "none": not an instance of the run yet.
ScaleStates == {"none", "creating", "created", "operational",
                "removing", "removed", "gone"}
Terminal    == {"none", "operational", "gone"}
VmStates    == {"none", "up", "failed", "stopped"}
RunStates   == {"Provisioning", "Executing", "SendingReports", "Ready"}
Handlers    == {"Provisioning", "Executing", "SendingReports"}

NodePcs == {"off", "poll", "provisioning", "key", "prescale",
            "execute", "reports", "complete"}
OrchPcs == {"poll", "provisioning", "classify", "starting", "wait", "list", "waited", "mark",
            "scale_down", "decide", "wait_pre", "stop", "removed", "force",
            "execute", "reports", "complete"}

VARIABLES
  \* The server: run state, abort flag, completions, RTPs, instances whose ids
  \* were deleted by the orchestrator, and those a user asked to remove.
  runState, abort, nDone, oDone, scale, preDone, tolerate, deleted, leaving,
  \* The cloud.
  vm,
  \* ss-node-add between its two requests: the tolerance it still has to set.
  cTol,
  \* Node executors: program counter and last run state handled.
  nPc, nAt,
  \* The orchestrator: program counter, last run state handled, cached scale
  \* states, instances being started, allowed failures, number in creating,
  \* instances it works on, _instance_names_force_to_compete_states,
  \* _instance_names_to_be_gone, and whether the time limit of the state passed.
  oPc, oAt, oCache, oFollow, oAllowed, oCount, oList, oForce, oGone, late,
  \* The start tasks not done yet, and whether one of them raised.
  todo, raised,
  \* Bounds and history: instances and tolerance of the last ss-node-add, and
  \* whether abort was raised since, or before and the run had not settled.
  rounds, faults, asked, requested, trouble,
  \* History: instances the orchestrator gave up on.
  givenUp

server == <<runState, abort, nDone, oDone>>
rtps   == <<scale, preDone, tolerate, deleted, leaving>>
nodes  == <<nPc, nAt>>
orch   == <<oPc, oAt, oCache, oFollow, oAllowed, oCount, oList, oForce, oGone, late>>
tasks  == <<todo, raised>>
hist   == <<rounds, faults, asked, requested, trouble, givenUp>>
vars   == <<server, rtps, vm, cTol, nodes, orch, tasks, hist>>

NoCache == <<>>

FlagType ==
  /\ abort \in BOOLEAN /\ oDone \in BOOLEAN
  /\ preDone \in [Instances -> BOOLEAN]
  /\ late \in BOOLEAN /\ raised \in BOOLEAN /\ trouble \in BOOLEAN

ServerType ==
  /\ runState \in RunStates /\ nDone \subseteq Instances
  /\ scale \in [Instances -> ScaleStates]
  /\ tolerate \in Nat /\ cTol \in Nat
  /\ deleted \subseteq Instances /\ leaving \subseteq Instances

NodeType ==
  /\ vm \in [Instances -> VmStates]
  /\ nPc \in [Instances -> NodePcs] /\ nAt \in [Instances -> RunStates]

OrchType ==
  /\ oPc \in OrchPcs /\ oAt \in RunStates
  /\ oCache = NoCache \/ oCache \in [Instances -> ScaleStates]
  /\ oFollow \subseteq Instances /\ oList \subseteq Instances
  /\ oForce \subseteq Instances /\ oGone \subseteq Instances
  /\ oAllowed \in Nat /\ oCount \in Nat
  /\ todo \subseteq Instances

HistType ==
  /\ rounds \in Nat /\ faults \in Nat
  /\ asked \subseteq Instances /\ requested \in Nat
  /\ givenUp \subseteq Instances

TypeOK == FlagType /\ ServerType /\ NodeType /\ OrchType /\ HistType

\* A deployment was launched: some instances are to be created, and its author
\* tolerates that fewer than all of them fail.
Init ==
  /\ runState = "Provisioning" /\ abort = FALSE /\ nDone = {} /\ oDone = FALSE
  /\ asked \in (SUBSET Instances) \ {{}}
  /\ requested \in 0 .. Cardinality(asked) - 1
  /\ tolerate = requested
  /\ scale = [i \in Instances |-> IF i \in asked THEN "creating" ELSE "none"]
  /\ preDone = [i \in Instances |-> FALSE]
  /\ deleted = {} /\ leaving = {}
  /\ vm = [i \in Instances |-> "none"]
  /\ cTol = 0
  /\ nPc = [i \in Instances |-> "off"]
  /\ nAt = [i \in Instances |-> "Ready"]
  /\ oPc = "provisioning" /\ oAt = "Provisioning" /\ oCache = NoCache
  /\ oFollow = {} /\ oAllowed = 0 /\ oCount = 0 /\ oList = {}
  /\ oForce = {} /\ oGone = {} /\ late = FALSE
  /\ todo = {} /\ raised = FALSE
  /\ rounds = 1 /\ faults = 0 /\ trouble = FALSE /\ givenUp = {}

\* A fault of this kind happens.
GoesWrong(kind) ==
  /\ kind \in Faults
  /\ faults < MaxFaults
  /\ faults' = faults + 1

-----------------------------------------------------------------------------
(* The server.  It waits for every instance of the run, except those a user *)
(* removed and the orchestrator stopped: nothing completes states for them, *)
(* while the orchestrator completes them for instances it gave up on.       *)

Expected ==
  {i \in Instances : /\ scale[i] \notin {"none", "gone"}
                     /\ ~ (i \in leaving /\ scale[i] = "removed")}

NextState == [Provisioning   |-> "Executing",
              Executing      |-> "SendingReports",
              SendingReports |-> "Ready"]

ServerAdvance ==
  /\ runState \in Handlers
  /\ Expected \subseteq nDone /\ oDone
  /\ runState' = NextState[runState]
  /\ nDone' = {} /\ oDone' = FALSE
  /\ UNCHANGED <<abort, rtps, vm, cTol, nodes, orch, tasks, hist>>

\* No instance is in the middle of a scaling, and all executors are idle.
Settled ==
  /\ \A i \in Instances : scale[i] \in Terminal /\ nPc[i] \in {"off", "poll"}
  /\ oPc = "poll"

\* What a request for scaling does to the run state.
StartProvisioning ==
  /\ runState = "Ready" /\ ~ abort /\ cTol = 0
  /\ rounds < MaxRounds
  /\ rounds' = rounds + 1
  /\ runState' = "Provisioning" /\ nDone' = {} /\ oDone' = FALSE
  /\ trouble' = (trouble /\ ~ Settled)

-----------------------------------------------------------------------------
(* Users *)

\* ss-node-add, first request.  number-tolerate is less than the number added.
NodeAdd(S, tol) ==
  /\ StartProvisioning
  /\ S # {} /\ \A i \in S : scale[i] = "none"
  /\ tol < Cardinality(S)
  /\ scale' = [i \in Instances |-> IF i \in S THEN "creating" ELSE scale[i]]
  /\ cTol' = tol
  /\ asked' = S /\ requested' = tol
  /\ UNCHANGED <<abort, preDone, tolerate, deleted, leaving, vm, nodes, orch,
                 tasks, faults, givenUp>>

\* ss-node-add, second request, made only if number-tolerate was given.  The
\* server refuses it while the run is aborted.
SetTolerance ==
  /\ cTol > 0
  /\ tolerate' = IF abort THEN tolerate ELSE cTol
  /\ cTol' = 0
  /\ UNCHANGED <<server, scale, preDone, deleted, leaving, vm, nodes, orch,
                 tasks, hist>>

\* ss-node-remove of instances that are up and whose ids the run still has.
NodeRemove(S) ==
  /\ StartProvisioning
  /\ S # {} /\ S \cap deleted = {} /\ \A i \in S : scale[i] = "operational"
  /\ scale' = [i \in Instances |-> IF i \in S THEN "removing" ELSE scale[i]]
  /\ leaving' = leaving \cup S
  /\ asked' = {} /\ requested' = 0
  /\ UNCHANGED <<abort, preDone, tolerate, deleted, vm, cTol, nodes, orch,
                 tasks, faults, givenUp>>

UserAborts ==
  /\ GoesWrong("abort")
  /\ ~ abort
  /\ abort' = TRUE /\ trouble' = TRUE
  /\ UNCHANGED <<runState, nDone, oDone, rtps, vm, cTol, nodes, orch, tasks,
                 rounds, asked, requested, givenUp>>

CancelAbort ==
  /\ GoesWrong("cancel")
  /\ abort
  /\ abort' = FALSE
  /\ UNCHANGED <<runState, nDone, oDone, rtps, vm, cTol, nodes, orch, tasks,
                 rounds, asked, requested, trouble, givenUp>>

-----------------------------------------------------------------------------
(* The executor of a node instance *)

\* The handler of a run state.  Ready is handled at once: its completion is taken
\* to arrive before the next request to scale.
HandlerOf == [Provisioning |-> "provisioning", Executing |-> "execute",
              SendingReports |-> "reports", Ready |-> "poll"]

Goto(i, pc) == nPc' = [nPc EXCEPT ![i] = pc]

\* The VM boots, or a new run state is polled.
NodeNextState(i) ==
  /\ \/ nPc[i] = "off" /\ vm[i] = "up"
     \/ nPc[i] = "poll" /\ nAt[i] # runState
  /\ nAt' = [nAt EXCEPT ![i] = runState]
  /\ Goto(i, HandlerOf[runState])
  /\ UNCHANGED <<server, rtps, vm, cTol, orch, tasks, hist>>

\* onProvisioning asks for its scale.state up to three times.  One is enough: a
\* state that is not creating is changed by nobody else in this state.
NodeProvisioning(i) ==
  /\ nPc[i] = "provisioning"
  /\ Goto(i, IF scale[i] = "creating" THEN "key"
             ELSE IF scale[i] = "removing" THEN "prescale" ELSE "complete")
  /\ UNCHANGED <<server, rtps, vm, cTol, nAt, orch, tasks, hist>>

MutantSetScaleState(i, s) == scale' = [j \in {i} |-> s]
SetScaleState(i, s) == scale' = [scale EXCEPT ![i] = s]

\* The public key was added; scale.state is set whatever it is by now.
NodeCreated(i) ==
  /\ nPc[i] = "key"
  /\ SetScaleState(i, "created")
  /\ Goto(i, "complete")
  /\ UNCHANGED <<server, preDone, tolerate, deleted, leaving, vm, cTol, nAt, orch,
                 tasks, hist>>

\* The prescale script ended and the reports were sent.
NodePreScale(i) ==
  /\ nPc[i] = "prescale"
  /\ preDone' = [preDone EXCEPT ![i] = TRUE]
  /\ Goto(i, "complete")
  /\ UNCHANGED <<server, scale, tolerate, deleted, leaving, vm, cTol, nAt, orch,
                 tasks, hist>>

NodeExecuting(i) ==
  /\ nPc[i] = "execute"
  /\ Goto(i, "complete")
  /\ UNCHANGED <<server, rtps, vm, cTol, nAt, orch, tasks, hist>>

\* onSendingReports, as a run state and at the end of a failed handler.
NodeReports(i) ==
  /\ nPc[i] = "reports"
  /\ SetScaleState(i, "operational")
  /\ Goto(i, "complete")
  /\ UNCHANGED <<server, preDone, tolerate, deleted, leaving, vm, cTol, nAt, orch,
                 tasks, hist>>

\* The completion counts for the state the run is in when it arrives.
NodeComplete(i) ==
  /\ nPc[i] = "complete"
  /\ nDone' = nDone \cup {i}
  /\ Goto(i, "poll")
  /\ UNCHANGED <<runState, abort, oDone, rtps, vm, cTol, nAt, orch, tasks, hist>>

\* An exception goes through onSendingReports.  A recipe that exits with an
\* error raises AbortException, which does not.
NodeFails(i) ==
  /\ GoesWrong("node")
  /\ nPc[i] \in {"key", "prescale", "execute"}
  /\ abort' = TRUE /\ trouble' = TRUE
  /\ \/ Goto(i, "reports")
     \/ nPc[i] = "execute" /\ Goto(i, "complete")
  /\ UNCHANGED <<runState, nDone, oDone, rtps, vm, cTol, nAt, orch, tasks,
                 rounds, asked, requested, givenUp>>

VmFails(i) ==
  /\ GoesWrong("iaas")
  /\ vm[i] = "up"
  /\ vm' = [vm EXCEPT ![i] = "failed"]
  /\ Goto(i, "off")
  /\ UNCHANGED <<server, rtps, cTol, nAt, orch, tasks, rounds, asked, requested,
                 trouble, givenUp>>

-----------------------------------------------------------------------------
(* The orchestrator.  View is _get_nodes_instances: fetched when not cached. *)

View == IF oCache = NoCache THEN scale ELSE oCache

InState(s) == {i \in Instances : View[i] = s}
Creating   == {i \in Instances : scale[i] = "creating"}

\* Scale states of the instances that the cached Run shows as scaling.
EffectiveStates == {scale[i] : i \in {j \in Instances : View[j] \notin Terminal}}

OrchGoto(pc) == oPc' = pc

\* An exception out of a handler: abort flag, onSendingReports, completion.
OrchFail == OrchGoto("reports") /\ abort' = TRUE /\ trouble' = TRUE

OrchNextState ==
  /\ oPc = "poll" /\ oAt # runState
  /\ oAt' = runState
  /\ OrchGoto(HandlerOf[runState])
  /\ late' = FALSE
  /\ UNCHANGED <<server, rtps, vm, cTol, nodes, oCache, oFollow, oAllowed, oCount,
                 oList, oForce, oGone, tasks, hist>>

\* onProvisioning cleans the cache, and is_vertical_scaling fetches the Run.
OrchProvisioning ==
  /\ oPc = "provisioning"
  /\ oCache' = scale
  /\ OrchGoto("classify")
  /\ UNCHANGED <<server, rtps, vm, cTol, nodes, oAt, oFollow, oAllowed, oCount,
                 oList, oForce, oGone, late, tasks, hist>>

\* is_vertical_scaling raises when the effective states differ (their reading,
\* one request after the other, is one step).  Instances to start are those
\* cached as creating.
OrchStart ==
  /\ oPc = "classify"
  /\ \/ /\ Cardinality(EffectiveStates) > 1
        /\ OrchFail
        /\ UNCHANGED <<oFollow, tasks>>
     \/ /\ Cardinality(EffectiveStates) <= 1
        /\ OrchGoto(IF InState("creating") = {} THEN "scale_down" ELSE "starting")
        /\ oFollow' = InState("creating") /\ todo' = InState("creating")
        /\ raised' = FALSE
        /\ UNCHANGED <<abort, trouble>>
  /\ UNCHANGED <<runState, nDone, oDone, rtps, vm, cTol, nodes, oAt, oCache, oAllowed,
                 oCount, oList, oForce, oGone, late, rounds, faults, asked, requested, givenUp>>

\* A start task ends: the VM runs and boots, or the task raised, before or after
\* there was a VM.  Tasks go on when the orchestrator has already failed.
StartVm(i) ==
  /\ i \in todo
  /\ todo' = todo \ {i}
  /\ vm' = [vm EXCEPT ![i] = "up"]
  /\ UNCHANGED <<server, rtps, cTol, nodes, orch, raised, hist>>

StartFails(i) ==
  /\ i \in todo
  /\ GoesWrong("start")
  /\ todo' = todo \ {i}
  /\ raised' = TRUE
  /\ \/ vm' = [vm EXCEPT ![i] = "up"]
     \/ vm' = vm
  /\ UNCHANGED <<server, rtps, cTol, nodes, orch, rounds, asked, requested, trouble, givenUp>>

MutantTasksProcessed == ~ raised
TasksProcessed == ~ raised /\ todo = {}

\* wait_tasks_processed.  The Run is fetched again, and the wait for instances
\* left out when no failure is allowed.
StartWaitEnds ==
  /\ oPc = "starting"
  /\ \/ raised /\ OrchFail /\ UNCHANGED <<oCache, oAllowed>>
     \/ /\ TasksProcessed
        /\ oCache' = scale /\ oAllowed' = tolerate
        /\ OrchGoto(IF tolerate > 0 THEN "wait" ELSE "scale_down")
        /\ UNCHANGED <<abort, trouble>>
  /\ UNCHANGED <<runState, nDone, oDone, rtps, vm, cTol, nodes, oAt, oFollow,
                 oCount, oList, oForce, oGone, late, tasks, rounds, faults, asked, requested, givenUp>>

TimeLimitPasses ==
  /\ oPc \in {"wait", "wait_pre"} /\ ~ late
  /\ late' = TRUE
  /\ UNCHANGED <<server, rtps, vm, cTol, nodes, oPc, oAt, oCache, oFollow, oAllowed,
                 oCount, oList, oForce, oGone, tasks, hist>>

\* One turn of _sleep_while_instances_provisioned; VMs are listed every fourth.
WaitTurn ==
  /\ oPc = "wait"
  /\ \/ (late \/ abort) /\ OrchGoto("waited") /\ UNCHANGED <<oCache, oCount>>
     \/ /\ ~ late /\ ~ abort
        /\ oCache' = scale /\ oCount' = Cardinality(Creating)
        /\ \/ Creating = {} /\ OrchGoto("scale_down")
           \/ Creating # {} /\ oPc' \in {"wait", "list"}
  /\ UNCHANGED <<server, rtps, vm, cTol, nodes, oAt, oFollow, oAllowed, oList,
                 oForce, oGone, late, tasks, hist>>

FailedOnIaas == {i \in oFollow : vm[i] = "failed"}

MutantTooMany(S) == Cardinality(S) > oAllowed + 1
TooMany(S) == Cardinality(S) > oAllowed

WaitLists ==
  /\ oPc = "list"
  /\ \/ TooMany(FailedOnIaas) /\ OrchFail
     \/ /\ ~ TooMany(FailedOnIaas)
        /\ OrchGoto(IF Cardinality(FailedOnIaas) = oCount THEN "waited" ELSE "wait")
        /\ UNCHANGED <<abort, trouble>>
  /\ UNCHANGED <<runState, nDone, oDone, rtps, vm, cTol, nodes, oAt, oCache, oFollow,
                 oAllowed, oCount, oList, oForce, oGone, late, tasks,
                 rounds, faults, asked, requested, givenUp>>

\* The loop ended without all instances: nothing is done if the run is aborted
\* now, else the failures on the IaaS are counted, then, with the Run fetched
\* again, the instances still in creating, which are to be removed.
CheckProvisioned ==
  /\ oPc = "waited"
  /\ \/ abort /\ OrchGoto("scale_down") /\ UNCHANGED <<abort, trouble, oCache, oList>>
     \/ /\ ~ abort /\ TooMany(FailedOnIaas)
        /\ OrchFail /\ UNCHANGED <<oCache, oList>>
     \/ /\ ~ abort /\ ~ TooMany(FailedOnIaas)
        /\ oCache' = scale
        /\ \/ TooMany(Creating) /\ OrchFail /\ UNCHANGED oList
           \/ /\ ~ TooMany(Creating)
              /\ oList' = Creating
              /\ OrchGoto("mark") /\ UNCHANGED <<abort, trouble>>
  /\ UNCHANGED <<runState, nDone, oDone, rtps, vm, cTol, nodes, oAt, oFollow,
                 oAllowed, oCount, oForce, oGone, late, tasks,
                 rounds, faults, asked, requested, givenUp>>

\* clean_local_cache
MutantDiscarded == oCache
Discarded == NoCache

\* They are set to removing and deleted from the run.  The server refuses the
\* deletion once the run is aborted; the AbortException is ignored by
\* _run_instances_action, and the rest of the action left out.
MarkFailed ==
  /\ oPc = "mark"
  /\ scale' = [i \in Instances |-> IF i \in oList THEN "removing" ELSE scale[i]]
  /\ givenUp' = givenUp \cup oList
  /\ \/ abort /\ oList # {} /\ UNCHANGED <<deleted, oForce, oCache>>
     \/ /\ ~ abort \/ oList = {}
        /\ deleted' = deleted \cup oList
        /\ oForce' = oList
        /\ oCache' = Discarded
  /\ OrchGoto("scale_down")
  /\ UNCHANGED <<server, preDone, tolerate, leaving, vm, cTol, nodes, oAt, oFollow,
                 oAllowed, oCount, oList, oGone, late, tasks,
                 rounds, faults, asked, requested, trouble>>

\* is_horizontal_scale_down: the Run is fetched if it is not cached.
FetchRun ==
  /\ oPc = "scale_down"
  /\ oCache' = View
  /\ OrchGoto("decide")
  /\ UNCHANGED <<server, rtps, vm, cTol, nodes, oAt, oFollow, oAllowed, oCount,
                 oList, oForce, oGone, late, tasks, hist>>

\* _wait_pre_scale_done_if_horizontal_scale_down: mixed states mean no wait.
ScaleDown ==
  /\ oPc = "decide"
  /\ oList' = InState("removing")
  /\ OrchGoto(IF EffectiveStates = {"removing"} THEN "wait_pre" ELSE "stop")
  /\ UNCHANGED <<server, rtps, vm, cTol, nodes, oAt, oCache, oFollow, oAllowed, oCount,
                 oForce, oGone, late, tasks, hist>>

\* pre.scale.done is never reset here, so one look at all instances will do.
MutantPreScaled == \E i \in oList : preDone[i]
PreScaled == \A i \in oList : preDone[i]

WaitPreScale ==
  /\ oPc = "wait_pre"
  /\ \/ oList = {} \/ ~ late
  /\ PreScaled
  /\ OrchGoto("stop")
  /\ UNCHANGED <<server, rtps, vm, cTol, nodes, oAt, oCache, oFollow, oAllowed, oCount,
                 oList, oForce, oGone, late, tasks, hist>>

WaitPreScaleTimesOut ==
  /\ oPc = "wait_pre" /\ late /\ oList # {}
  /\ OrchFail
  /\ UNCHANGED <<runState, nDone, oDone, rtps, vm, cTol, nodes, oAt, oCache, oFollow,
                 oAllowed, oCount, oList, oForce, oGone, late, tasks,
                 rounds, faults, asked, requested, givenUp>>

Stop(S) ==
  /\ vm' = [i \in Instances |-> IF i \in S THEN "stopped" ELSE vm[i]]
  /\ nPc' = [i \in Instances |-> IF i \in S THEN "off" ELSE nPc[i]]

MutantAllStopped == {i \in Instances : View[i] # "operational"}
MutantStopped == InState("removing") \ deleted
Stopped == InState("removing")

StopVms ==
  /\ oPc = "stop"
  /\ oList' = InState("removing")
  /\ Stop(Stopped)
  /\ OrchGoto(IF InState("removing") = {} THEN "force" ELSE "removed")
  /\ UNCHANGED <<server, rtps, cTol, nAt, oAt, oCache, oFollow, oAllowed, oCount,
                 oForce, oGone, late, tasks, hist>>

\* The connector raises when it has stopped some.
StopFails ==
  /\ oPc = "stop" /\ InState("removing") # {}
  /\ GoesWrong("stop")
  /\ \E S \in SUBSET Stopped : Stop(S)
  /\ OrchFail
  /\ UNCHANGED <<runState, nDone, oDone, rtps, cTol, nAt, oAt, oCache, oFollow,
                 oAllowed, oCount, oList, oForce, oGone, late, tasks,
                 rounds, asked, requested, givenUp>>

SetRemoved ==
  /\ oPc = "removed"
  /\ scale' = [i \in Instances |-> IF i \in oList THEN "removed" ELSE scale[i]]
  /\ oGone' = oList
  /\ OrchGoto("force")
  /\ UNCHANGED <<server, preDone, tolerate, deleted, leaving, vm, cTol, nodes, oAt,
                 oCache, oFollow, oAllowed, oCount, oList, oForce, late, tasks, hist>>

\* complete_state_for_failed_node_instances, at the end of onProvisioning and the
\* start of the other handlers.
MutantForced == nDone
Forced == nDone \cup oForce

ForceCompletion ==
  /\ oPc = "force"
  /\ nDone' = Forced
  /\ OrchGoto("complete")
  /\ UNCHANGED <<runState, abort, oDone, rtps, vm, cTol, nodes, oAt, oCache, oFollow,
                 oAllowed, oCount, oList, oForce, oGone, late, tasks, hist>>

\* onExecuting: the cache still is the one of onProvisioning.
OrchExecuting ==
  /\ oPc = "execute"
  /\ nDone' = Forced
  /\ \/ Cardinality(EffectiveStates \ {"removed"}) > 1 /\ OrchFail
     \/ /\ Cardinality(EffectiveStates \ {"removed"}) <= 1
        /\ OrchGoto("complete") /\ UNCHANGED <<abort, trouble>>
  /\ UNCHANGED <<runState, oDone, rtps, vm, cTol, nodes, oAt, oCache, oFollow, oAllowed,
                 oCount, oList, oForce, oGone, late, tasks, rounds, faults, asked, requested, givenUp>>

OrchReports ==
  /\ oPc = "reports"
  /\ nDone' = Forced
  /\ scale' = [i \in Instances |-> IF i \in oGone THEN "gone" ELSE scale[i]]
  /\ oGone' = {}
  /\ OrchGoto("complete")
  /\ UNCHANGED <<runState, abort, oDone, preDone, tolerate, deleted, leaving, vm, cTol,
                 nodes, oAt, oCache, oFollow, oAllowed, oCount, oList, oForce, late,
                 tasks, hist>>

OrchComplete ==
  /\ oPc = "complete"
  /\ oDone' = TRUE
  /\ OrchGoto("poll")
  /\ UNCHANGED <<runState, abort, nDone, rtps, vm, cTol, nodes, oAt, oCache, oFollow,
                 oAllowed, oCount, oList, oForce, oGone, late, tasks, hist>>

-----------------------------------------------------------------------------
NodeStep(i) ==
  \/ NodeNextState(i) \/ NodeProvisioning(i) \/ NodeCreated(i) \/ NodePreScale(i)
  \/ NodeExecuting(i) \/ NodeReports(i) \/ NodeComplete(i)

OrchStep ==
  \/ OrchNextState \/ OrchProvisioning \/ OrchStart \/ StartWaitEnds \/ WaitTurn \/ WaitLists
  \/ CheckProvisioned \/ MarkFailed \/ FetchRun \/ ScaleDown \/ WaitPreScale
  \/ WaitPreScaleTimesOut \/ StopVms \/ SetRemoved \/ ForceCompletion
  \/ OrchExecuting \/ OrchReports \/ OrchComplete

UserStep ==
  \/ \E S \in SUBSET Instances : NodeRemove(S) \/ \E t \in 0 .. Cardinality(S) : NodeAdd(S, t)
  \/ SetTolerance \/ UserAborts \/ CancelAbort

Next ==
  \/ ServerAdvance \/ UserStep \/ OrchStep \/ TimeLimitPasses \/ StopFails
  \/ \E i \in Instances :
       NodeStep(i) \/ NodeFails(i) \/ VmFails(i) \/ StartVm(i) \/ StartFails(i)

\* Executors, start tasks, server and clock go on; nothing has to fail, and a user
\* needs to do nothing.  Scripts and connector calls are assumed to end.
Fairness ==
  /\ \A i \in Instances : WF_vars(NodeStep(i)) /\ WF_vars(StartVm(i))
  /\ WF_vars(OrchStep) /\ WF_vars(TimeLimitPasses) /\ WF_vars(ServerAdvance)

Spec == Init /\ [][Next]_vars
FairSpec == Spec /\ Fairness

-----------------------------------------------------------------------------
(* Properties *)

\* An instance reported as removed or gone has no running VM any more: its user
\* is not charged for it.
RemovedIsDown ==
  \A i \in Instances : scale[i] \in {"removed", "gone"} => vm[i] # "up"

\* Only instances that a user removed or the orchestrator gave up on are stopped.
StoppedWasUnwanted ==
  [][\A i \in Instances :
       vm[i] # "stopped" /\ vm'[i] = "stopped" => i \in leaving \cup givenUp]_vars

\* A start task is for an instance without a VM, and tasks of one provisioning
\* have ended before the next starts: there are never two VMs of an instance.
StartedOnce ==
  /\ \A i \in todo : vm[i] = "none"
  /\ oPc = "classify" => todo = {}

\* Once the orchestrator ended Provisioning, no VM of an instance that is to be
\* removed runs, though the cache it took the instances from was filled before
\* it gave up on some.
RemovingIsStopped ==
  (oPc = "poll" /\ oAt = "Provisioning" /\ runState = "Provisioning" /\ ~ trouble) =>
     \A i \in Instances : scale[i] = "removing" => vm[i] # "up"

\* A running VM that a user asked to remove is stopped only after its prescale
\* script ended, unless something failed during this provisioning.
PreScaleBeforeStop ==
  [][\A i \in leaving :
       vm[i] = "up" /\ vm'[i] = "stopped" => preDone[i] \/ trouble]_vars

\* A run that came back to Ready without trouble has what was asked for, less
\* the failures the orchestrator knew to be allowed.
EnoughServed ==
  (runState = "Ready" /\ ~ trouble) =>
     Cardinality({i \in asked : scale[i] = "operational"}) + oAllowed >= Cardinality(asked)

\* Once the orchestrator ended Provisioning, instances it gave up on are stopped.
DeletedAreStopped ==
  (oPc = "poll" /\ oAt = "Provisioning" /\ ~ abort) =>
     \A i \in deleted : vm[i] # "up"

\* Of instances whose VM runs, only those are given up that did not report in time.
OnlyFailedOrLate ==
  [][\A i \in givenUp' \ givenUp : vm[i] # "up" \/ late]_vars

\* A run that came back to Ready without trouble lacks no more of the instances
\* added than the request allowed.
RequestedTolerance ==
  (runState = "Ready" /\ ~ trouble) =>
     Cardinality({i \in asked : scale[i] # "operational"}) <= requested

-----------------------------------------------------------------------------
(* The inductive invariant behind RemovedIsDown, StartedOnce and            *)
(* StoppedWasUnwanted                                                       *)

\* An executor lives on a VM that is up.
OffInv == \A i \in Instances : nPc[i] # "off" => vm[i] = "up"

\* An instance in creating keeps the run in Provisioning, as its executor has
\* not completed and nobody does so for it.
CreatingInv ==
  /\ \A i \in Instances : scale[i] = "creating" =>
       /\ runState = "Provisioning" /\ i \notin nDone
       /\ nPc[i] \in {"off", "provisioning", "key", "reports"}
  /\ \A i \in Instances : scale[i] = "none" => vm[i] = "none"
  /\ oForce \subseteq deleted

\* Who is to be removed was created, and is named removing only for a reason,
\* on the server and in the orchestrator's cache.
UnwantedInv ==
  /\ deleted \subseteq givenUp
  /\ \A i \in leaving \cup givenUp : scale[i] \notin {"none", "creating"}
  /\ \A i \in Instances :
       scale[i] = "removing" \/ View[i] = "removing" => i \in leaving \cup givenUp

\* While start tasks run the orchestrator waits for them, or has failed.
TodoInv ==
  /\ \A i \in todo : scale[i] = "creating" /\ vm[i] = "none"
  /\ todo # {} => /\ oAt = "Provisioning"
                  /\ oPc \in {"starting", "reports", "complete", "poll"}

\* The orchestrator starts instances that have no VM and are in creating.
FreshInv ==
  /\ oPc \notin {"poll", "execute", "reports", "complete"} => oAt = "Provisioning"
  /\ \A i \in Instances : scale[i] = "creating" /\ vm[i] # "none" =>
       oAt = "Provisioning" /\ oPc \notin {"provisioning", "classify"}
  /\ oPc = "classify" => \A i \in Instances : View[i] = "creating" => scale[i] = "creating"

\* Instances become removed, and stay so until they are gone, with their VM down.
DownInv ==
  /\ RemovedIsDown
  /\ oPc = "removed" =>
       \A i \in oList : vm[i] = "stopped" /\ i \in leaving \cup givenUp
  /\ \A i \in oGone : scale[i] = "removed"
  /\ oPc = "mark" => oList \cap oGone = {}

IInv ==
  /\ TypeOK /\ OffInv /\ CreatingInv /\ UnwantedInv /\ TodoInv /\ FreshInv /\ DownInv

-----------------------------------------------------------------------------
\* A VM failed that the orchestrator has finished looking for.
FailedUnseen ==
  \E i \in Expected \ oForce : vm[i] = "failed"

\* A provisioning ends and the run gets back to Ready, whatever fails within the
\* allowance, unless there is trouble of another kind or a VM fails that nobody looks after.
RunsComplete ==
  []<>(runState = "Ready" \/ trouble \/ (oPc = "poll" /\ FailedUnseen))

=============================================================================
