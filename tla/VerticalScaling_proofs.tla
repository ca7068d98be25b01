------------------------ MODULE VerticalScaling_proofs ------------------------
(***************************************************************************)
(* Theorems about VerticalScaling, for every set of instances and of       *)
(* actions and for every bound.  Whatever goes wrong: type correctness,    *)
(* three safety properties from the inductive invariant IInv, and what the *)
(* orchestrator concludes, from ConclusionInv.  When no request is given   *)
(* up and followed by another (LeftInv), or nobody is taken out of a wait  *)
(* (WaitInv): the order of the handshake and its reset, and that the whole *)
(* implements ScalingHandshake.  When scripts can be run as well           *)
(* (DeviceInv): the disks that were attached.                              *)
(***************************************************************************)
EXTENDS VerticalScaling, FiniteSetTheorems, TLAPS

-----------------------------------------------------------------------------
(* Type correctness, one lemma for the steps of each program. *)

LEMMA TypeInit == ASSUME Init PROVE TypeOK
<1> USE ConstantsAssumption
<1>1. FlagType
  BY DEF Init, FlagType
<1>2. ServerType /\ OrchType
  BY DEF Init, ServerType, OrchType, RunStates, OrchPcs, ScaleStates
<1>3. RtpType
  BY DEF Init, RtpType, ScaleStates
<1>4. CliType /\ NodeType
  BY DEF Init, CliType, NodeType, RunStates, NodePcs
<1>5. TaskType
  BY DEF Init, TaskType, JobStates
<1>6. HistType
  BY DEF Init, HistType
<1> QED
  BY <1>1, <1>2, <1>3, <1>4, <1>5, <1>6 DEF TypeOK

LEMMA TypeCli == ASSUME TypeOK, CliStep PROVE TypeOK'
<1> USE ConstantsAssumption
      DEF TypeOK, FlagType, ServerType, RtpType, CliType, NodeType, OrchType, TaskType,
          HistType, server, rtps, cli, nodes, orch, tasks, hist
<1>1. CASE CliCheck
  BY <1>1 DEF CliCheck
<1>2. ASSUME NEW n \in Nodes, CliSetScaleState(n) PROVE TypeOK'
  BY <1>2 DEF CliSetScaleState, ScaleStates
<1>3. CASE CliSetProvisioning
  <2>1. FlagType'
    BY ONLY <1>3, FlagType, Zenon DEF CliSetProvisioning, FlagType
  <2>2. (ServerType /\ RtpType /\ CliType /\ NodeType /\ OrchType /\ TaskType /\ HistType)'
    BY <1>3 DEF CliSetProvisioning, CompletingReady, RunStates, Fault, GoesWrong
  <2> QED
    BY <2>1, <2>2
<1>4. CASE CliInterrupted
  BY <1>4 DEF CliInterrupted, Fault, GoesWrong
<1> QED
  BY <1>1, <1>2, <1>3, <1>4
  DEF CliStep

LEMMA TypeServer == ASSUME TypeOK, ServerStep \/ CancelAbort PROVE TypeOK'
<1> USE ConstantsAssumption
      DEF TypeOK, FlagType, ServerType, RtpType, CliType, NodeType, OrchType, TaskType,
          HistType, server, rtps, cli, nodes, orch, tasks, hist
<1>1. CASE CancelAbort
  BY <1>1 DEF CancelAbort
<1>2. CASE ServerAdvance
  BY <1>2 DEF ServerAdvance, Counts, NextState, RunStates
<1>3. CASE ServerAbort
  BY <1>3 DEF ServerAbort, RunStates
<1> QED
  BY <1>1, <1>2, <1>3
  DEF ServerStep

LEMMA TypeNode == ASSUME TypeOK, NEW n \in Nodes, NodeStep(n) \/ VmDown(n) \/ VmSigterm(n) PROVE TypeOK'
<1> USE ConstantsAssumption
      DEF TypeOK, FlagType, ServerType, RtpType, CliType, NodeType, OrchType, TaskType,
          HistType, server, rtps, cli, nodes, orch, tasks, hist
<1>1. CASE NodeProvisioning(n)
  <2>1. (FlagType /\ ServerType /\ RtpType /\ CliType /\ OrchType /\ TaskType /\ HistType)'
    BY <1>1 DEF NodeProvisioning, NewState
  <2>2. nPc' \in [Nodes -> NodePcs] /\ nAt' \in [Nodes -> RunStates \cup {"none"}]
    BY <1>1 DEF NodeProvisioning, NewState, Goto, NodePcs, RunStates
  <2>3. view' \in [Nodes -> SUBSET Nodes]
    BY <1>1 DEF NodeProvisioning, Scaling
  <2> QED
    BY <1>1, <2>1, <2>2, <2>3 DEF NodeProvisioning
<1>2. CASE NodePreScale(n)
  <2>1. FlagType'
    BY <1>2 DEF NodePreScale, Fail
  <2>2. (ServerType /\ RtpType /\ CliType /\ OrchType /\ TaskType)'
    BY <1>2 DEF NodePreScale
  <2>3. NodeType'
    BY <1>2 DEF NodePreScale, Scaling, Fail, Goto, NodePcs
  <2>4. HistType'
    BY <1>2 DEF NodePreScale, Fault, GoesWrong
  <2> QED
    BY <2>1, <2>2, <2>3, <2>4
<1>3. CASE NodeSetPreScaleDone(n)
  BY <1>3 DEF NodeSetPreScaleDone, Goto, NodePcs
<1>4. CASE NodeSeeIaasDone(n)
  BY <1>4 DEF NodeSeeIaasDone, Goto, NodePcs
<1>5. CASE NodeUnsetPreScaleDone(n)
  BY <1>5 DEF NodeUnsetPreScaleDone, UnsetPreScaleDone, Goto, NodePcs
<1>6. CASE NodePostScale(n)
  <2>1. FlagType'
    BY <1>6 DEF NodePostScale, Fail
  <2>2. (ServerType /\ RtpType /\ CliType /\ OrchType /\ TaskType)'
    BY <1>6 DEF NodePostScale
  <2>3. NodeType'
    BY <1>6 DEF NodePostScale, Scaling, Fail, Goto, NodePcs
  <2>4. HistType'
    BY <1>6 DEF NodePostScale, Fault, GoesWrong
  <2> QED
    BY <2>1, <2>2, <2>3, <2>4
<1>7. CASE NodeSetScaleActionDone(n)
  BY <1>7 DEF NodeSetScaleActionDone, ScaleActionDone, StartStopMap, VerticalStates, DoneStates, ScaleStates, SetSkip, Goto, Fail, NodePcs
<1>8. CASE NodeExecuting(n)
  <2>1. FlagType'
    BY <1>8 DEF NodeExecuting, Fail
  <2>2. (ServerType /\ RtpType /\ CliType /\ OrchType /\ TaskType /\ HistType)'
    BY <1>8 DEF NodeExecuting
  <2>3. (nAt \in [Nodes -> RunStates \cup {"none"}])'
    BY <1>8 DEF NodeExecuting, NewState, RunStates
  <2>4. (nPc \in [Nodes -> NodePcs] /\ skip \in [Nodes -> BOOLEAN])'
    BY <1>8 DEF NodeExecuting, Fail, Goto, NodePcs
  <2>5. (view \in [Nodes -> SUBSET Nodes])'
    BY <1>8 DEF NodeExecuting, Scaling
  <2> QED
    BY <2>1, <2>2, <2>3, <2>4, <2>5
<1>9. CASE NodeSendingReports(n) \/ NodeReady(n)
  <2>1. (FlagType /\ ServerType /\ RtpType /\ CliType /\ OrchType /\ TaskType /\ HistType)'
    BY <1>9 DEF NodeSendingReports, NodeReady
  <2>2. NodeType'
    BY <1>9 DEF NodeSendingReports, NodeReady, NewState, Goto, NodePcs, RunStates
  <2> QED
    BY <2>1, <2>2
<1>10. CASE NodeReports(n)
  BY <1>10 DEF NodeReports, SetOperational, ScaleStates, Goto, NodePcs
<1>11. CASE NodeComplete(n)
  BY <1>11 DEF NodeComplete, PollAgain, Goto, NodePcs
<1>12. CASE VmBoot(n) \/ NodePoll(n)
  <2>1. (FlagType /\ ServerType /\ RtpType /\ CliType /\ OrchType /\ TaskType /\ HistType)'
    BY <1>12 DEF VmBoot, NodePoll
  <2>2. nPc' \in [Nodes -> NodePcs] /\ UNCHANGED <<nAt, skip>>
    BY <1>12 DEF VmBoot, NodePoll, Goto, NodePcs
  <2>3. view' \in [Nodes -> SUBSET Nodes]
    BY <1>12 DEF VmBoot, NodePoll, Scaling
  <2> QED
    BY <2>1, <2>2, <2>3
<1>13. CASE VmDown(n)
  BY <1>13 DEF VmDown, MayGoDown, GoesWrong, Goto, NodePcs
<1>14. CASE VmSigterm(n)
  BY <1>14 DEF VmSigterm, MayGoDown, GoesWrong, Goto, NodePcs
<1> QED
  BY <1>1, <1>2, <1>3, <1>4, <1>5, <1>6, <1>7, <1>8, <1>9, <1>10, <1>11, <1>12, <1>13,
     <1>14
  DEF NodeStep

LEMMA TypeOrch == ASSUME TypeOK, OrchStep PROVE TypeOK'
<1> USE ConstantsAssumption
      DEF TypeOK, FlagType, ServerType, RtpType, CliType, NodeType, OrchType, TaskType,
          HistType, server, rtps, cli, nodes, orch, tasks, hist
<1>1. CASE OrchProvisioning
  BY <1>1 DEF OrchProvisioning, OrchNewState, OrchPcs, RunStates
<1>2. CASE OrchClassify
  BY <1>2 DEF OrchClassify, OrchFail, OrchNext, OrchPcs
<1>3. CASE OrchSelect
  BY <1>3 DEF OrchSelect, OrchFail, OrchPcs
<1>4. ASSUME NEW n \in Nodes, OrchSeePreScaleDone(n) PROVE TypeOK'
  BY <1>4 DEF OrchSeePreScaleDone
<1>5. CASE OrchTimeout
  BY <1>5 DEF OrchTimeout, Fault, GoesWrong, OrchFail, OrchPcs
<1>6. CASE OrchRequestIaas
  BY <1>6 DEF OrchRequestIaas, OrchPcs, JobStates
<1>7. CASE OrchIaasDone
  BY <1>7 DEF OrchIaasDone, OrchPcs
<1>8. CASE OrchIaasFailed
  BY <1>8 DEF OrchIaasFailed, OrchFail, OrchPcs
<1>9. ASSUME NEW n \in Nodes, OrchSeeScaleActionDone(n) PROVE TypeOK'
  BY <1>9 DEF OrchSeeScaleActionDone
<1>10. CASE OrchScaled
  BY <1>10 DEF OrchScaled, OrchPcs
<1>11. ASSUME NEW n \in Nodes, OrchUnsetIaasDone(n) PROVE TypeOK'
  BY <1>11 DEF OrchUnsetIaasDone, OrchPcs
<1>12. CASE OrchExecuting
  BY <1>12 DEF OrchExecuting, OrchNewState, OrchFail, OrchNext, OrchPcs, RunStates
<1>13. CASE OrchSendingReports \/ OrchReady
  BY <1>13 DEF OrchSendingReports, OrchReady, OrchNewState, OrchPcs, RunStates
<1>14. CASE OrchComplete
  BY <1>14 DEF OrchComplete, OrchPcs
<1> QED
  BY <1>1, <1>2, <1>3, <1>4, <1>5, <1>6, <1>7, <1>8, <1>9, <1>10, <1>11, <1>12, <1>13,
     <1>14
  DEF OrchStep

LEMMA TypeJob == ASSUME TypeOK, NEW r \in Rounds, NEW n \in Nodes, JobStep(r, n) PROVE TypeOK'
<1> USE ConstantsAssumption
      DEF TypeOK, FlagType, ServerType, RtpType, CliType, NodeType, OrchType, TaskType,
          HistType, server, rtps, cli, nodes, orch, tasks, hist
<1>1. CASE JobApply(r, n)
  BY <1>1 DEF JobApply, SetJob, JobStates, Rounds
<1>2. CASE JobFail(r, n)
  BY <1>2 DEF JobFail, SetJob, JobStates, Fault, GoesWrong
<1>3. CASE JobReport(r, n)
  BY <1>3 DEF JobReport, SetJob, AfterReport, JobStates
<1>4. CASE JobReportDevice(r, n)
  BY <1>4 DEF JobReportDevice, SetJob, JobStates, Rounds
<1> QED
  BY <1>1, <1>2, <1>3, <1>4
  DEF JobStep

LEMMA TypeStable == ASSUME TypeOK, [Next]_vars PROVE TypeOK'
<1>1. CASE UNCHANGED vars
  BY <1>1 DEF TypeOK, FlagType, ServerType, RtpType, CliType, NodeType, OrchType, TaskType,
     HistType, vars, server, rtps, cli, nodes, orch, tasks, hist
<1> QED
  BY <1>1, TypeCli, TypeServer, TypeNode, TypeOrch, TypeJob DEF Next, Quiet

\* Every variable keeps its type: in particular no RTP ever takes a value, and no
\* executor a state, that the code has no name for.
THEOREM TypeCorrect == Spec => []TypeOK
<1>1. Init => TypeOK
  BY TypeInit
<1>2. TypeOK /\ [Next]_vars => TypeOK'
  BY TypeStable
<1> QED
  BY <1>1, <1>2, PTL DEF Spec

-----------------------------------------------------------------------------
(* The inductive invariant. *)

Active    == {"Provisioning", "Executing", "SendingReports"}
Settled   == {"Ready", "Aborted"}
Handshake == {"prescale", "set_pre", "wait_iaas", "unset_pre", "postscale", "set_done"}
Unsettled(n) == scaleState[n] \in VerticalStates

\* The users' commands touch the RTPs of a run at rest only.
CliInv == cPc = "setting" => runState \in Settled

\* An executor that handles the state the run is in, or is to complete Ready.
InStep(pc, at) ==
  \/ at = runState /\ runState \in Active
  \/ pc = "complete" /\ at = "Ready" /\ runState \in Settled

\* An orchestrator at work holds the run in the round it began it in, though it may
\* be credited with Provisioning already; without such a credit it is in step with the
\* server.
OrchInv ==
  /\ oPc \notin {"poll", "complete"} =>
       /\ oAt = "Provisioning"
       /\ runState = "Provisioning" \/ (runState = "Executing" /\ ~oDone)
  /\ oPc \notin {"wait_pre", "iaas", "wait_done"} => oSeen = {}
  /\ Orchestrator \notin credited =>
       /\ oDone => oPc = "poll" /\ oAt = runState /\ runState \in Active
       /\ oPc # "poll" => InStep(oPc, oAt)

\* The executor of an instance without a credit is in step with the server.
NodeInv(n) ==
  /\ n \in nDone => nPc[n] = "poll" /\ nAt[n] = runState /\ runState \in Active
  /\ nPc[n] \notin {"poll", "down"} => InStep(nPc[n], nAt[n])
  /\ nPc[n] \in Handshake => nAt[n] = "Provisioning" /\ Unsettled(n)
  /\ nPc[n] = "down" => nAt[n] = "none"

\* While pre.scale.done is up, the instance is in the handshake of this round, or
\* its executor is coming back to it.
PreDoneInv(n) ==
  /\ pre[n] <= round
  /\ nPc[n] = "set_pre" => pre[n] = round
  /\ preDone[n] =>
       /\ pre[n] = round /\ runState = "Provisioning" /\ Unsettled(n)
       /\ nPc[n] \in {"wait_iaas", "unset_pre"} \/ nAt[n] = "none"
  /\ oPc = "wait_pre" /\ n \in oSeen => pre[n] = round
  /\ \A r \in Rounds : job[r][n] # "none" => r <= pre[n]
  /\ iaas[n] <= pre[n]

\* Where an executor that never died and has no credit is, and what it has left of a scaling.
RunInv(n) ==
  /\ nPc[n] # "down"
  /\ runState \in Settled => nAt[n] \in {"SendingReports", "Ready"}
  /\ runState = "Provisioning" => nAt[n] \in {"SendingReports", "Ready", "Provisioning"}
  /\ runState = "Executing" => nAt[n] \in {"Provisioning", "Executing"}
  /\ runState = "SendingReports" => nAt[n] \in {"Executing", "SendingReports"}

SkipInv(n) ==
  /\ runState \in Settled \/ (runState = "Provisioning" /\ nAt[n] # "Provisioning")
       => scaleState[n] \notin DoneStates
  /\ nAt[n] = "Provisioning" /\ nPc[n] \in {"poll", "complete"}
       => scaleState[n] = "operational" \/ skip[n]
  /\ nAt[n] = "SendingReports" /\ runState = "SendingReports" /\ nPc[n] \in {"poll", "complete"}
       => scaleState[n] = "operational"
  /\ n \notin rebuilt

IInv ==
  /\ TypeOK
  /\ CliInv /\ OrchInv
  /\ \A n \in Nodes \ credited : NodeInv(n)
  /\ \A n \in Nodes \ (terminated \cup credited) : PreDoneInv(n)
  /\ \A n \in Nodes \ (crashed \cup credited) : RunInv(n) /\ SkipInv(n)

LEMMA InvInit == ASSUME Init PROVE IInv
<1>1. TypeOK
  BY TypeInit
<1>2. CliInv /\ OrchInv
  BY DEF Init, CliInv, OrchInv
<1>3. ASSUME NEW n \in Nodes PROVE NodeInv(n) /\ PreDoneInv(n)
  BY <1>3, ConstantsAssumption DEF Init, NodeInv, PreDoneInv, Handshake, Active
<1>4. ASSUME NEW n \in Nodes PROVE RunInv(n) /\ SkipInv(n)
  BY <1>4 DEF Init, RunInv, SkipInv, Settled, DoneStates
<1> QED
  BY <1>1, <1>2, <1>3, <1>4 DEF IInv

(* What the steps of the other programs leave alone. *)

SameNode(n) ==
  /\ nPc'[n] = nPc[n] /\ nAt'[n] = nAt[n] /\ skip'[n] = skip[n]
  /\ preDone'[n] = preDone[n] /\ pre'[n] = pre[n]
  /\ n \in rebuilt' <=> n \in rebuilt

LEMMA OtherNode ==
  ASSUME TypeOK, NEW n \in Nodes, NEW m \in Nodes, m # n,
         NodeStep(m) \/ VmDown(m) \/ VmSigterm(m)
  PROVE  /\ SameNode(n) /\ scaleState'[n] = scaleState[n]
         /\ n \in nDone' <=> n \in nDone
         /\ n \in terminated' <=> n \in terminated
         /\ n \in credited' <=> n \in credited
         /\ n \in crashed' <=> n \in crashed
<1> USE DEF TypeOK, NodeType, RtpType, HistType, SameNode, server, rtps, cli, nodes, hist,
        Goto, NewState, Fail
<1>1. CASE VmDown(m)
  BY <1>1 DEF VmDown
<1>2. CASE VmSigterm(m)
  BY <1>2 DEF VmSigterm
<1>3. CASE NodeProvisioning(m)
  BY <1>3 DEF NodeProvisioning
<1>4. CASE NodePreScale(m)
  BY <1>4 DEF NodePreScale
<1>5. CASE NodeSetPreScaleDone(m)
  BY <1>5 DEF NodeSetPreScaleDone
<1>6. CASE NodeSeeIaasDone(m)
  BY <1>6 DEF NodeSeeIaasDone
<1>7. CASE NodeUnsetPreScaleDone(m)
  BY <1>7 DEF NodeUnsetPreScaleDone, UnsetPreScaleDone
<1>8. CASE NodePostScale(m)
  BY <1>8 DEF NodePostScale
<1>9. CASE NodeSetScaleActionDone(m)
  BY <1>9 DEF NodeSetScaleActionDone, SetSkip
<1>10. CASE NodeExecuting(m)
  BY <1>10 DEF NodeExecuting
<1>11. CASE NodeSendingReports(m) \/ NodeReady(m)
  BY <1>11 DEF NodeSendingReports, NodeReady
<1>12. CASE NodeReports(m)
  BY <1>12 DEF NodeReports, SetOperational
<1>13. CASE NodeComplete(m)
  BY <1>13 DEF NodeComplete, PollAgain
<1>14. CASE VmBoot(m) \/ NodePoll(m)
  BY <1>14 DEF VmBoot, NodePoll
<1> QED
  BY <1>1, <1>2, <1>3, <1>4, <1>5, <1>6, <1>7, <1>8, <1>9, <1>10, <1>11, <1>12, <1>13,
     <1>14 DEF NodeStep

LEMMA NodesLeave ==
  ASSUME NEW m \in Nodes, NodeStep(m) \/ VmDown(m) \/ VmSigterm(m)
  PROVE  /\ UNCHANGED <<runState, round, oDone, cli, orch, tasks, iaas>>
         /\ credited \subseteq credited'
  BY DEF NodeStep, VmDown, VmSigterm, NodeProvisioning, NodePreScale, NodeSetPreScaleDone,
     NodeSeeIaasDone, NodeUnsetPreScaleDone, NodePostScale, NodeSetScaleActionDone,
     NodeExecuting, NodeSendingReports, NodeReady, NodePoll, NodeReports, NodeComplete, VmBoot, server, hist

LEMMA OrchLeaves ==
  ASSUME OrchStep
  PROVE  UNCHANGED <<runState, round, nDone, scaleState, preDone, cli, nodes, hist>>
  BY DEF OrchStep, OrchProvisioning, OrchClassify, OrchSelect, OrchSeePreScaleDone,
     OrchTimeout, OrchRequestIaas, OrchIaasDone, OrchIaasFailed, OrchSeeScaleActionDone,
     OrchScaled, OrchUnsetIaasDone, OrchExecuting, OrchSendingReports, OrchReady, OrchComplete,
     server, rtps

LEMMA TasksLeave ==
  ASSUME NEW r \in Rounds, NEW n \in Nodes, JobStep(r, n)
  PROVE  UNCHANGED <<server, scaleState, preDone, cli, nodes, orch, pre, rebuilt, crashed,
                     credited, terminated>>
  BY DEF JobStep, JobApply, JobFail, JobReport, JobReportDevice, rtps, hist

LEMMA UsersLeave ==
  ASSUME CliStep \/ CancelAbort
  PROVE  /\ UNCHANGED <<preDone, nodes, orch, tasks, pre, iaas, post, rebuilt, crashed, terminated>>
         /\ credited \subseteq credited'
  BY DEF CliStep, CliCheck, CliSetScaleState, CliSetProvisioning, CliInterrupted,
     CancelAbort, rtps, hist

LEMMA ServerLeaves ==
  ASSUME ServerStep
  PROVE  UNCHANGED <<round, rtps, cli, nodes, orch, tasks, hist>>
  BY DEF ServerStep, ServerAdvance, ServerAbort

LEMMA CliStable == ASSUME IInv, [Next]_vars PROVE CliInv'
<1> USE DEF IInv, CliInv, Settled, cli
<1>1. CASE CliStep
  BY <1>1 DEF CliStep, CliCheck, CliSetScaleState, CliSetProvisioning, CliInterrupted, server
<1>2. CASE CancelAbort
  BY <1>2 DEF CancelAbort
<1>3. CASE ServerStep
  BY <1>3 DEF ServerStep, ServerAdvance, ServerAbort, Counts, NextState
<1>4. CASE OrchStep
  BY <1>4, OrchLeaves
<1>5. ASSUME NEW m \in Nodes, NodeStep(m) \/ VmDown(m) \/ VmSigterm(m) PROVE CliInv'
  BY <1>5, NodesLeave
<1>6. ASSUME NEW r \in Rounds, NEW m \in Nodes, JobStep(r, m) PROVE CliInv'
  BY <1>6, TasksLeave DEF server
<1>7. CASE UNCHANGED vars
  BY <1>7 DEF vars, server
<1> QED
  BY <1>1, <1>2, <1>3, <1>4, <1>5, <1>6, <1>7 DEF Next, Quiet

LEMMA OrchStable == ASSUME IInv, [Next]_vars PROVE OrchInv'
<1> USE DEF IInv, OrchInv, InStep, Active, Settled
<1>1. CASE CliStep
  <2>1. CASE CliSetProvisioning
    BY <2>1 DEF CliSetProvisioning, CompletingReady, CliInv, orch
  <2>2. CASE ~ CliSetProvisioning
    BY <1>1, <2>2, UsersLeave DEF orch, server, hist, CliStep, CliCheck, CliSetScaleState, CliInterrupted
  <2> QED
    BY <2>1, <2>2
<1>2. CASE CancelAbort
  BY <1>2, UsersLeave DEF CancelAbort, orch, hist
<1>3. CASE ServerStep
  BY <1>3, ServerLeaves DEF ServerStep, ServerAdvance, ServerAbort, Counts, NextState, orch, hist
<1>4. CASE OrchStep
  <2> USE DEF OrchNewState, OrchFail, OrchNext, Counts, NextState, server, orch, hist
  <2>1. CASE OrchProvisioning \/ OrchExecuting \/ OrchSendingReports \/ OrchReady
    BY <2>1 DEF OrchProvisioning, OrchExecuting, OrchSendingReports, OrchReady
  <2>2. CASE OrchClassify \/ OrchSelect \/ OrchTimeout \/ OrchIaasFailed
    BY <2>2 DEF OrchClassify, OrchSelect, OrchTimeout, OrchIaasFailed
  <2>3. CASE OrchRequestIaas \/ OrchIaasDone
    BY <2>3 DEF OrchRequestIaas, OrchIaasDone
  <2>5. CASE OrchScaled
    BY <2>5 DEF OrchScaled
  <2>6. CASE OrchComplete
    BY <2>6 DEF OrchComplete
  <2>4. ASSUME NEW m \in Nodes,
               OrchSeePreScaleDone(m) \/ OrchSeeScaleActionDone(m) \/ OrchUnsetIaasDone(m)
        PROVE OrchInv'
    BY <2>4 DEF OrchSeePreScaleDone, OrchSeeScaleActionDone, OrchUnsetIaasDone
  <2> QED
    BY <1>4, <2>1, <2>2, <2>3, <2>4, <2>5, <2>6 DEF OrchStep
<1>5. ASSUME NEW m \in Nodes, NodeStep(m) \/ VmDown(m) \/ VmSigterm(m) PROVE OrchInv'
  BY <1>5, NodesLeave DEF orch
<1>6. ASSUME NEW r \in Rounds, NEW m \in Nodes, JobStep(r, m) PROVE OrchInv'
  BY <1>6, TasksLeave DEF orch, server
<1>7. CASE UNCHANGED vars
  BY <1>7 DEF vars, orch, server, hist
<1> QED
  BY <1>1, <1>2, <1>3, <1>4, <1>5, <1>6, <1>7 DEF Next, Quiet

\* The sets of exceptions only grow.
LEMMA ExceptionsGrow ==
  ASSUME IInv, [Next]_vars
  PROVE  /\ crashed \subseteq crashed' /\ credited \subseteq credited'
         /\ terminated \subseteq terminated'
<1> USE DEF IInv, hist
<1>1. CASE CliStep \/ CancelAbort
  BY <1>1, UsersLeave
<1>2. CASE ServerStep
  BY <1>2, ServerLeaves
<1>3. CASE OrchStep
  BY <1>3, OrchLeaves
<1>4. ASSUME NEW m \in Nodes, NodeStep(m) \/ VmDown(m) \/ VmSigterm(m)
      PROVE /\ crashed \subseteq crashed' /\ credited \subseteq credited'
            /\ terminated \subseteq terminated'
  BY <1>4 DEF NodeStep, VmDown, VmSigterm, NodeProvisioning, NodePreScale, NodeSetPreScaleDone,
     NodeSeeIaasDone, NodeUnsetPreScaleDone, NodePostScale, NodeSetScaleActionDone,
     NodeExecuting, NodeSendingReports, NodeReady, NodePoll, NodeReports, NodeComplete, VmBoot
<1>5. ASSUME NEW r \in Rounds, NEW m \in Nodes, JobStep(r, m)
      PROVE UNCHANGED <<crashed, credited, terminated>>
  BY <1>5, TasksLeave
<1>6. CASE UNCHANGED vars
  BY <1>6 DEF vars
<1> QED
  BY <1>1, <1>2, <1>3, <1>4, <1>5, <1>6 DEF Next, Quiet

LEMMA NodeStable ==
  ASSUME IInv, [Next]_vars, NEW n \in Nodes \ credited'
  PROVE  NodeInv(n)'
<1> USE DEF Active, Settled, Unsettled, InStep
<1>1. TypeOK /\ CliInv /\ NodeInv(n)
  BY ExceptionsGrow DEF IInv
<1>2. CASE CliStep
  BY <1>1, <1>2, UsersLeave DEF NodeInv, CliInv, nodes, server, TypeOK, CliType, RtpType, CliStep,
     CliCheck, CliSetScaleState, CliSetProvisioning, CompletingReady, CliInterrupted, rtps, Handshake
<1>3. CASE CancelAbort
  BY <1>1, <1>3, UsersLeave DEF NodeInv, nodes, CancelAbort, rtps
<1>4. CASE ServerStep
  BY <1>1, <1>4, ServerLeaves DEF NodeInv, nodes, rtps, ServerStep, ServerAdvance, ServerAbort, Counts, NextState
<1>5. CASE OrchStep
  BY <1>1, <1>5, OrchLeaves DEF NodeInv, nodes
<1>6. ASSUME NEW m \in Nodes, m # n, NodeStep(m) \/ VmDown(m) \/ VmSigterm(m) PROVE NodeInv(n)'
  BY <1>1, <1>6, OtherNode, NodesLeave DEF NodeInv, SameNode
<1>7. ASSUME NodeStep(n) \/ VmDown(n) \/ VmSigterm(n) PROVE NodeInv(n)'
  <2> USE <1>1 DEF TypeOK, NodeType, RtpType, NodeInv, Handshake, Goto, NewState, Fail, Counts,
      NextState, server, rtps
  <2>1. CASE VmDown(n)
    BY <2>1 DEF VmDown, TypeOK, HistType
  <2>2. CASE VmSigterm(n)
    BY <2>2 DEF VmSigterm
  <2>3. CASE NodeProvisioning(n)
    BY <2>3 DEF NodeProvisioning
  <2>4. CASE NodePreScale(n)
    BY <2>4 DEF NodePreScale
  <2>5. CASE NodeSetPreScaleDone(n)
    BY <2>5 DEF NodeSetPreScaleDone
  <2>6. CASE NodeSeeIaasDone(n)
    BY <2>6 DEF NodeSeeIaasDone
  <2>7. CASE NodeUnsetPreScaleDone(n)
    BY <2>7 DEF NodeUnsetPreScaleDone
  <2>8. CASE NodePostScale(n)
    BY <2>8 DEF NodePostScale
  <2>9. CASE NodeSetScaleActionDone(n)
    BY <2>9 DEF NodeSetScaleActionDone
  <2>10. CASE NodeExecuting(n)
    BY <2>10 DEF NodeExecuting
  <2>11. CASE NodeSendingReports(n) \/ NodeReady(n)
    BY <2>11 DEF NodeSendingReports, NodeReady
  <2>12. CASE NodeReports(n)
    BY <2>12 DEF NodeReports
  <2>13. CASE NodeComplete(n)
    BY <2>13 DEF NodeComplete, PollAgain
  <2>14. CASE VmBoot(n) \/ NodePoll(n)
    BY <2>14 DEF VmBoot, NodePoll
  <2> QED
    BY <1>7, <2>1, <2>2, <2>3, <2>4, <2>5, <2>6, <2>7, <2>8, <2>9, <2>10, <2>11, <2>12,
       <2>13, <2>14 DEF NodeStep
<1>8. ASSUME NEW r \in Rounds, NEW m \in Nodes, JobStep(r, m) PROVE NodeInv(n)'
  BY <1>1, <1>8, TasksLeave DEF NodeInv, nodes, server
<1>9. CASE UNCHANGED vars
  BY <1>1, <1>9 DEF NodeInv, vars, nodes, server, rtps
<1> QED
  BY <1>2, <1>3, <1>4, <1>5, <1>6, <1>7, <1>8, <1>9 DEF Next, Quiet

LEMMA PreDoneStable ==
  ASSUME IInv, [Next]_vars, NEW n \in Nodes \ (terminated' \cup credited')
  PROVE  PreDoneInv(n)'
<1> USE DEF Active, Settled, Unsettled, InStep
<1>1. TypeOK /\ CliInv /\ OrchInv /\ NodeInv(n) /\ PreDoneInv(n)
  BY ExceptionsGrow DEF IInv
<1>2. round \in Nat /\ pre[n] \in Nat /\ iaas[n] \in Nat /\ Rounds \subseteq Nat
  BY <1>1, ConstantsAssumption DEF TypeOK, ServerType, HistType, Rounds
<1>3. CASE CliStep
  <2>1. CASE CliSetScaleState(n)
    BY <1>1, <1>2, <2>1 DEF CliSetScaleState, PreDoneInv, CliInv, TypeOK, RtpType, nodes,
       orch, tasks, hist, server
  <2>2. ASSUME NEW m \in Nodes, m # n, CliSetScaleState(m) PROVE PreDoneInv(n)'
    BY <1>1, <1>2, <2>2 DEF CliSetScaleState, PreDoneInv, TypeOK, RtpType, nodes,
       orch, tasks, hist, server
  <2>3. CASE CliSetProvisioning
    BY <1>1, <1>2, <2>3 DEF CliSetProvisioning, PreDoneInv, CliInv, OrchInv, NodeInv, Handshake,
       rtps, nodes, orch, tasks, hist
  <2>4. CASE CliCheck \/ CliInterrupted
    BY <1>1, <2>4 DEF CliCheck, CliInterrupted, PreDoneInv, rtps, nodes, orch, tasks, hist, server
  <2> QED
    BY <1>3, <2>1, <2>2, <2>3, <2>4 DEF CliStep
<1>4. CASE CancelAbort
  BY <1>1, <1>4 DEF CancelAbort, PreDoneInv, rtps, nodes, orch, tasks, hist
<1>5. CASE ServerStep
  <2>1. CASE ServerAdvance
    BY <1>1, <2>1 DEF ServerAdvance, NodeInv, PreDoneInv, rtps, nodes, orch, tasks, hist
  <2>2. CASE ServerAbort
    BY <1>1, <2>2 DEF ServerAbort, PreDoneInv, rtps, nodes, orch, tasks, hist
  <2> QED
    BY <1>5, <2>1, <2>2 DEF ServerStep
<1>6. CASE OrchStep
  <2> USE <1>1, <1>2 DEF PreDoneInv, nodes, hist, server, rtps, tasks
  <2>1. CASE OrchSelect
    BY <2>1 DEF OrchSelect, OrchFail, OrchInv
  <2>2. ASSUME NEW m \in Nodes, OrchSeePreScaleDone(m) PROVE PreDoneInv(n)'
    BY <2>2 DEF OrchSeePreScaleDone
  <2>3. CASE OrchRequestIaas
    BY <2>3 DEF OrchRequestIaas, AllSeen, TypeOK, TaskType
  <2>4. CASE OrchProvisioning \/ OrchClassify \/ OrchTimeout \/ OrchIaasDone \/ OrchIaasFailed
    BY <2>4 DEF OrchProvisioning, OrchClassify, OrchTimeout, OrchIaasDone, OrchIaasFailed,
       OrchFail, OrchNext
  <2>5. CASE OrchScaled \/ OrchExecuting \/ OrchSendingReports \/ OrchReady \/ OrchComplete
    BY <2>5 DEF OrchScaled, OrchExecuting, OrchSendingReports, OrchReady, OrchComplete, OrchFail, OrchNext
  <2>6. ASSUME NEW m \in Nodes, OrchSeeScaleActionDone(m) \/ OrchUnsetIaasDone(m)
        PROVE PreDoneInv(n)'
    BY <2>6 DEF OrchSeeScaleActionDone, OrchUnsetIaasDone
  <2> QED
    BY <1>6, <2>1, <2>2, <2>3, <2>4, <2>5, <2>6 DEF OrchStep
<1>7. ASSUME NEW m \in Nodes, m # n, NodeStep(m) \/ VmDown(m) \/ VmSigterm(m)
      PROVE PreDoneInv(n)'
  BY <1>1, <1>7, OtherNode, NodesLeave DEF PreDoneInv, SameNode, orch, tasks
<1>8. ASSUME NodeStep(n) \/ VmDown(n) \/ VmSigterm(n) PROVE PreDoneInv(n)'
  <2> USE <1>1, <1>2 DEF TypeOK, NodeType, RtpType, HistType, NodeInv, PreDoneInv, Handshake,
      Goto, NewState, Fail, server, rtps, orch, tasks, hist
  <2>1. CASE VmDown(n)
    BY <2>1 DEF VmDown
  <2>2. CASE VmSigterm(n)
    BY <2>2 DEF VmSigterm
  <2>3. CASE NodeProvisioning(n)
    BY <2>3 DEF NodeProvisioning
  <2>4. CASE NodePreScale(n)
    BY <2>4 DEF NodePreScale
  <2>5. CASE NodeSetPreScaleDone(n)
    BY <2>5 DEF NodeSetPreScaleDone
  <2>6. CASE NodeSeeIaasDone(n)
    BY <2>6 DEF NodeSeeIaasDone
  <2>7. CASE NodeUnsetPreScaleDone(n)
    BY <2>7 DEF NodeUnsetPreScaleDone, UnsetPreScaleDone
  <2>8. CASE NodePostScale(n)
    BY <2>8 DEF NodePostScale
  <2>9. CASE NodeSetScaleActionDone(n)
    BY <2>9 DEF NodeSetScaleActionDone
  <2>10. CASE NodeExecuting(n)
    BY <2>10 DEF NodeExecuting
  <2>11. CASE NodeSendingReports(n) \/ NodeReady(n)
    BY <2>11 DEF NodeSendingReports, NodeReady
  <2>12. CASE NodeReports(n)
    BY <2>12 DEF NodeReports
  <2>13. CASE NodeComplete(n)
    BY <2>13 DEF NodeComplete, PollAgain
  <2>14. CASE VmBoot(n) \/ NodePoll(n)
    BY <2>14 DEF VmBoot, NodePoll
  <2> QED
    BY <1>8, <2>1, <2>2, <2>3, <2>4, <2>5, <2>6, <2>7, <2>8, <2>9, <2>10, <2>11, <2>12,
       <2>13, <2>14 DEF NodeStep
<1>9. ASSUME NEW r \in Rounds, NEW m \in Nodes, JobStep(r, m) PROVE PreDoneInv(n)'
  <2> USE <1>1, <1>2 DEF PreDoneInv, TypeOK, TaskType, HistType, SetJob, nodes, orch, hist,
      rtps, server
  <2>1. CASE JobApply(r, m)
    BY <2>1 DEF JobApply
  <2>2. CASE JobFail(r, m)
    BY <2>2 DEF JobFail
  <2>3. CASE JobReport(r, m)
    BY <2>3 DEF JobReport, MayReport
  <2>4. CASE JobReportDevice(r, m)
    BY <2>4 DEF JobReportDevice
  <2> QED
    BY <1>9, <2>1, <2>2, <2>3, <2>4 DEF JobStep
<1>10. CASE UNCHANGED vars
  BY <1>1, <1>10 DEF PreDoneInv, vars, nodes, orch, tasks, server, rtps, hist
<1> QED
  BY <1>3, <1>4, <1>5, <1>6, <1>7, <1>8, <1>9, <1>10 DEF Next, Quiet

LEMMA RunStable ==
  ASSUME IInv, [Next]_vars, NEW n \in Nodes \ (crashed' \cup credited')
  PROVE  RunInv(n)' /\ SkipInv(n)'
<1> USE DEF Active, Settled, InStep
<1>1. TypeOK /\ CliInv /\ OrchInv /\ NodeInv(n) /\ RunInv(n) /\ SkipInv(n)
  BY ExceptionsGrow DEF IInv
<1>2. CASE CliStep
  <2> USE <1>1 DEF RunInv, SkipInv, CliInv, TypeOK, RtpType, CliType, ScaleStates, VerticalStates,
      DoneStates, nodes, hist, server, rtps
  <2>1. ASSUME NEW m \in Nodes, CliSetScaleState(m) PROVE RunInv(n)' /\ SkipInv(n)'
    BY <2>1, ConstantsAssumption DEF CliSetScaleState
  <2>2. CASE CliSetProvisioning
    BY <2>2 DEF CliSetProvisioning
  <2>3. CASE CliCheck \/ CliInterrupted
    BY <2>3 DEF CliCheck, CliInterrupted
  <2> QED
    BY <1>2, <2>1, <2>2, <2>3 DEF CliStep
<1>3. CASE CancelAbort
  BY <1>1, <1>3 DEF CancelAbort, RunInv, SkipInv, nodes, hist, rtps
<1>4. CASE ServerStep
  <2> USE <1>1 DEF RunInv, SkipInv, NodeInv, nodes, hist, rtps
  <2>1. CASE ServerAdvance
    BY <2>1 DEF ServerAdvance, Counts, NextState, DoneStates
  <2>2. CASE ServerAbort
    BY <2>2 DEF ServerAbort
  <2> QED
    BY <1>4, <2>1, <2>2 DEF ServerStep
<1>5. CASE OrchStep
  BY <1>1, <1>5, OrchLeaves DEF RunInv, SkipInv, nodes, hist
<1>6. ASSUME NEW m \in Nodes, m # n, NodeStep(m) \/ VmDown(m) \/ VmSigterm(m)
      PROVE RunInv(n)' /\ SkipInv(n)'
  BY <1>1, <1>6, OtherNode, NodesLeave DEF RunInv, SkipInv, SameNode
<1>7. ASSUME NodeStep(n) \/ VmDown(n) \/ VmSigterm(n) PROVE RunInv(n)' /\ SkipInv(n)'
  <2> USE <1>1 DEF TypeOK, NodeType, RtpType, NodeInv, RunInv, SkipInv, Handshake, Unsettled,
      ScaleStates, VerticalStates, DoneStates, Goto, NewState, Fail, server, rtps, hist
  <2>1. CASE VmDown(n)
    BY <2>1 DEF VmDown, HistType
  <2>2. CASE VmSigterm(n)
    BY <2>2 DEF VmSigterm
  <2>3. CASE NodeProvisioning(n)
    BY <2>3 DEF NodeProvisioning
  <2>4. CASE NodePreScale(n)
    BY <2>4 DEF NodePreScale
  <2>5. CASE NodeSetPreScaleDone(n)
    BY <2>5 DEF NodeSetPreScaleDone
  <2>6. CASE NodeSeeIaasDone(n)
    BY <2>6 DEF NodeSeeIaasDone
  <2>7. CASE NodeUnsetPreScaleDone(n)
    BY <2>7 DEF NodeUnsetPreScaleDone, UnsetPreScaleDone
  <2>8. CASE NodePostScale(n)
    BY <2>8 DEF NodePostScale
  <2>9. CASE NodeSetScaleActionDone(n)
    BY <2>9 DEF NodeSetScaleActionDone, SetSkip
  <2>10. CASE NodeExecuting(n)
    BY <2>10 DEF NodeExecuting
  <2>11. CASE NodeSendingReports(n) \/ NodeReady(n)
    BY <2>11 DEF NodeSendingReports, NodeReady
  <2>12. CASE NodeReports(n)
    BY <2>12 DEF NodeReports, SetOperational
  <2>13. CASE NodeComplete(n)
    BY <2>13 DEF NodeComplete, PollAgain
  <2>14. CASE VmBoot(n) \/ NodePoll(n)
    BY <2>14 DEF VmBoot, NodePoll
  <2> QED
    BY <1>7, <2>1, <2>2, <2>3, <2>4, <2>5, <2>6, <2>7, <2>8, <2>9, <2>10, <2>11, <2>12,
       <2>13, <2>14 DEF NodeStep
<1>8. ASSUME NEW r \in Rounds, NEW m \in Nodes, JobStep(r, m) PROVE RunInv(n)' /\ SkipInv(n)'
  BY <1>1, <1>8, TasksLeave DEF RunInv, SkipInv, nodes, server
<1>9. CASE UNCHANGED vars
  BY <1>1, <1>9 DEF RunInv, SkipInv, vars, nodes, server, rtps, hist
<1> QED
  BY <1>2, <1>3, <1>4, <1>5, <1>6, <1>7, <1>8, <1>9 DEF Next, Quiet

LEMMA InvStable == ASSUME IInv, [Next]_vars PROVE IInv'
<1>1. TypeOK'
  BY TypeStable DEF IInv
<1>2. CliInv' /\ OrchInv'
  BY CliStable, OrchStable
<1>3. \A n \in Nodes \ credited' : NodeInv(n)'
  BY NodeStable
<1>4. \A n \in Nodes \ (terminated' \cup credited') : PreDoneInv(n)'
  BY PreDoneStable
<1>5. \A n \in Nodes \ (crashed' \cup credited') : RunInv(n)' /\ SkipInv(n)'
  BY RunStable
<1> QED
  BY <1>1, <1>2, <1>3, <1>4, <1>5 DEF IInv

\* IInv is an invariant.
THEOREM Invariance == Spec => []IInv
<1>1. Init => IInv
  BY InvInit
<1>2. IInv /\ [Next]_vars => IInv'
  BY InvStable
<1> QED
  BY <1>1, <1>2, PTL DEF Spec

-----------------------------------------------------------------------------
(* The safety properties. *)

\* No VM is resized, and no disk attached or detached, before the instance ended
\* its prescale script for this very request (CloudWrapper._wait_pre_scale_done),
\* but for the instances the property excepts.
THEOREM PreScaleSafe == Spec => []PreScaleBeforeIaas
<1>1. IInv => PreScaleBeforeIaas
  BY DEF IInv, PreDoneInv, PreScaleBeforeIaas
<1> QED
  BY <1>1, Invariance, PTL

\* Build recipes and execute target do not run again because of vertical scaling
\* (_skip_execute_due_to_vertical_scaling), but where an executor died or was
\* credited, that is, where the run passed a state without it.
THEOREM RebuildSafe == Spec => []NoRebuildWithoutRestart
<1>1. IInv => NoRebuildWithoutRestart
  BY DEF IInv, TypeOK, HistType, SkipInv, NoRebuildWithoutRestart
<1> QED
  BY <1>1, Invariance, PTL

\* The executors the server counts as done with the state of the run handled
\* that very state, although complete_state does not name the state it
\* completes.  Excepted are those credited with a completion they
\* did not post for it: an executor that died after its completion, and one that
\* was still to complete Ready when the next request set Provisioning.
THEOREM CompletionSafe == Spec => []CompletionsHonest
<1>1. IInv => CompletionsHonest
  BY DEF IInv, TypeOK, ServerType, NodeInv, OrchInv, CompletionsHonest
<1> QED
  BY <1>1, Invariance, PTL

-----------------------------------------------------------------------------
(* What the orchestrator concludes, whatever goes wrong.                     *)

\* An executor in the handshake holds the run in the round it began it in, though
\* it may be credited with Provisioning already.
HandshakeInv(n) ==
  /\ nPc[n] \in Handshake => /\ runState \in {"Provisioning", "Executing"}
                             /\ runState = "Executing" => n \notin nDone
  /\ nPc[n] = "set_done" => post[n] = round
  /\ iaas[n] <= round

\* IaaS tasks are of rounds there have been, and what they applied is known.
JobInv(r, n) ==
  /\ job[r][n] # "none" => r <= round
  /\ job[r][n] \in {"applied", "reported", "done"} => r <= iaas[n]

\* What was to be scaled when the orchestrator fetched the Run, and is done now, is
\* done by the postscale script of this round.
ServedInv ==
  /\ runState \in Active => round \in Rounds
  /\ oPc \notin {"poll", "complete"} =>
       \A n \in Nodes : oCache[n] \in VerticalStates /\ scaleState[n] \in DoneStates
                          => post[n] = round
  /\ oPc \in {"wait_pre", "iaas", "wait_done", "unset_iaas"} =>
       action[round] \in VerticalStates /\ \A n \in oNodes : oCache[n] \in VerticalStates
  /\ oPc \in {"wait_done", "unset_iaas"} => \A n \in oNodes : iaas[n] = round
  /\ oPc = "wait_done" => \A n \in oSeen : post[n] = round
  /\ oPc = "unset_iaas" => \A n \in oNodes : post[n] = round

ConclusionInv ==
  /\ \A n \in Nodes : HandshakeInv(n)
  /\ \A r \in Rounds, n \in Nodes : JobInv(r, n)
  /\ ServedInv


LEMMA ConclusionInit == ASSUME Init PROVE ConclusionInv
<1>1. ASSUME NEW n \in Nodes PROVE HandshakeInv(n)
  BY <1>1 DEF Init, HandshakeInv, Handshake
<1>2. ASSUME NEW r \in Rounds, NEW n \in Nodes PROVE JobInv(r, n)
  BY <1>2 DEF Init, JobInv
<1>3. ServedInv
  BY DEF Init, ServedInv, Active
<1> QED
  BY <1>1, <1>2, <1>3 DEF ConclusionInv

\* Numbers are numbers.
LEMMA RoundTypes ==
  ASSUME TypeOK, NEW n \in Nodes
  PROVE  /\ round \in Nat /\ iaas[n] \in Nat /\ post[n] \in Nat /\ Rounds \subseteq Nat
         /\ iaas[n] \in 0 .. MaxRounds
BY ConstantsAssumption DEF TypeOK, ServerType, HistType, Rounds

\* What of an instance its own executor alone changes.
SameHandshake(n) == nPc'[n] = nPc[n] /\ post'[n] = post[n] /\ scaleState'[n] = scaleState[n]

LEMMA OtherHandshake ==
  ASSUME TypeOK, NEW n \in Nodes, NEW m \in Nodes, m # n,
         NodeStep(m) \/ VmDown(m) \/ VmSigterm(m)
  PROVE  SameHandshake(n) /\ (n \in nDone' <=> n \in nDone)
<1>1. post'[n] = post[n]
  BY DEF TypeOK, HistType, NodeStep, VmDown, VmSigterm, NodeProvisioning, NodePreScale,
     NodeSetPreScaleDone, NodeSeeIaasDone, NodeUnsetPreScaleDone, NodePostScale,
     NodeSetScaleActionDone, NodeExecuting, NodeSendingReports, NodeReady, NodePoll, NodeReports, NodeComplete,
     VmBoot, hist
<1> QED
  BY <1>1, OtherNode DEF SameNode, SameHandshake

LEMMA HandshakeStable ==
  ASSUME IInv, ConclusionInv, [Next]_vars, NEW n \in Nodes
  PROVE  HandshakeInv(n)'
<1>1. TypeOK /\ CliInv /\ HandshakeInv(n) /\ (\A r \in Rounds : JobInv(r, n))
  BY DEF IInv, ConclusionInv
<1>2. round \in Nat /\ iaas[n] \in Nat /\ Rounds \subseteq Nat
  BY <1>1, RoundTypes
<1> USE <1>1, <1>2 DEF HandshakeInv
<1>3. CASE CliStep
  BY <1>3, UsersLeave DEF CliInv, Settled, Handshake, nodes, hist, server, CliStep, CliCheck,
     CliSetScaleState, CliSetProvisioning, CliInterrupted
<1>4. CASE CancelAbort
  BY <1>4 DEF CancelAbort, nodes, hist
<1>5. CASE ServerStep
  <2>1. CASE ServerAdvance
    BY <2>1 DEF ServerAdvance, Counts, NextState, nodes, hist
  <2>2. CASE ServerAbort
    BY <2>2 DEF ServerAbort, nodes, hist
  <2> QED
    BY <1>5, <2>1, <2>2 DEF ServerStep
<1>6. CASE OrchStep
  BY <1>6, OrchLeaves DEF nodes, hist
<1>7. ASSUME NEW m \in Nodes, m # n, NodeStep(m) \/ VmDown(m) \/ VmSigterm(m)
      PROVE HandshakeInv(n)'
  BY <1>7, OtherHandshake, NodesLeave DEF SameHandshake
<1>8. ASSUME NodeStep(n) \/ VmDown(n) \/ VmSigterm(n) PROVE HandshakeInv(n)'
  <2> USE DEF TypeOK, NodeType, HistType, Handshake, Goto, NewState, Fail, server, hist
  <2>1. CASE VmDown(n) \/ VmSigterm(n)
    BY <2>1 DEF VmDown, VmSigterm
  <2>2. CASE NodeProvisioning(n)
    BY <2>2 DEF NodeProvisioning
  <2>3. CASE NodePreScale(n)
    BY <2>3 DEF NodePreScale
  <2>4. CASE NodeSetPreScaleDone(n) \/ NodeSeeIaasDone(n) \/ NodeUnsetPreScaleDone(n)
    BY <2>4 DEF NodeSetPreScaleDone, NodeSeeIaasDone, NodeUnsetPreScaleDone
  <2>5. CASE NodePostScale(n)
    BY <2>5 DEF NodePostScale
  <2>6. CASE NodeSetScaleActionDone(n)
    BY <2>6 DEF NodeSetScaleActionDone
  <2>7. CASE NodeExecuting(n)
    BY <2>7 DEF NodeExecuting
  <2>8. CASE NodeSendingReports(n) \/ NodeReady(n) \/ NodePoll(n) \/ NodeReports(n) \/ VmBoot(n)
    BY <2>8 DEF NodeSendingReports, NodeReady, NodePoll, NodeReports, VmBoot
  <2>9. CASE NodeComplete(n)
    BY <2>9 DEF NodeComplete, PollAgain
  <2> QED
    BY <1>8, <2>1, <2>2, <2>3, <2>4, <2>5, <2>6, <2>7, <2>8, <2>9 DEF NodeStep
<1>9. ASSUME NEW r \in Rounds, NEW m \in Nodes, JobStep(r, m) PROVE HandshakeInv(n)'
  <2> USE DEF JobInv, TypeOK, HistType, hist, server, nodes
  <2>1. CASE JobApply(r, m)
    BY <2>1 DEF JobApply
  <2>2. CASE JobFail(r, m) \/ JobReport(r, m) \/ JobReportDevice(r, m)
    BY <2>2 DEF JobFail, JobReport, JobReportDevice
  <2> QED
    BY <1>9, <2>1, <2>2 DEF JobStep
<1>10. CASE UNCHANGED vars
  BY <1>10 DEF vars, nodes, server, hist
<1> QED
  BY <1>3, <1>4, <1>5, <1>6, <1>7, <1>8, <1>9, <1>10 DEF Next, Quiet

LEMMA JobsStable ==
  ASSUME IInv, ConclusionInv, [Next]_vars, NEW q \in Rounds, NEW n \in Nodes
  PROVE  JobInv(q, n)'
<1>1. TypeOK /\ JobInv(q, n) /\ OrchInv /\ ServedInv
  BY DEF IInv, ConclusionInv
<1>2. round \in Nat /\ iaas[n] \in Nat /\ Rounds \subseteq Nat
  BY <1>1, RoundTypes
<1> USE <1>1, <1>2 DEF JobInv
<1>3. CASE CliStep
  BY <1>3, UsersLeave DEF tasks, hist, server, CliStep, CliCheck,
     CliSetScaleState, CliSetProvisioning, CliInterrupted
<1>4. CASE CancelAbort
  BY <1>4 DEF CancelAbort, tasks, hist
<1>5. CASE ServerStep
  BY <1>5, ServerLeaves DEF tasks, hist
<1>6. CASE OrchStep
  <2>1. CASE OrchRequestIaas
    BY <2>1 DEF OrchRequestIaas, OrchInv, ServedInv, TypeOK, TaskType, server, hist
  <2>2. CASE ~ OrchRequestIaas
    BY <1>6, <2>2 DEF OrchStep, OrchProvisioning, OrchClassify, OrchSelect, OrchSeePreScaleDone,
       OrchTimeout, OrchIaasDone, OrchIaasFailed, OrchSeeScaleActionDone,
       OrchScaled, OrchUnsetIaasDone, OrchExecuting, OrchSendingReports, OrchReady, OrchComplete,
       server, tasks, hist
  <2> QED
    BY <2>1, <2>2
<1>7. ASSUME NEW m \in Nodes, NodeStep(m) \/ VmDown(m) \/ VmSigterm(m) PROVE JobInv(q, n)'
  BY <1>7, NodesLeave DEF tasks
<1>8. ASSUME NEW r \in Rounds, NEW m \in Nodes, JobStep(r, m) PROVE JobInv(q, n)'
  <2> USE DEF TypeOK, TaskType, HistType, SetJob, hist, server
  <2>1. CASE JobApply(r, m)
    BY <2>1 DEF JobApply
  <2>2. CASE JobFail(r, m)
    BY <2>2 DEF JobFail
  <2>3. CASE JobReport(r, m)
    BY <2>3 DEF JobReport, MayReport, AfterReport
  <2>4. CASE JobReportDevice(r, m)
    BY <2>4 DEF JobReportDevice
  <2> QED
    BY <1>8, <2>1, <2>2, <2>3, <2>4 DEF JobStep
<1>9. CASE UNCHANGED vars
  BY <1>9 DEF vars, tasks, server, hist
<1> QED
  BY <1>3, <1>4, <1>5, <1>6, <1>7, <1>8, <1>9 DEF Next, Quiet

\* What an orchestrator at work has the round, the postscale scripts and the tasks be.
LEMMA ServedStable == ASSUME IInv, ConclusionInv, [Next]_vars PROVE ServedInv'
<1>1. TypeOK /\ CliInv /\ OrchInv /\ ServedInv
  BY DEF IInv, ConclusionInv
<1>2. /\ \A n \in Nodes : HandshakeInv(n) /\ post[n] \in Nat /\ iaas[n] \in Nat
      /\ \A r \in Rounds, n \in Nodes : JobInv(r, n)
      /\ round \in Nat /\ MaxRounds \in Nat
  BY <1>1, RoundTypes, ConstantsAssumption DEF ConclusionInv, TypeOK, ServerType
<1> USE <1>1, <1>2 DEF ServedInv, Active, Settled
<1>3. CASE CliStep
  BY <1>3, UsersLeave DEF CliInv, OrchInv, orch, tasks, hist, server, CliStep, CliCheck,
     CliSetScaleState, CliSetProvisioning, CliInterrupted, TypeOK, CliType, Rounds
<1>4. CASE CancelAbort
  BY <1>4 DEF CancelAbort, orch, tasks, hist, rtps
<1>5. CASE ServerStep
  BY <1>5, ServerLeaves DEF ServerStep, ServerAdvance, ServerAbort, Counts, NextState, OrchInv,
     orch, tasks, hist, rtps
<1>6. CASE OrchStep
  <2> USE DEF OrchInv, OrchNewState, OrchFail, OrchNext, server, rtps, tasks, hist
  <2>1. CASE OrchProvisioning
    BY <2>1 DEF OrchProvisioning, VerticalStates, DoneStates
  <2>2. CASE OrchClassify \/ OrchTimeout \/ OrchIaasFailed
    BY <2>2 DEF OrchClassify, OrchTimeout, OrchIaasFailed
  <2>3. CASE OrchSelect
    BY <2>3 DEF OrchSelect, TypeOK, TaskType
  <2>4. ASSUME NEW m \in Nodes, OrchSeePreScaleDone(m) PROVE ServedInv'
    BY <2>4 DEF OrchSeePreScaleDone
  <2>5. CASE OrchRequestIaas
    BY <2>5 DEF OrchRequestIaas
  <2>6. CASE OrchIaasDone
    <3>1. \A n \in oNodes : iaas[n] = round
      BY <2>6 DEF OrchIaasDone, JobInv, HandshakeInv, TypeOK, OrchType
    <3> QED
      BY <2>6, <3>1 DEF OrchIaasDone
  <2>7. ASSUME NEW m \in Nodes, OrchSeeScaleActionDone(m) PROVE ServedInv'
    <3>1. scaleState[m] \in DoneStates /\ oCache[m] \in VerticalStates
      BY <2>7 DEF OrchSeeScaleActionDone, InScaledState, StartStopMap, VerticalStates, DoneStates
    <3>2. post[m] = round
      BY <2>7, <3>1 DEF OrchSeeScaleActionDone
    <3> QED
      BY <2>7, <3>2 DEF OrchSeeScaleActionDone
  <2>8. CASE OrchScaled
    BY <2>8 DEF OrchScaled, AllSeen
  <2>9. ASSUME NEW m \in Nodes, OrchUnsetIaasDone(m) PROVE ServedInv'
    BY <2>9 DEF OrchUnsetIaasDone
  <2>10. CASE OrchExecuting \/ OrchSendingReports \/ OrchReady \/ OrchComplete
    BY <2>10 DEF OrchExecuting, OrchSendingReports, OrchReady, OrchComplete
  <2> QED
    BY <1>6, <2>1, <2>2, <2>3, <2>4, <2>5, <2>6, <2>7, <2>8, <2>9, <2>10 DEF OrchStep
<1>7. ASSUME NEW m \in Nodes, NodeStep(m) \/ VmDown(m) \/ VmSigterm(m) PROVE ServedInv'
  <2>1. \A n \in Nodes \ {m} : SameHandshake(n)
    BY <1>7, OtherHandshake
  <2>2. UNCHANGED <<runState, round, oPc, oCache, oNodes, oSeen, action, iaas>>
    BY <1>7, NodesLeave DEF orch, tasks
  <2>3. \/ post'[m] = post[m]
        \/ oPc \in {"poll", "complete"} \/ post'[m] = round
    BY <1>7 DEF TypeOK, HistType, NodeStep, VmDown, VmSigterm, NodeProvisioning, NodePreScale,
       NodeSetPreScaleDone, NodeSeeIaasDone, NodeUnsetPreScaleDone, NodePostScale,
       NodeSetScaleActionDone, NodeExecuting, NodeSendingReports, NodeReady, NodePoll, NodeReports, NodeComplete,
       VmBoot, hist
  <2>4. \/ scaleState'[m] = scaleState[m] \/ scaleState'[m] = "operational"
        \/ post'[m] = round
    <3>1. CASE NodeSetScaleActionDone(m)
      BY <3>1 DEF NodeSetScaleActionDone, HandshakeInv, Handshake, hist
    <3>2. CASE NodeReports(m)
      BY <3>2 DEF NodeReports, SetOperational, TypeOK, RtpType
    <3>3. CASE ~ NodeSetScaleActionDone(m) /\ ~ NodeReports(m)
      BY <1>7, <3>3 DEF NodeStep, VmDown, VmSigterm, NodeProvisioning, NodePreScale,
         NodeSetPreScaleDone, NodeSeeIaasDone, NodeUnsetPreScaleDone, NodePostScale,
         NodeExecuting, NodeSendingReports, NodeReady, NodePoll, NodeComplete, VmBoot, rtps
    <3> QED
      BY <3>1, <3>2, <3>3
  <2>5. "operational" \notin DoneStates /\ oNodes \subseteq Nodes /\ oSeen \subseteq Nodes
    BY DEF DoneStates, TypeOK, OrchType
  <2> QED
    BY <2>1, <2>2, <2>3, <2>4, <2>5 DEF SameHandshake
<1>8. ASSUME NEW r \in Rounds, NEW m \in Nodes, JobStep(r, m) PROVE ServedInv'
  <2>1. UNCHANGED <<runState, round, scaleState, oPc, oCache, oNodes, oSeen, action, post>>
    BY <1>8 DEF JobStep, JobApply, JobFail, JobReport, JobReportDevice, server, rtps, orch, hist
  <2>2. \A n \in Nodes : iaas[n] = round => iaas'[n] = round
    <3>1. CASE JobApply(r, m)
      BY <3>1 DEF JobApply, JobInv, TypeOK, HistType, Rounds
    <3>2. CASE ~ JobApply(r, m)
      BY <1>8, <3>2 DEF JobStep, JobFail, JobReport, JobReportDevice, hist
    <3> QED
      BY <3>1, <3>2
  <2>3. oPc \in {"wait_done", "unset_iaas"} => \A n \in oNodes : iaas'[n] = round
    BY <2>2 DEF TypeOK, OrchType
  <2> QED
    BY <2>1, <2>3
<1>9. CASE UNCHANGED vars
  BY <1>9 DEF vars, orch, tasks, server, rtps, hist
<1> QED
  BY <1>3, <1>4, <1>5, <1>6, <1>7, <1>8, <1>9 DEF Next, Quiet

\* IInv and ConclusionInv together are inductive.
LEMMA ConclusionStable == ASSUME IInv, ConclusionInv, [Next]_vars PROVE ConclusionInv'
<1>1. (\A n \in Nodes : HandshakeInv(n)')
  BY HandshakeStable
<1>2. (\A r \in Rounds, n \in Nodes : JobInv(r, n)')
  BY JobsStable
<1>3. ServedInv'
  BY ServedStable
<1>4. Rounds' = Rounds
  BY DEF Rounds
<1> QED
  BY <1>1, <1>2, <1>3, <1>4 DEF ConclusionInv

\* What the orchestrator has seen of a round is of that round, as are the tasks.
THEOREM ConclusionInvariance == Spec => []ConclusionInv
<1>1. Init => ConclusionInv
  BY ConclusionInit
<1>2. IInv /\ ConclusionInv /\ [Next]_vars => ConclusionInv'
  BY ConclusionStable
<1> QED
  BY <1>1, <1>2, Invariance, PTL DEF Spec

\* When the orchestrator concludes that the instances are scaled and lowers
\* scale.iaas.done (vertically_scale_instances, after _wait_scale_state), each had the
\* action of this request applied and ran postscale in it, whatever went wrong.
THEOREM ConclusionSafe == Spec => []ScaledMeansServed
<1>1. IInv /\ ConclusionInv => ScaledMeansServed
  BY DEF ConclusionInv, ServedInv, ScaledMeansServed, JobInv
<1> QED
  BY <1>1, Invariance, ConclusionInvariance, PTL

-----------------------------------------------------------------------------
(* What is left of a request, and in which cases the next one need not mind. *)

\* Of a request that the orchestrator gives up while IaaS tasks are running or have
\* reported, nothing is left to the next one: either it does not give any up, or the
\* abort flag that it raises is not reset.
GivesUpForGood == "cancel" \notin Faults \/ Faults \cap {"iaas", "timeout"} = {}

\* The orchestrator is done with the state of the run.
OrchOver == oPc \in {"poll", "complete"} /\ (oAt = "Provisioning" \/ runState # "Provisioning")
LastRequest == abort /\ "cancel" \notin Faults
Pending(r, n) == job[r][n] \in {"running", "applied", "reported"}

\* What is under way, or reported, for an instance is of this round, and the orchestrator
\* sees to it, unless no other round follows.
LeftInv(n) ==
  /\ \A r \in Rounds :
       /\ Pending(r, n) => r = round /\ ((oPc = "iaas" /\ n \in oNodes) \/ (OrchOver /\ LastRequest))
       /\ job[r][n] = "failed" => "iaas" \in Faults
  /\ iaasDone[n] =>
       /\ round \in Rounds /\ job[round][n] \in {"reported", "done"}
       /\ (oPc \in {"iaas", "wait_done", "unset_iaas"} /\ n \in oNodes) \/ (OrchOver /\ LastRequest)

\* An executor goes on to its postscale script when the action was applied.
AppliedInv(n) ==
  /\ nPc[n] \in {"unset_pre", "postscale", "set_done"} => iaas[n] = round
  /\ post[n] <= iaas[n]

LEMMA NodesLeaveMore ==
  ASSUME NEW m \in Nodes, NodeStep(m) \/ VmDown(m) \/ VmSigterm(m)
  PROVE  UNCHANGED <<iaasDone, device>>
BY DEF NodeStep, VmDown, VmSigterm, NodeProvisioning, NodePreScale, NodeSetPreScaleDone,
   NodeSeeIaasDone, NodeUnsetPreScaleDone, NodePostScale, NodeSetScaleActionDone,
   NodeExecuting, NodeSendingReports, NodeReady, NodePoll, NodeReports, NodeComplete, VmBoot, rtps

LEMMA LeftInit == ASSUME Init, NEW n \in Nodes PROVE LeftInv(n) /\ AppliedInv(n)
BY DEF Init, LeftInv, AppliedInv, Pending

LEMMA ConclusionFacts ==
  ASSUME IInv, ConclusionInv, NEW n \in Nodes
  PROVE  /\ TypeOK /\ CliInv /\ OrchInv /\ HandshakeInv(n) /\ (\A r \in Rounds : JobInv(r, n)) /\ ServedInv
         /\ round \in Nat /\ iaas[n] \in Nat /\ post[n] \in Nat /\ Rounds \subseteq Nat
<1>1. TypeOK
  BY DEF IInv
<1> QED
  BY <1>1, RoundTypes DEF IInv, ConclusionInv

LEMMA LeftStable ==
  ASSUME GivesUpForGood, IInv, ConclusionInv, [Next]_vars, NEW n \in Nodes, \A m \in Nodes : LeftInv(m)
  PROVE  LeftInv(n)'
<1>1. /\ TypeOK /\ CliInv /\ OrchInv /\ ServedInv
      /\ round \in Nat /\ Rounds \subseteq Nat
  BY ConclusionFacts
<1> USE <1>1 DEF LeftInv, Pending, OrchOver, LastRequest
<1>2. CASE CliStep
  BY <1>2, UsersLeave DEF CliStep, CliCheck, CliSetScaleState, CliSetProvisioning,
     CliInterrupted, CliInv, OrchInv, Active, Settled, rtps, orch, tasks, hist, server
<1>3. CASE CancelAbort
  BY <1>3, UsersLeave DEF CancelAbort, rtps, orch, tasks
<1>4. CASE ServerStep
  BY <1>4, ServerLeaves DEF ServerStep, ServerAdvance, ServerAbort, Counts, NextState, OrchInv, rtps, orch, tasks
<1>5. CASE OrchStep
  <2> USE DEF OrchFail, OrchNext, OrchNewState, OrchInv, TypeOK, RtpType, TaskType, OrchType, server, rtps, tasks, hist
  <2>1. CASE OrchProvisioning \/ OrchClassify \/ OrchExecuting
    BY <2>1 DEF OrchProvisioning, OrchClassify, OrchExecuting
  <2>2. CASE OrchSelect
    BY <2>2 DEF OrchSelect
  <2>3. CASE OrchRequestIaas
    BY <2>3 DEF OrchRequestIaas, ServedInv
  <2>4. CASE OrchIaasDone
    BY <2>4 DEF OrchIaasDone, ServedInv
  <2>5. CASE OrchTimeout
    BY <2>5 DEF OrchTimeout, Fault, GivesUpForGood
  <2>6. CASE OrchIaasFailed
    <3>1. round \in Rounds /\ oNodes \subseteq Nodes
      BY <2>6 DEF OrchIaasFailed, ServedInv, Active
    <3>2. "iaas" \in Faults
      BY <2>6, <3>1 DEF OrchIaasFailed
    <3> QED
      BY <2>6, <3>2 DEF OrchIaasFailed, GivesUpForGood
  <2>7. CASE OrchScaled
    BY <2>7 DEF OrchScaled
  <2>8. CASE OrchSendingReports \/ OrchReady \/ OrchComplete
    BY <2>8 DEF OrchSendingReports, OrchReady, OrchComplete
  <2>9. ASSUME NEW m \in Nodes, OrchSeePreScaleDone(m) \/ OrchSeeScaleActionDone(m)
        PROVE LeftInv(n)'
    BY <2>9 DEF OrchSeePreScaleDone, OrchSeeScaleActionDone
  <2>10. ASSUME NEW m \in Nodes, OrchUnsetIaasDone(m) PROVE LeftInv(n)'
    BY <2>10 DEF OrchUnsetIaasDone
  <2> QED
    BY <1>5, <2>1, <2>2, <2>3, <2>4, <2>5, <2>6, <2>7, <2>8, <2>9, <2>10 DEF OrchStep
<1>6. ASSUME NEW m \in Nodes, NodeStep(m) \/ VmDown(m) \/ VmSigterm(m) PROVE LeftInv(n)'
  <2>1. abort => abort'
    BY <1>6 DEF NodeStep, VmDown, VmSigterm, NodeProvisioning, NodePreScale, NodeSetPreScaleDone,
       NodeSeeIaasDone, NodeUnsetPreScaleDone, NodePostScale, NodeSetScaleActionDone, Fail,
       NodeExecuting, NodeSendingReports, NodeReady, NodePoll, NodeReports, NodeComplete, VmBoot, server
  <2> QED
    BY <1>6, <2>1, NodesLeave, NodesLeaveMore DEF orch, tasks
<1>7. ASSUME NEW r \in Rounds, NEW m \in Nodes, JobStep(r, m) PROVE LeftInv(n)'
  <2> USE DEF TypeOK, TaskType, RtpType, HistType, SetJob, server, orch, rtps, hist
  <2>1. CASE JobApply(r, m)
    BY <2>1 DEF JobApply
  <2>2. CASE JobFail(r, m)
    BY <2>2 DEF JobFail, Fault
  <2>3. CASE JobReport(r, m)
    BY <2>3 DEF JobReport, MayReport, AfterReport
  <2>4. CASE JobReportDevice(r, m)
    BY <2>4 DEF JobReportDevice
  <2> QED
    BY <1>7, <2>1, <2>2, <2>3, <2>4 DEF JobStep
<1>8. CASE UNCHANGED vars
  BY <1>8 DEF vars, server, rtps, orch, tasks, hist
<1> QED
  BY <1>2, <1>3, <1>4, <1>5, <1>6, <1>7, <1>8 DEF Next, Quiet

\* That is so as long as what is reported is of this round.
LEMMA AppliedStable ==
  ASSUME IInv, ConclusionInv, [Next]_vars, NEW n \in Nodes, AppliedInv(n),
         iaasDone[n] => round \in Rounds /\ job[round][n] \in {"reported", "done"}
  PROVE  AppliedInv(n)'
<1>1. /\ TypeOK /\ CliInv /\ OrchInv
      /\ HandshakeInv(n) /\ \A r \in Rounds : JobInv(r, n)
      /\ round \in Nat /\ iaas[n] \in Nat /\ post[n] \in Nat /\ Rounds \subseteq Nat
  BY ConclusionFacts
<1> USE <1>1 DEF AppliedInv
<1>2. CASE CliStep
  BY <1>2, UsersLeave DEF CliStep, CliCheck, CliSetScaleState, CliSetProvisioning,
     CliInterrupted, CliInv, HandshakeInv, Handshake, Settled, nodes, rtps, hist, server
<1>3. CASE CancelAbort
  BY <1>3, UsersLeave DEF CancelAbort, nodes, hist
<1>4. CASE ServerStep
  BY <1>4, ServerLeaves DEF nodes, hist
<1>5. CASE OrchStep
  BY <1>5, OrchLeaves DEF nodes, hist
<1>6. ASSUME NEW m \in Nodes, m # n, NodeStep(m) \/ VmDown(m) \/ VmSigterm(m)
      PROVE AppliedInv(n)'
  BY <1>6, NodesLeave, OtherHandshake DEF SameHandshake
<1>7. ASSUME NodeStep(n) \/ VmDown(n) \/ VmSigterm(n) PROVE AppliedInv(n)'
  <2> USE DEF TypeOK, NodeType, HistType, HandshakeInv, Handshake, Goto, NewState, Fail, server, hist
  <2>1. CASE VmDown(n) \/ VmSigterm(n) \/ VmBoot(n)
    BY <2>1 DEF VmDown, VmSigterm, VmBoot
  <2>2. CASE NodeProvisioning(n) \/ NodePreScale(n) \/ NodeSetPreScaleDone(n)
    BY <2>2 DEF NodeProvisioning, NodePreScale, NodeSetPreScaleDone
  <2>3. CASE NodeSeeIaasDone(n)
    BY <2>3 DEF NodeSeeIaasDone, JobInv
  <2>4. CASE NodeUnsetPreScaleDone(n)
    BY <2>4 DEF NodeUnsetPreScaleDone
  <2>5. CASE NodePostScale(n)
    BY <2>5 DEF NodePostScale
  <2>6. CASE NodeSetScaleActionDone(n)
    BY <2>6 DEF NodeSetScaleActionDone
  <2>7. CASE NodeExecuting(n)
    BY <2>7 DEF NodeExecuting
  <2>8. CASE NodeSendingReports(n) \/ NodeReady(n) \/ NodePoll(n) \/ NodeReports(n)
    BY <2>8 DEF NodeSendingReports, NodeReady, NodePoll, NodeReports
  <2>9. CASE NodeComplete(n)
    BY <2>9 DEF NodeComplete, PollAgain
  <2> QED
    BY <1>7, <2>1, <2>2, <2>3, <2>4, <2>5, <2>6, <2>7, <2>8, <2>9 DEF NodeStep
<1>8. ASSUME NEW r \in Rounds, NEW m \in Nodes, JobStep(r, m) PROVE AppliedInv(n)'
  <2>1. UNCHANGED <<round, nPc, post>>
    BY <1>8 DEF JobStep, JobApply, JobFail, JobReport, JobReportDevice, server, nodes, hist
  <2>2. r \in Nat /\ (iaas'[n] = iaas[n] \/ (iaas'[n] = r /\ iaas[n] < r /\ r <= round))
    BY <1>8 DEF JobStep, JobApply, JobFail, JobReport, JobReportDevice, JobInv, TypeOK,
       HistType, hist
  <2> QED
    BY <2>1, <2>2 DEF HandshakeInv
<1>9. CASE UNCHANGED vars
  BY <1>9 DEF vars, server, nodes, hist
<1> QED
  BY <1>2, <1>3, <1>4, <1>5, <1>6, <1>7, <1>8, <1>9 DEF Next, Quiet

LeftsInv == \A n \in Nodes : LeftInv(n) /\ AppliedInv(n)

\* Where requests are given up for good, no task or flag of one is met by the next.
THEOREM LeftsInvariance == GivesUpForGood => (Spec => []LeftsInv)
<1> SUFFICES ASSUME GivesUpForGood PROVE Spec => []LeftsInv
  OBVIOUS
<1>1. Init => LeftsInv
  BY LeftInit DEF LeftsInv
<1>2. IInv /\ ConclusionInv /\ LeftsInv /\ [Next]_vars => LeftsInv'
  <2> SUFFICES ASSUME IInv, ConclusionInv, LeftsInv, [Next]_vars, NEW n \in Nodes
               PROVE  LeftInv(n)' /\ AppliedInv(n)'
    BY DEF LeftsInv
  <2>1. LeftInv(n)'
    BY LeftStable DEF LeftsInv
  <2>2. AppliedInv(n)'
    BY AppliedStable DEF LeftsInv, LeftInv
  <2> QED BY <2>1, <2>2
<1> QED
  BY <1>1, <1>2, Invariance, ConclusionInvariance, PTL DEF Spec

-----------------------------------------------------------------------------
\* Nobody is taken out of a wait before what it waits for is there.
WaitsToTheEnd == Faults \subseteq {"script", "iaas", "cancel", "cli"}

\* An instance that waits, with pre.scale.done up, and one that will for ever.
Waiting(n) == preDone[n] /\ nPc[n] # "unset_pre"
Stuck == runState = "Provisioning" /\ \E m \in Nodes : job[round][m] = "failed"

\* The orchestrator has not asked for the action of this round yet.
NotAsked ==
  \/ oPc \in {"classify", "select", "wait_pre"}
  \/ oPc = "poll" /\ runState = "Provisioning" /\ oAt # "Provisioning"

\* What is not reported for an instance keeps it waiting, with all the others if it
\* failed; what is reported is reset by the orchestrator, unless it gave up and the
\* run stays where it is.
WaitInv(n) ==
  /\ \A r \in Rounds : job[r][n] \in {"running", "applied", "reported", "failed"} =>
       /\ r = round /\ runState = "Provisioning"
       /\ (oPc = "iaas" /\ n \in oNodes) \/ (OrchOver /\ Stuck)
       /\ job[r][n] # "reported" => Waiting(n)
  /\ iaasDone[n] =>
       /\ round \in Rounds /\ job[round][n] \in {"reported", "done"}
       /\ (oPc \in {"iaas", "wait_done", "unset_iaas"} /\ n \in oNodes) \/ (OrchOver /\ Stuck)
  /\ oPc = "wait_pre" /\ n \in oSeen => Waiting(n)
  /\ NotAsked => iaas[n] < round

WaitsInv ==
  /\ \A n \in Nodes : WaitInv(n) /\ AppliedInv(n)
  /\ credited = {} /\ terminated = {}

LEMMA WaitsInit == ASSUME Init PROVE WaitsInv
<1>1. ASSUME NEW n \in Nodes PROVE WaitInv(n)
  BY <1>1 DEF Init, WaitInv, NotAsked
<1> QED
  BY <1>1, LeftInit DEF Init, WaitsInv

\* The orchestrator, without a credit, is in step with the server.
InTime ==
  /\ oPc \notin {"poll", "complete"} => oAt = "Provisioning" /\ runState = "Provisioning"
  /\ oPc = "complete" => InStep(oPc, oAt)
  /\ oDone => oPc = "poll" /\ oAt = runState

LEMMA OrchInTime == ASSUME OrchInv, Orchestrator \notin credited PROVE InTime
BY DEF OrchInv, InTime, InStep

\* What is known of an instance, together.
LEMMA WaitFacts ==
  ASSUME IInv, ConclusionInv, WaitsInv, NEW n \in Nodes
  PROVE  /\ TypeOK /\ CliInv /\ OrchInv /\ NodeInv(n) /\ PreDoneInv(n)
         /\ HandshakeInv(n) /\ (\A r \in Rounds : JobInv(r, n)) /\ ServedInv
         /\ WaitInv(n) /\ AppliedInv(n) /\ InTime
         /\ round \in Nat /\ iaas[n] \in Nat /\ post[n] \in Nat /\ Rounds \subseteq Nat
BY ConclusionFacts, OrchInTime DEF WaitsInv, IInv

\* What cannot happen then.
LEMMA NobodyLeaves ==
  ASSUME WaitsToTheEnd
  PROVE  /\ ~ OrchTimeout
         /\ \A n \in Nodes : ~ VmSigterm(n)
         /\ \A n \in Nodes : VmDown(n) => \E r \in Rounds : job[r][n] = "running"
BY DEF WaitsToTheEnd, OrchTimeout, VmSigterm, VmDown, MayGoDown, Fault

LEMMA NobodyLate ==
  ASSUME WaitsToTheEnd, CliSetProvisioning PROVE CompletingReady = {} /\ UNCHANGED hist
BY DEF WaitsToTheEnd, CliSetProvisioning, Fault, hist

\* The run does not move on while somebody is stuck.
LEMMA NobodyStuck == ASSUME IInv, ConclusionInv, WaitsInv, ServerAdvance PROVE ~ Stuck
<1>1. SUFFICES ASSUME NEW m \in Nodes, job[round][m] = "failed", runState = "Provisioning"
               PROVE FALSE
  BY DEF Stuck
<1>2. /\ round \in Rounds /\ m \in nDone
  BY <1>1, WaitFacts DEF ServerAdvance, ServedInv, Active
<1>3. preDone[m] /\ nPc[m] # "unset_pre"
  BY <1>1, <1>2, WaitFacts DEF WaitInv, Waiting
<1>4. NodeInv(m) /\ PreDoneInv(m) /\ runState \in RunStates
  BY <1>1, WaitFacts DEF TypeOK, ServerType
<1> QED
  BY <1>1, <1>2, <1>3, <1>4 DEF NodeInv, PreDoneInv

\* Only scale.iaas.done ends a wait.
LEMMA WaitingStays ==
  ASSUME WaitsToTheEnd, IInv, ConclusionInv, WaitsInv, NEW n \in Nodes, NEW m \in Nodes,
         NodeStep(m) \/ VmDown(m) \/ VmSigterm(m)
  PROVE  Waiting(n) => Waiting(n)' \/ iaasDone[n]
<1>1. TypeOK /\ NodeInv(n) /\ PreDoneInv(n)
  BY WaitFacts
<1> USE <1>1 DEF Waiting
<1>2. CASE m # n
  BY <1>2, OtherNode DEF SameNode
<1>3. CASE m = n
  <2> USE DEF TypeOK, NodeType, RtpType, NodeInv, PreDoneInv, Goto, NewState, Fail, Unsettled, rtps
  <2>1. CASE VmDown(n) \/ VmBoot(n) \/ VmSigterm(n)
    BY <2>1, NobodyLeaves DEF VmDown, VmBoot
  <2>2. CASE NodeProvisioning(n) \/ NodePreScale(n) \/ NodeSetPreScaleDone(n)
    BY <2>2 DEF NodeProvisioning, NodePreScale, NodeSetPreScaleDone
  <2>3. CASE NodeSeeIaasDone(n) \/ NodeUnsetPreScaleDone(n)
    BY <2>3 DEF NodeSeeIaasDone, NodeUnsetPreScaleDone
  <2>4. CASE NodePostScale(n) \/ NodeSetScaleActionDone(n)
    BY <2>4 DEF NodePostScale, NodeSetScaleActionDone
  <2>5. CASE NodeExecuting(n) \/ NodeSendingReports(n) \/ NodeReady(n) \/ NodePoll(n)
    BY <2>5 DEF NodeExecuting, NodeSendingReports, NodeReady, NodePoll
  <2>6. CASE NodeReports(n) \/ NodeComplete(n)
    BY <2>6 DEF NodeReports, NodeComplete, PollAgain
  <2> QED
    BY <1>3, <2>1, <2>2, <2>3, <2>4, <2>5, <2>6 DEF NodeStep
<1> QED
  BY <1>2, <1>3

\* What the orchestrator decides about the request is not about the tasks.
LEMMA WaitClassified ==
  ASSUME IInv, ConclusionInv, WaitsInv, NEW n \in Nodes, OrchClassify \/ OrchSelect
  PROVE  WaitInv(n)'
<1>1. TypeOK /\ InTime /\ OrchInv /\ WaitInv(n) /\ \A r \in Rounds : JobInv(r, n)
  BY WaitFacts
<1>2. /\ UNCHANGED <<runState, round, iaasDone, job, iaas, preDone, nPc, oAt>>
      /\ oPc \in {"classify", "select"} /\ oPc' \in {"select", "wait_pre", "complete"}
      /\ oSeen' = {}
  BY <1>1 DEF OrchClassify, OrchSelect, OrchFail, OrchNext, OrchInv, rtps, nodes, tasks, hist
<1>3. Stuck' = Stuck /\ Waiting(n)' = Waiting(n)
  BY <1>2 DEF Stuck, Waiting
<1>4. OrchOver /\ Stuck => (OrchOver /\ Stuck)'
  BY <1>2, <1>3 DEF OrchOver
<1>5. NotAsked
  BY <1>2 DEF NotAsked
<1> QED
  BY <1>1, <1>2, <1>3, <1>4, <1>5 DEF WaitInv

LEMMA WaitStable ==
  ASSUME WaitsToTheEnd, IInv, ConclusionInv, WaitsInv, [Next]_vars, NEW n \in Nodes
  PROVE  WaitInv(n)'
<1>1. /\ TypeOK /\ CliInv /\ OrchInv /\ ServedInv /\ NodeInv(n) /\ PreDoneInv(n)
      /\ HandshakeInv(n) /\ (\A r \in Rounds : JobInv(r, n)) /\ WaitInv(n) /\ AppliedInv(n)
      /\ InTime /\ round \in Nat /\ iaas[n] \in Nat /\ Rounds \subseteq Nat
  BY WaitFacts
<1> USE <1>1 DEF WaitInv, Waiting, OrchOver, NotAsked
<1>2. CASE CliStep
  <2>1. CASE CliSetProvisioning
    BY <2>1 DEF CliSetProvisioning, CliInv, OrchInv, Active, Settled, HandshakeInv,
       rtps, nodes, orch, tasks, hist, Stuck
  <2>2. CASE ~ CliSetProvisioning
    BY <1>2, <2>2, UsersLeave DEF CliStep, CliCheck, CliSetScaleState,
       CliInterrupted, nodes, rtps, orch, tasks, hist, server, Stuck
  <2> QED
    BY <2>1, <2>2
<1>3. CASE CancelAbort
  BY <1>3, UsersLeave DEF CancelAbort, nodes, rtps, orch, tasks, hist, Stuck
<1>4. CASE ServerStep
  <2>1. CASE ServerAbort
    BY <2>1 DEF ServerAbort, nodes, rtps, orch, tasks, hist, Stuck
  <2>2. CASE ServerAdvance
    <3>1. ~ Stuck
      BY <2>2, NobodyStuck
    <3>2. oPc = "poll"
      BY <2>2 DEF ServerAdvance, InTime
    <3>3. runState' # "Provisioning"
      BY <2>2 DEF ServerAdvance, Counts, NextState
    <3> QED
      BY <2>2, <3>1, <3>2, <3>3 DEF ServerAdvance, nodes, rtps, orch, tasks, hist
  <2> QED
    BY <1>4, <2>1, <2>2 DEF ServerStep
<1>5. CASE OrchStep
  <2> USE OrchLeaves DEF OrchFail, OrchNext, OrchNewState, InTime, TypeOK, RtpType, TaskType, OrchType,
      server, rtps, tasks, hist, nodes, Stuck
  <2>1. CASE OrchProvisioning
    BY <2>1 DEF OrchProvisioning
  <2>2. CASE OrchClassify \/ OrchSelect
    BY <2>2, WaitClassified
  <2>3. CASE OrchRequestIaas
    BY <2>3 DEF OrchRequestIaas, ServedInv, AllSeen
  <2>4. CASE OrchIaasDone
    BY <2>4 DEF OrchIaasDone, ServedInv
  <2>5. CASE OrchTimeout
    BY <2>5, NobodyLeaves
  <2>6. CASE OrchIaasFailed
    BY <2>6 DEF OrchIaasFailed, ServedInv
  <2>7. CASE OrchScaled
    BY <2>7 DEF OrchScaled
  <2>8. CASE OrchSendingReports \/ OrchReady \/ OrchComplete \/ OrchExecuting
    BY <2>8 DEF OrchSendingReports, OrchReady, OrchComplete, OrchExecuting, InStep, Active, Settled
  <2>9. ASSUME NEW m \in Nodes, OrchSeePreScaleDone(m)
        PROVE WaitInv(n)'
    BY <2>9 DEF OrchSeePreScaleDone, AppliedInv
  <2>10. ASSUME NEW m \in Nodes, OrchSeeScaleActionDone(m)
        PROVE WaitInv(n)'
    BY <2>10 DEF OrchSeeScaleActionDone
  <2>11. ASSUME NEW m \in Nodes, OrchUnsetIaasDone(m) PROVE WaitInv(n)'
    BY <2>11 DEF OrchUnsetIaasDone
  <2> QED
    BY <1>5, <2>1, <2>2, <2>3, <2>4, <2>5, <2>6, <2>7, <2>8, <2>9, <2>10, <2>11 DEF OrchStep
<1>6. ASSUME NEW m \in Nodes, NodeStep(m) \/ VmDown(m) \/ VmSigterm(m) PROVE WaitInv(n)'
  <2>1. UNCHANGED <<runState, round, oDone, orch, tasks, iaas, iaasDone>>
    BY <1>6, NodesLeave, NodesLeaveMore
  <2>2. Waiting(n) => Waiting(n)' \/ iaasDone[n]
    BY <1>6, WaitingStays
  <2>3. Stuck' = Stuck
    BY <2>1 DEF Stuck, tasks
  <2>4. \A r \in Rounds : job[r][n] \in {"running", "applied", "failed"} => ~ iaasDone[n]
    OBVIOUS
  <2>5. oPc = "wait_pre" => ~ iaasDone[n]
    OBVIOUS
  <2> HIDE DEF Waiting, Stuck
  <2> QED
    BY <2>1, <2>2, <2>3, <2>4, <2>5 DEF orch, tasks
<1>7. ASSUME NEW r \in Rounds, NEW m \in Nodes, JobStep(r, m) PROVE WaitInv(n)'
  <2> USE DEF TypeOK, TaskType, RtpType, HistType, SetJob, server, orch, rtps, hist, nodes
  <2>1. WaitInv(m) /\ \A q \in Rounds : JobInv(q, m)
    BY WaitFacts
  <2>2. Stuck => Stuck'
    BY <1>7 DEF JobStep, JobApply, JobFail, JobReport, JobReportDevice, MayReport, AfterReport, Stuck,
       ServedInv, Active
  <2>3. CASE JobApply(r, m)
    BY <2>1, <2>2, <2>3 DEF JobApply
  <2>4. CASE JobFail(r, m)
    BY <2>1, <2>2, <2>4 DEF JobFail
  <2>5. CASE JobReport(r, m)
    BY <2>1, <2>2, <2>5 DEF JobReport, MayReport, AfterReport
  <2>6. CASE JobReportDevice(r, m)
    BY <2>1, <2>2, <2>6 DEF JobReportDevice
  <2> QED
    BY <1>7, <2>3, <2>4, <2>5, <2>6 DEF JobStep
<1>8. CASE UNCHANGED vars
  BY <1>8 DEF vars, server, rtps, orch, tasks, hist, nodes, Stuck
<1> QED
  BY <1>2, <1>3, <1>4, <1>5, <1>6, <1>7, <1>8 DEF Next, Quiet

\* A VM goes down only while it waits, which is before its executor completed.
LEMMA NobodyRepeats ==
  ASSUME WaitsToTheEnd, IInv, ConclusionInv, WaitsInv, [Next]_vars
  PROVE  credited' = {} /\ terminated' = {}
<1>1. credited = {} /\ terminated = {}
  BY DEF WaitsInv
<1>2. CASE CliStep \/ CancelAbort
  BY <1>1, <1>2, NobodyLate DEF CliStep, CliCheck, CliSetScaleState, CliInterrupted, CancelAbort, hist
<1>3. CASE ServerStep
  BY <1>1, <1>3, ServerLeaves DEF hist
<1>4. CASE OrchStep
  BY <1>1, <1>4, OrchLeaves DEF hist
<1>5. ASSUME NEW m \in Nodes, VmDown(m) PROVE credited' = {} /\ terminated' = {}
  <2>1. PICK r \in Rounds : job[r][m] = "running"
    BY <1>5, NobodyLeaves
  <2>2. Waiting(m) /\ NodeInv(m) /\ PreDoneInv(m) /\ runState \in RunStates
    BY <2>1, WaitFacts DEF WaitInv, TypeOK, ServerType
  <2>3. m \notin nDone
    BY <2>2 DEF Waiting, NodeInv, PreDoneInv
  <2> QED
    BY <1>1, <1>5, <2>3 DEF VmDown
<1>6. ASSUME NEW m \in Nodes, NodeStep(m) \/ VmSigterm(m)
      PROVE credited' = {} /\ terminated' = {}
  BY <1>1, <1>6, NobodyLeaves DEF NodeStep, NodeProvisioning, NodePreScale, NodeSetPreScaleDone,
     NodeSeeIaasDone, NodeUnsetPreScaleDone, NodePostScale, NodeSetScaleActionDone,
     NodeExecuting, NodeSendingReports, NodeReady, NodePoll, NodeReports, NodeComplete, VmBoot, hist
<1>7. ASSUME NEW r \in Rounds, NEW m \in Nodes, JobStep(r, m)
      PROVE credited' = {} /\ terminated' = {}
  BY <1>1, <1>7, TasksLeave
<1>8. CASE UNCHANGED vars
  BY <1>1, <1>8 DEF vars, hist
<1> QED
  BY <1>2, <1>3, <1>4, <1>5, <1>6, <1>7, <1>8 DEF Next, Quiet

LEMMA WaitsStable ==
  ASSUME WaitsToTheEnd, IInv, ConclusionInv, WaitsInv, [Next]_vars
  PROVE  WaitsInv'
<1>1. ASSUME NEW n \in Nodes PROVE WaitInv(n)' /\ AppliedInv(n)'
  <2>1. WaitInv(n) /\ AppliedInv(n)
    BY DEF WaitsInv
  <2> QED
    BY <2>1, WaitStable, AppliedStable DEF WaitInv
<1> QED
  BY <1>1, NobodyRepeats DEF WaitsInv

\* Where every wait ends with what it waits for or not at all, nobody completes
\* Provisioning while an action is still to be applied to its VM.
THEOREM WaitsInvariance == WaitsToTheEnd => (Spec => []WaitsInv)
<1> SUFFICES ASSUME WaitsToTheEnd PROVE Spec => []WaitsInv
  OBVIOUS
<1>1. Init => WaitsInv
  BY WaitsInit
<1>2. IInv /\ ConclusionInv /\ WaitsInv /\ [Next]_vars => WaitsInv'
  BY WaitsStable
<1> QED
  BY <1>1, <1>2, Invariance, ConclusionInvariance, PTL DEF Spec

\* An instance runs its postscale script only after the action of that round was
\* applied to its VM (wait_scale_iaas_done): scripts, restarts, signals and interrupted
\* commands do not matter, and what the orchestrator gives up only if the user resets
\* the abort flag and somebody is taken out of a wait as well.
THEOREM PostScaleSafe ==
  GivesUpForGood \/ WaitsToTheEnd => (Spec => []PostScaleAfterIaas)
<1>1. LeftsInv \/ WaitsInv => PostScaleAfterIaas
  BY DEF LeftsInv, WaitsInv, AppliedInv, PostScaleAfterIaas
<1>2. CASE GivesUpForGood
  BY <1>1, <1>2, LeftsInvariance, PTL
<1>3. CASE WaitsToTheEnd
  BY <1>1, <1>3, WaitsInvariance, PTL
<1> QED
  BY <1>2, <1>3

\* The run leaves Provisioning with pre.scale.done and scale.iaas.done of every
\* instance lowered again, for the next request to start from, unless an executor or the
\* orchestrator is taken out of a wait.
THEOREM HandshakeSafe == WaitsToTheEnd => (Spec => []HandshakeReset)
<1>1. ASSUME IInv, ConclusionInv, WaitsInv PROVE HandshakeReset
  <2>1. ASSUME NEW n \in Nodes, runState # "Provisioning" PROVE ~ preDone[n] /\ ~ iaasDone[n]
    BY <1>1, <2>1, WaitFacts DEF PreDoneInv, WaitInv, InTime, Stuck
  <2> QED
    BY <2>1 DEF HandshakeReset
<1>2. IInv /\ ConclusionInv /\ WaitsInv => HandshakeReset
  BY <1>1
<1>3. CASE WaitsToTheEnd
  BY <1>2, <1>3, Invariance, ConclusionInvariance, WaitsInvariance, PTL
<1> QED
  BY <1>3

-----------------------------------------------------------------------------
(* The handshake as its users see it. *)

\* An instance whose prescale script has ended waits for the action; one that the action
\* was applied to is waited for by the orchestrator until postscale has ended, or the
\* request never ends.
HalfwayInv(n) ==
  /\ pre[n] = round /\ iaas[n] < round =>
       runState = "Provisioning" /\ (nPc[n] = "set_pre" \/ Waiting(n))
  /\ iaas[n] = round /\ post[n] < round =>
       /\ runState = "Provisioning"
       /\ (oPc \in {"iaas", "wait_done"} /\ n \in oNodes) \/ (OrchOver /\ Stuck)

HalfwaysInv == \A n \in Nodes : HalfwayInv(n)

LEMMA HalfwayInit == ASSUME Init, NEW n \in Nodes PROVE HalfwayInv(n)
BY DEF Init, HalfwayInv

\* Scripts and action of an instance were last run in this order.
LEMMA HalfwayFacts ==
  ASSUME IInv, ConclusionInv, WaitsInv, NEW n \in Nodes
  PROVE  pre[n] \in Nat /\ pre[n] <= round /\ iaas[n] <= pre[n] /\ post[n] <= iaas[n]
BY WaitFacts DEF TypeOK, HistType, PreDoneInv, AppliedInv

LEMMA HalfwayStable ==
  ASSUME WaitsToTheEnd, IInv, ConclusionInv, WaitsInv, [Next]_vars, NEW n \in Nodes, HalfwayInv(n)
  PROVE  HalfwayInv(n)'
<1>1. /\ TypeOK /\ CliInv /\ OrchInv /\ ServedInv /\ NodeInv(n) /\ PreDoneInv(n)
      /\ (\A r \in Rounds : JobInv(r, n)) /\ WaitInv(n)
      /\ InTime /\ round \in Nat /\ iaas[n] \in Nat /\ post[n] \in Nat /\ Rounds \subseteq Nat
  BY WaitFacts
<1>2. pre[n] \in Nat /\ pre[n] <= round /\ iaas[n] <= pre[n] /\ post[n] <= iaas[n]
  BY HalfwayFacts
<1> USE <1>1, <1>2 DEF HalfwayInv, Waiting, OrchOver
<1>3. CASE CliStep
  <2>1. CASE CliSetProvisioning
    BY <2>1 DEF CliSetProvisioning, hist
  <2>2. CASE ~ CliSetProvisioning
    BY <1>3, <2>2, UsersLeave DEF CliStep, CliCheck, CliSetScaleState,
       CliInterrupted, nodes, orch, tasks, hist, server, Stuck
  <2> QED
    BY <2>1, <2>2
<1>4. CASE CancelAbort
  BY <1>4, UsersLeave DEF CancelAbort, nodes, orch, tasks, hist, Stuck
<1>5. CASE ServerStep
  <2>1. CASE ServerAbort
    BY <2>1 DEF ServerAbort, hist
  <2>2. CASE ServerAdvance
    <3>1. ~ Stuck /\ oDone /\ n \in nDone /\ UNCHANGED <<round, pre, iaas, post>>
      BY <2>2, NobodyStuck DEF ServerAdvance, hist
    <3>2. ~ (iaas[n] = round /\ post[n] < round)
      BY <3>1 DEF InTime
    <3>3. ~ (pre[n] = round /\ iaas[n] < round)
      BY <3>1 DEF NodeInv, PreDoneInv
    <3> QED
      BY <3>1, <3>2, <3>3
  <2> QED
    BY <1>5, <2>1, <2>2 DEF ServerStep
<1>6. CASE OrchStep
  <2> USE OrchLeaves DEF OrchFail, OrchNext, OrchNewState, InTime, server, tasks, hist, nodes, Stuck
  <2>1. CASE OrchProvisioning \/ OrchClassify \/ OrchSelect \/ OrchRequestIaas
    BY <1>6, <2>1 DEF OrchProvisioning, OrchClassify, OrchSelect, OrchRequestIaas, WaitInv, NotAsked
  <2>2. CASE OrchIaasDone \/ OrchScaled
    BY <1>6, <2>2 DEF OrchIaasDone, OrchScaled, AllSeen, ServedInv
  <2>3. CASE OrchTimeout
    BY <2>3, NobodyLeaves
  <2>4. CASE OrchIaasFailed
    BY <1>6, <2>4 DEF OrchIaasFailed, TypeOK, OrchType
  <2>5. CASE OrchSendingReports \/ OrchReady \/ OrchComplete \/ OrchExecuting
    BY <1>6, <2>5 DEF OrchSendingReports, OrchReady, OrchComplete, OrchExecuting, InStep, Active, Settled
  <2>6. ASSUME NEW m \in Nodes,
               OrchSeePreScaleDone(m) \/ OrchSeeScaleActionDone(m) \/ OrchUnsetIaasDone(m)
        PROVE  HalfwayInv(n)'
    BY <1>6, <2>6 DEF OrchSeePreScaleDone, OrchSeeScaleActionDone, OrchUnsetIaasDone, ServedInv
  <2> QED
    BY <1>6, <2>1, <2>2, <2>3, <2>4, <2>5, <2>6 DEF OrchStep
<1>7. ASSUME NEW m \in Nodes, NodeStep(m) \/ VmDown(m) \/ VmSigterm(m) PROVE HalfwayInv(n)'
  <2>1. UNCHANGED <<runState, round, oDone, orch, tasks, iaas, iaasDone>>
    BY <1>7, NodesLeave, NodesLeaveMore
  <2>2. Waiting(n) => Waiting(n)' \/ iaasDone[n]
    BY <1>7, WaitingStays
  <2>3. iaasDone[n] => iaas[n] = round
    BY DEF WaitInv, JobInv
  <2>4. Stuck' = Stuck
    BY <2>1 DEF Stuck, tasks
  <2>5. post'[n] = post[n] \/ post'[n] = round
    BY <1>7 DEF TypeOK, HistType, NodeStep, VmDown, VmSigterm, NodeProvisioning, NodePreScale,
       NodeSetPreScaleDone, NodeSeeIaasDone, NodeUnsetPreScaleDone, NodePostScale,
       NodeSetScaleActionDone, NodeExecuting, NodeSendingReports, NodeReady, NodePoll, NodeReports, NodeComplete,
       VmBoot, hist
  <2>6. \/ pre'[n] = pre[n] /\ (nPc[n] = "set_pre" => nPc'[n] = "set_pre" \/ Waiting(n)')
        \/ runState = "Provisioning" /\ nPc'[n] = "set_pre"
    <3>1. CASE m # n
      BY <1>7, <3>1, OtherNode DEF SameNode
    <3>2. CASE m = n
      <4> USE DEF TypeOK, NodeType, RtpType, HistType, NodeInv, PreDoneInv, Handshake, Goto, NewState,
          Fail, hist, rtps
      <4>1. CASE VmDown(n) \/ VmBoot(n) \/ VmSigterm(n)
        BY <4>1, NobodyLeaves DEF VmDown, VmBoot, WaitInv
      <4>2. CASE NodeProvisioning(n) \/ NodePreScale(n) \/ NodeSetPreScaleDone(n)
        BY <4>2 DEF NodeProvisioning, NodePreScale, NodeSetPreScaleDone, InStep
      <4>3. CASE NodeSeeIaasDone(n) \/ NodeUnsetPreScaleDone(n) \/ NodePostScale(n) \/ NodeSetScaleActionDone(n)
        BY <4>3 DEF NodeSeeIaasDone, NodeUnsetPreScaleDone, NodePostScale, NodeSetScaleActionDone
      <4>4. CASE \/ NodeExecuting(n) \/ NodeSendingReports(n) \/ NodeReady(n) \/ NodePoll(n)
                 \/ NodeReports(n) \/ NodeComplete(n)
        BY <4>4 DEF NodeExecuting, NodeSendingReports, NodeReady, NodePoll, NodeReports, NodeComplete, PollAgain
      <4> QED
        BY <1>7, <3>2, <4>1, <4>2, <4>3, <4>4 DEF NodeStep
    <3> QED
      BY <3>1, <3>2
  <2> HIDE DEF Waiting, Stuck
  <2> QED
    BY <2>1, <2>2, <2>3, <2>4, <2>5, <2>6 DEF orch
<1>8. ASSUME NEW r \in Rounds, NEW m \in Nodes, JobStep(r, m) PROVE HalfwayInv(n)'
  <2> USE DEF TypeOK, TaskType, HistType, SetJob, server, orch, rtps, hist, nodes
  <2>1. Stuck => Stuck'
    BY <1>8 DEF JobStep, JobApply, JobFail, JobReport, JobReportDevice, MayReport, AfterReport, Stuck,
       ServedInv, Active
  <2>2. CASE JobApply(r, m)
    BY <2>1, <2>2 DEF JobApply, WaitInv
  <2>3. CASE JobFail(r, m) \/ JobReport(r, m) \/ JobReportDevice(r, m)
    BY <2>1, <2>3 DEF JobFail, JobReport, JobReportDevice
  <2> QED
    BY <1>8, <2>2, <2>3 DEF JobStep
<1>9. CASE UNCHANGED vars
  BY <1>9 DEF vars, server, rtps, orch, tasks, hist, nodes, Stuck
<1> QED
  BY <1>3, <1>4, <1>5, <1>6, <1>7, <1>8, <1>9 DEF Next, Quiet

LEMMA HalfwaysStable ==
  ASSUME WaitsToTheEnd, IInv, ConclusionInv, WaitsInv, HalfwaysInv, [Next]_vars PROVE HalfwaysInv'
BY HalfwayStable DEF HalfwaysInv

\* Every instance that is half-way has somebody to wait for, in Provisioning.
THEOREM HalfwaysInvariance == WaitsToTheEnd => (Spec => []HalfwaysInv)
<1> SUFFICES ASSUME WaitsToTheEnd PROVE Spec => []HalfwaysInv
  OBVIOUS
<1>1. Init => HalfwaysInv
  BY HalfwayInit DEF HalfwaysInv
<1>2. IInv /\ ConclusionInv /\ WaitsInv /\ HalfwaysInv /\ [Next]_vars => HalfwaysInv'
  BY HalfwaysStable
<1>3. Spec => []WaitsInv
  BY WaitsInvariance
<1> QED
  BY <1>1, <1>2, <1>3, Invariance, ConclusionInvariance, PTL DEF Spec

\* When the abstract handshake is under way.
Requested == runState = "Provisioning"

\* A step that neither begins nor ends Provisioning, nor is one of the three on an
\* instance, is none for the users.
LEMMA Unseen ==
  ASSUME UNCHANGED <<round, pre, iaas, post>>, Requested' = Requested
  PROVE  UNCHANGED <<Requested, Stage>>
BY DEF Stage

\* One program's step on an instance takes it on by one stage.
LEMMA StageMoves ==
  ASSUME NEW n \in Nodes, NEW to, Requested, Requested' = Requested,
         \A m \in Nodes \ {n} : Stage'[m] = Stage[m], Stage'[n] = to
  PROVE  Handshaking!Move(n, Stage[n], to)
BY DEF Handshaking!Move, Stage, Requested

\* Each step of a program is one of the handshake's, or none.
LEMMA Refines ==
  ASSUME WaitsToTheEnd, IInv, ConclusionInv, WaitsInv, HalfwaysInv, [Next]_vars
  PROVE  [Handshaking!Next]_<<Requested, Stage>>
<1>1. TypeOK /\ CliInv /\ OrchInv /\ round \in Nat
  BY DEF IInv, TypeOK, ServerType
<1> USE <1>1
<1>2. CASE CliStep
  <2>1. CASE CliSetProvisioning
    <3>1. ~ Requested /\ Requested' /\ round' = round + 1 /\ UNCHANGED <<pre, iaas, post>>
      BY <2>1 DEF CliSetProvisioning, CliInv, Settled, Requested, hist
    <3>2. Stage' = [n \in Nodes |-> "untouched"]
      BY <3>1, WaitFacts, HalfwayFacts DEF Stage
    <3> QED
      BY <3>1, <3>2 DEF Handshaking!Next, Handshaking!Request, Requested
  <2>2. CASE ~ CliSetProvisioning
    BY <1>2, <2>2, UsersLeave, Unseen DEF CliStep, CliCheck, CliSetScaleState,
       CliInterrupted, hist, server, Requested
  <2> QED
    BY <2>1, <2>2
<1>3. CASE CancelAbort
  BY <1>3, UsersLeave, Unseen DEF CancelAbort, hist, Requested
<1>4. CASE ServerStep
  <2>1. UNCHANGED <<round, pre, iaas, post>>
    BY <1>4, ServerLeaves DEF hist
  <2>2. ~ Requested'
    BY <1>4 DEF ServerStep, ServerAdvance, ServerAbort, Counts, NextState, Requested
  <2>3. CASE ~ Requested
    BY <2>1, <2>2, <2>3, Unseen DEF Requested
  <2>4. CASE Requested
    <3>1. HalfwaysInv'
      BY HalfwaysStable
    <3>2. \A n \in Nodes : Stage[n] \notin {"prepared", "applied"}
      BY <2>1, <2>2, <3>1, WaitFacts, HalfwayFacts DEF HalfwaysInv, HalfwayInv, Stage, Requested
    <3> QED
      BY <2>1, <2>2, <2>4, <3>2 DEF Handshaking!Next, Handshaking!Conclude, Stage, Requested
  <2> QED
    BY <2>3, <2>4
<1>5. CASE OrchStep
  BY <1>5, OrchLeaves, Unseen DEF hist, Requested
<1>6. ASSUME NEW n \in Nodes, NodeStep(n) \/ VmDown(n) \/ VmSigterm(n)
      PROVE  [Handshaking!Next]_<<Requested, Stage>>
  <2>1. /\ NodeInv(n) /\ AppliedInv(n) /\ iaas[n] \in Nat /\ post[n] \in Nat
        /\ pre[n] \in Nat /\ pre[n] <= round /\ iaas[n] <= pre[n] /\ post[n] <= iaas[n]
    BY WaitFacts, HalfwayFacts
  <2>2. UNCHANGED <<round, iaas>> /\ Requested' = Requested
    BY <1>6, NodesLeave DEF Requested
  <2>3. CASE NodePreScale(n) /\ pre' # pre
    <3>1. Requested /\ pre' = [pre EXCEPT ![n] = round] /\ post' = post
      BY <2>1, <2>3 DEF NodePreScale, NodeInv, InStep, Handshake, Requested
    <3>2. pre[n] # round
      BY <2>3, <3>1 DEF TypeOK, HistType
    <3>3. Stage[n] = "untouched" /\ Stage'[n] = "prepared" /\ \A m \in Nodes \ {n} : Stage'[m] = Stage[m]
      BY <2>1, <2>2, <3>1, <3>2 DEF Stage, TypeOK, HistType
    <3> QED
      BY <2>2, <3>1, <3>3, StageMoves DEF Handshaking!Next
  <2>4. CASE NodePostScale(n) /\ post' # post
    <3>1. Requested /\ post' = [post EXCEPT ![n] = round] /\ pre' = pre /\ iaas[n] = round
      BY <2>1, <2>4 DEF NodePostScale, NodeInv, InStep, Handshake, Requested, AppliedInv
    <3>2. post[n] # round
      BY <2>4, <3>1 DEF TypeOK, HistType
    <3>3. Stage[n] = "applied" /\ Stage'[n] = "served" /\ \A m \in Nodes \ {n} : Stage'[m] = Stage[m]
      BY <2>1, <2>2, <3>1, <3>2 DEF Stage, TypeOK, HistType
    <3> QED
      BY <2>2, <3>1, <3>3, StageMoves DEF Handshaking!Next
  <2>5. CASE pre' = pre /\ post' = post
    BY <2>2, <2>5, Unseen
  <2>6. pre' = pre \/ NodePreScale(n)
    BY <1>6 DEF NodeStep, VmDown, VmSigterm, NodeProvisioning,
       NodeSetPreScaleDone, NodeSeeIaasDone, NodeUnsetPreScaleDone, NodePostScale,
       NodeSetScaleActionDone, NodeExecuting, NodeSendingReports, NodeReady, NodePoll, NodeReports, NodeComplete,
       VmBoot, hist
  <2>7. post' = post \/ NodePostScale(n)
    BY <1>6 DEF NodeStep, VmDown, VmSigterm, NodeProvisioning, NodePreScale,
       NodeSetPreScaleDone, NodeSeeIaasDone, NodeUnsetPreScaleDone,
       NodeSetScaleActionDone, NodeExecuting, NodeSendingReports, NodeReady, NodePoll, NodeReports, NodeComplete,
       VmBoot, hist
  <2> QED
    BY <2>3, <2>4, <2>5, <2>6, <2>7
<1>7. ASSUME NEW r \in Rounds, NEW n \in Nodes, JobStep(r, n)
      PROVE  [Handshaking!Next]_<<Requested, Stage>>
  <2>1. UNCHANGED <<round, pre, post>> /\ Requested' = Requested
    BY <1>7 DEF JobStep, JobApply, JobFail, JobReport, JobReportDevice, server, hist, Requested
  <2>2. CASE JobApply(r, n) /\ iaas' # iaas
    <3>1. /\ iaas[n] \in Nat /\ post[n] \in Nat /\ post[n] <= iaas[n]
          /\ WaitInv(n) /\ PreDoneInv(n)
      BY WaitFacts, HalfwayFacts
    <3>2. r = round /\ Requested /\ pre[n] = round
      BY <2>2, <3>1, WaitFacts, HalfwayFacts DEF JobApply, WaitInv, PreDoneInv, Requested
    <3>3. iaas[n] < round /\ iaas' = [iaas EXCEPT ![n] = round]
      BY <2>2, <3>1, <3>2 DEF JobApply, TypeOK, HistType
    <3>4. Stage[n] = "prepared" /\ Stage'[n] = "applied" /\ \A m \in Nodes \ {n} : Stage'[m] = Stage[m]
      BY <2>1, <3>1, <3>2, <3>3 DEF Stage, TypeOK, HistType
    <3> QED
      BY <2>1, <3>2, <3>4, StageMoves DEF Handshaking!Next
  <2>3. CASE iaas' = iaas
    BY <2>1, <2>3, Unseen
  <2>4. iaas' = iaas \/ JobApply(r, n)
    BY <1>7 DEF JobStep, JobFail, JobReport, JobReportDevice, hist
  <2> QED
    BY <2>2, <2>3, <2>4
<1>8. CASE UNCHANGED vars
  BY <1>8, Unseen DEF vars, server, hist, Requested
<1> QED
  BY <1>2, <1>3, <1>4, <1>5, <1>6, <1>7, <1>8 DEF Next, Quiet

\* The programs together are the handshake that users of vertical scaling rely on: in
\* each request prescale, action and postscale of an instance happen once and in this
\* order, and the run does not leave Provisioning while an instance is half-way.
THEOREM Implements == WaitsToTheEnd => (Spec => ImplementsHandshake)
<1> SUFFICES ASSUME WaitsToTheEnd PROVE Spec => ImplementsHandshake
  OBVIOUS
<1>1. Init => Handshaking!Init
  BY DEF Init, Handshaking!Init, Stage
<1>2. IInv /\ ConclusionInv /\ WaitsInv /\ HalfwaysInv /\ [Next]_vars
        => [Handshaking!Next]_<<runState = "Provisioning", Stage>>
  BY Refines DEF Requested
<1>3. Spec => []WaitsInv
  BY WaitsInvariance
<1>4. Spec => []HalfwaysInv
  BY HalfwaysInvariance
<1> QED
  BY <1>1, <1>2, <1>3, <1>4, Invariance, ConclusionInvariance, PTL
     DEF Spec, ImplementsHandshake, Handshaking!Spec
-----------------------------------------------------------------------------
(* The disks of a request, when scripts can be run as well. *)

ScriptsRun == WaitsToTheEnd /\ "script" \notin Faults

\* The command puts the instances of the request in the requested state, and the
\* orchestrator applies the action to those it finds in the state of that action.
RequestInv ==
  /\ cPc = "setting" => \A n \in cNodes \ cLeft : scaleState[n] = cAct
  /\ runState \in Active => cAct \in VerticalStates
  /\ oPc \in {"wait_pre", "iaas", "wait_done", "unset_iaas"} =>
       \A n \in oNodes : oCache[n] = action[round]

\* An instance of the request leaves the requested state, and Provisioning, only when the
\* requested action was applied to it.
RequestedInv(n) ==
  runState \in Active =>
    /\ runState = "Provisioning" => scaleState[n] = cAct \/ iaas[n] = round
    /\ oPc \notin {"poll", "complete"} => oCache[n] = cAct
    /\ job[round][n] # "none" => action[round] = cAct
    /\ runState = "Provisioning" /\ (n \in nDone \/ nPc[n] = "complete") => iaas[n] = round

\* An action is applied by the task of its round, which records the disk at last.
ActionInv(n) ==
  /\ runState \in Active /\ iaas[n] = round => job[round][n] \in {"applied", "reported", "done"}
  /\ round \in Rounds /\ job[round][n] = "done" /\ action[round] = "disk_attaching" => device[n] = round
  /\ nPc[n] = "reports" => runState # "Provisioning"

DeviceInv ==
  /\ RequestInv /\ DeviceRecorded
  /\ \A n \in Nodes : ActionInv(n)
  /\ \A n \in cNodes : RequestedInv(n)

LEMMA DeviceInit == ASSUME Init PROVE DeviceInv
BY DEF Init, DeviceInv, RequestInv, DeviceRecorded, ActionInv, RequestedInv, Active, Rounds

DeviceFacts == IInv /\ ConclusionInv /\ WaitsInv /\ DeviceInv

LEMMA OrchLeavesDevice == ASSUME OrchStep PROVE device' = device
BY DEF OrchStep, OrchProvisioning, OrchClassify, OrchSelect, OrchSeePreScaleDone,
   OrchTimeout, OrchRequestIaas, OrchIaasDone, OrchIaasFailed, OrchSeeScaleActionDone,
   OrchScaled, OrchUnsetIaasDone, OrchExecuting, OrchSendingReports, OrchReady, OrchComplete, rtps

LEMMA RequestStable == ASSUME DeviceFacts, [Next]_vars PROVE RequestInv'
<1>1. TypeOK /\ CliInv /\ OrchInv /\ ServedInv /\ RequestInv
  BY DEF DeviceFacts, IInv, ConclusionInv, DeviceInv
<1>2. \A m \in Nodes : NodeInv(m)
  BY WaitFacts DEF DeviceFacts
<1> USE <1>1 DEF RequestInv, Active
<1>3. CASE CliStep
  <2> USE DEF CliInv, OrchInv, Settled, Active, TypeOK, CliType, RtpType, rtps, orch, tasks, server
  <2>1. CASE CliCheck
    BY <2>1 DEF CliCheck
  <2>2. ASSUME NEW m \in Nodes, CliSetScaleState(m) PROVE RequestInv'
    BY <2>2 DEF CliSetScaleState
  <2>3. CASE CliSetProvisioning
    BY <2>3, ConstantsAssumption DEF CliSetProvisioning
  <2>4. CASE CliInterrupted
    BY <2>4 DEF CliInterrupted
  <2> QED
    BY <1>3, <2>1, <2>2, <2>3, <2>4 DEF CliStep
<1>4. CASE CancelAbort
  BY <1>4 DEF CancelAbort, rtps, cli, orch, tasks
<1>5. CASE ServerStep
  BY <1>5, ServerLeaves DEF ServerStep, ServerAdvance, ServerAbort, Counts, NextState, CliInv, Settled, rtps, cli,
     orch, tasks
<1>6. CASE OrchStep
  <2> USE OrchLeaves DEF OrchFail, OrchNext, OrchNewState, OrchInv, ServedInv, cli, tasks
  <2>1. CASE OrchProvisioning \/ OrchClassify \/ OrchExecuting \/ OrchSendingReports \/ OrchReady \/ OrchComplete
    BY <1>6, <2>1 DEF OrchProvisioning, OrchClassify, OrchExecuting, OrchSendingReports, OrchReady, OrchComplete
  <2>2. CASE OrchSelect
    BY <1>6, <2>2 DEF OrchSelect, TypeOK, TaskType
  <2>3. CASE OrchRequestIaas \/ OrchIaasDone \/ OrchScaled
    BY <1>6, <2>3 DEF OrchRequestIaas, OrchIaasDone, OrchScaled
  <2>4. CASE OrchTimeout \/ OrchIaasFailed
    BY <1>6, <2>4 DEF OrchTimeout, OrchIaasFailed
  <2>5. ASSUME NEW m \in Nodes,
               OrchSeePreScaleDone(m) \/ OrchSeeScaleActionDone(m) \/ OrchUnsetIaasDone(m)
        PROVE  RequestInv'
    BY <1>6, <2>5 DEF OrchSeePreScaleDone, OrchSeeScaleActionDone, OrchUnsetIaasDone
  <2> QED
    BY <1>6, <2>1, <2>2, <2>3, <2>4, <2>5 DEF OrchStep
<1>7. ASSUME NEW m \in Nodes, NodeStep(m) \/ VmDown(m) \/ VmSigterm(m) PROVE RequestInv'
  <2>1. cPc = "setting" => scaleState' = scaleState
    BY <1>2, <1>7 DEF CliInv, Settled, Active, InStep, Handshake, NodeInv, NodeStep, VmDown, VmSigterm, NodeProvisioning,
       NodePreScale, NodeSetPreScaleDone, NodeSeeIaasDone, NodeUnsetPreScaleDone, NodePostScale,
       NodeSetScaleActionDone, NodeExecuting, NodeSendingReports, NodeReady, NodePoll, NodeReports, NodeComplete, VmBoot, rtps
  <2> QED
    BY <1>7, <2>1, NodesLeave DEF cli, orch, tasks
<1>8. ASSUME NEW r \in Rounds, NEW m \in Nodes, JobStep(r, m) PROVE RequestInv'
  BY <1>8, TasksLeave DEF JobStep, JobApply, JobFail, JobReport, JobReportDevice, server, cli, orch
<1>9. CASE UNCHANGED vars
  BY <1>9 DEF vars, server, rtps, cli, orch, tasks
<1> QED
  BY <1>3, <1>4, <1>5, <1>6, <1>7, <1>8, <1>9 DEF Next, Quiet

\* What the executor of an instance does about the request.
LEMMA RequestedByNode ==
  ASSUME ScriptsRun, DeviceFacts, NEW n \in Nodes, NodeStep(n) \/ VmDown(n) \/ VmSigterm(n)
  PROVE  /\ n \in cNodes => RequestedInv(n)'
         /\ nPc'[n] = "reports" => runState # "Provisioning"
<1>1. /\ TypeOK /\ NodeInv(n) /\ AppliedInv(n) /\ PreDoneInv(n) /\ RequestInv
      /\ ActionInv(n) /\ (n \in cNodes => RequestedInv(n))
  BY WaitFacts DEF DeviceFacts, DeviceInv
<1>2. UNCHANGED <<runState, round, cAct, cNodes, oPc, oCache, action, job, iaas>>
  BY NodesLeave DEF orch, tasks, cli
<1>3. ~ VmSigterm(n) /\ ~ Fault("script")
  BY NobodyLeaves DEF ScriptsRun, Fault
<1> USE <1>1, <1>2, <1>3 DEF RequestedInv, ActionInv, RequestInv, AppliedInv, NodeInv, TypeOK, NodeType,
      RtpType, Handshake, Unsettled, Goto, NewState, Fail, server, rtps
<1>4. CASE VmDown(n) \/ VmBoot(n)
  BY <1>4 DEF VmDown, VmBoot
<1>5. CASE NodeProvisioning(n)
  BY <1>5 DEF NodeProvisioning, Active
<1>6. CASE NodePreScale(n)
  BY <1>6 DEF NodePreScale
<1>7. CASE NodeSetPreScaleDone(n) \/ NodeSeeIaasDone(n) \/ NodeUnsetPreScaleDone(n)
  BY <1>7 DEF NodeSetPreScaleDone, NodeSeeIaasDone, NodeUnsetPreScaleDone
<1>8. CASE NodePostScale(n)
  BY <1>8 DEF NodePostScale
<1>9. CASE NodeSetScaleActionDone(n)
  BY <1>9 DEF NodeSetScaleActionDone
<1>10. CASE NodeExecuting(n)
  BY <1>10 DEF NodeExecuting
<1>11. CASE NodeSendingReports(n) \/ NodeReady(n) \/ NodePoll(n) \/ NodeReports(n)
  BY <1>11 DEF NodeSendingReports, NodeReady, NodePoll, NodeReports, SetOperational
<1>12. CASE NodeComplete(n)
  BY <1>12 DEF NodeComplete, PollAgain
<1> QED
  BY <1>4, <1>5, <1>6, <1>7, <1>8, <1>9, <1>10, <1>11, <1>12 DEF NodeStep

LEMMA RequestedStable ==
  ASSUME ScriptsRun, DeviceFacts, [Next]_vars, NEW n \in cNodes'
  PROVE  RequestedInv(n)'
<1>1. TypeOK /\ CliInv /\ OrchInv /\ ServedInv /\ RequestInv /\ n \in Nodes
  <2>1. TypeOK'
    BY TypeStable DEF DeviceFacts, IInv
  <2> QED
    BY <2>1 DEF DeviceFacts, IInv, ConclusionInv, DeviceInv, TypeOK, CliType
<1>2. /\ NodeInv(n) /\ HandshakeInv(n) /\ WaitInv(n) /\ AppliedInv(n) /\ ActionInv(n)
      /\ (n \in cNodes => RequestedInv(n)) /\ \A r \in Rounds : JobInv(r, n)
      /\ round \in Nat /\ iaas[n] \in Nat /\ Rounds \subseteq Nat
  BY <1>1, WaitFacts DEF DeviceFacts, DeviceInv
<1> USE <1>1, <1>2 DEF RequestedInv, Active
<1>3. CASE CliStep
  <2> USE DEF CliInv, OrchInv, Settled, TypeOK, CliType, ServerType, rtps, orch, tasks, server, nodes, hist
  <2>1. CASE CliCheck \/ CliInterrupted
    BY <2>1 DEF CliCheck, CliInterrupted
  <2>2. ASSUME NEW m \in Nodes, CliSetScaleState(m) PROVE RequestedInv(n)'
    BY <2>2 DEF CliSetScaleState
  <2>3. CASE CliSetProvisioning
    <3>1. round' \in Rounds /\ scaleState[n] = cAct /\ runState \in Settled
      BY <2>3, ConstantsAssumption DEF CliSetProvisioning, RequestInv, Rounds
    <3>2. job[round'][n] = "none" /\ n \notin nDone'
      BY <2>3, <3>1 DEF CliSetProvisioning, JobInv
    <3> QED
      BY <2>3, <3>1, <3>2, NobodyLate DEF CliSetProvisioning, CompletingReady, NodeInv, InStep, ScriptsRun
  <2> QED
    BY <1>3, <2>1, <2>2, <2>3 DEF CliStep
<1>4. CASE CancelAbort
  BY <1>4 DEF CancelAbort, rtps, cli, orch, tasks, nodes, hist
<1>5. CASE ServerStep
  BY <1>5, ServerLeaves DEF ServerStep, ServerAdvance, ServerAbort, Counts, NextState, OrchInv, rtps, cli, orch,
     tasks, nodes, hist
<1>6. CASE OrchStep
  <2> USE OrchLeaves DEF OrchFail, OrchNext, OrchNewState, OrchInv, ServedInv, cli, tasks, nodes, hist
  <2>1. CASE OrchProvisioning
    BY <1>6, <2>1 DEF OrchProvisioning, WaitInv, NotAsked
  <2>2. CASE OrchClassify \/ OrchExecuting \/ OrchSendingReports \/ OrchReady \/ OrchComplete
    BY <1>6, <2>2 DEF OrchClassify, OrchExecuting, OrchSendingReports, OrchReady, OrchComplete
  <2>3. CASE OrchSelect
    <3>1. job[round][n] = "none"
      BY <2>3 DEF OrchSelect, WaitInv, NotAsked, OrchOver, JobInv, TypeOK, TaskType, JobStates
    <3> QED
      BY <1>6, <2>3, <3>1 DEF OrchSelect
  <2>4. CASE OrchRequestIaas
    BY <1>6, <2>4 DEF OrchRequestIaas, RequestInv, TypeOK, TaskType
  <2>5. CASE OrchIaasDone \/ OrchScaled \/ OrchTimeout \/ OrchIaasFailed
    BY <1>6, <2>5 DEF OrchIaasDone, OrchScaled, OrchTimeout, OrchIaasFailed
  <2>6. ASSUME NEW m \in Nodes,
               OrchSeePreScaleDone(m) \/ OrchSeeScaleActionDone(m) \/ OrchUnsetIaasDone(m)
        PROVE  RequestedInv(n)'
    BY <1>6, <2>6 DEF OrchSeePreScaleDone, OrchSeeScaleActionDone, OrchUnsetIaasDone
  <2> QED
    BY <1>6, <2>1, <2>2, <2>3, <2>4, <2>5, <2>6 DEF OrchStep
<1>7. ASSUME NEW m \in Nodes, m # n, NodeStep(m) \/ VmDown(m) \/ VmSigterm(m) PROVE RequestedInv(n)'
  BY <1>7, NodesLeave, OtherHandshake DEF SameHandshake, cli, orch, tasks
<1>8. CASE NodeStep(n) \/ VmDown(n) \/ VmSigterm(n)
  BY <1>8, RequestedByNode, NodesLeave DEF cli
<1>9. ASSUME NEW r \in Rounds, NEW m \in Nodes, JobStep(r, m) PROVE RequestedInv(n)'
  <2>1. UNCHANGED <<runState, round, nDone, scaleState, nPc, oPc, oCache, action, cAct, cNodes>>
    BY <1>9, TasksLeave DEF JobStep, JobApply, JobFail, JobReport, JobReportDevice, server, cli, orch,
       nodes, rtps
  <2>2. iaas[n] = round => iaas'[n] = round
    <3>1. r \in Nat /\ (job[r][n] # "none" => r <= round)
      BY DEF JobInv
    <3>2. iaas'[n] = iaas[n] \/ (job[r][n] = "running" /\ iaas'[n] = IF r > iaas[n] THEN r ELSE iaas[n])
      BY <1>9 DEF JobStep, JobApply, JobFail, JobReport, JobReportDevice, TypeOK, HistType, hist
    <3> QED
      BY <3>1, <3>2
  <2>3. runState \in Active /\ job'[round][n] # "none" => job[round][n] # "none"
    BY <1>9 DEF JobStep, JobApply, JobFail, JobReport, JobReportDevice, MayReport, SetJob, TypeOK,
       TaskType, ServedInv
  <2> QED
    BY <2>1, <2>2, <2>3
<1>10. CASE UNCHANGED vars
  BY <1>10 DEF vars, server, rtps, cli, orch, tasks, nodes, hist
<1> QED
  BY <1>3, <1>4, <1>5, <1>6, <1>7, <1>8, <1>9, <1>10 DEF Next, Quiet

LEMMA ActionStable ==
  ASSUME ScriptsRun, DeviceFacts, [Next]_vars, NEW n \in Nodes
  PROVE  ActionInv(n)'
<1>1. /\ TypeOK /\ CliInv /\ OrchInv /\ ServedInv /\ NodeInv(n) /\ HandshakeInv(n) /\ WaitInv(n)
      /\ ActionInv(n) /\ (\A r \in Rounds : JobInv(r, n))
      /\ round \in Nat /\ iaas[n] \in Nat /\ Rounds \subseteq Nat
  BY WaitFacts DEF DeviceFacts, DeviceInv
<1> USE <1>1 DEF ActionInv, Active
<1>2. CASE CliStep
  <2>1. CASE CliSetProvisioning
    BY <2>1 DEF CliSetProvisioning, CliInv, Settled, HandshakeInv, JobInv, NodeInv, InStep,
       rtps, nodes, orch, tasks, hist
  <2>2. CASE ~ CliSetProvisioning
    BY <1>2, <2>2, UsersLeave DEF CliStep, CliCheck, CliSetScaleState,
       CliInterrupted, nodes, rtps, tasks, hist, server
  <2> QED
    BY <2>1, <2>2
<1>3. CASE CancelAbort
  BY <1>3, UsersLeave DEF CancelAbort, nodes, rtps, tasks, hist
<1>4. CASE ServerStep
  BY <1>4, ServerLeaves DEF ServerStep, ServerAdvance, ServerAbort, Counts, NextState, rtps, tasks, nodes, hist
<1>5. CASE OrchStep
  <2> USE OrchLeaves DEF OrchFail, OrchNext, OrchNewState, OrchInv, ServedInv, tasks, nodes, hist
  <2>1. CASE OrchSelect
    <3>1. job[round][n] = "none"
      BY <2>1 DEF OrchSelect, WaitInv, NotAsked, OrchOver, JobInv, TypeOK, TaskType, JobStates
    <3> QED
      BY <1>5, <2>1, <3>1 DEF OrchSelect, rtps
  <2>2. CASE OrchRequestIaas
    BY <1>5, <2>2 DEF OrchRequestIaas, WaitInv, NotAsked, TypeOK, TaskType, rtps
  <2>3. CASE ~ OrchSelect /\ ~ OrchRequestIaas
    BY <1>5, <2>3 DEF OrchStep, OrchProvisioning, OrchClassify, OrchSeePreScaleDone,
       OrchTimeout, OrchIaasDone, OrchIaasFailed, OrchSeeScaleActionDone,
       OrchScaled, OrchUnsetIaasDone, OrchExecuting, OrchSendingReports, OrchReady, OrchComplete, rtps
  <2> QED
    BY <2>1, <2>2, <2>3
<1>6. ASSUME NEW m \in Nodes, m # n, NodeStep(m) \/ VmDown(m) \/ VmSigterm(m) PROVE ActionInv(n)'
  BY <1>6, NodesLeave, NodesLeaveMore, OtherHandshake DEF SameHandshake, tasks
<1>7. CASE NodeStep(n) \/ VmDown(n) \/ VmSigterm(n)
  BY <1>7, RequestedByNode, NodesLeave, NodesLeaveMore DEF tasks
<1>8. ASSUME NEW r \in Rounds, NEW m \in Nodes, JobStep(r, m) PROVE ActionInv(n)'
  <2> USE DEF TypeOK, TaskType, RtpType, HistType, SetJob, server, rtps, hist, nodes, ServedInv
  <2>1. WaitInv(m)
    BY WaitFacts DEF DeviceFacts
  <2>2. CASE JobApply(r, m)
    BY <2>1, <2>2 DEF JobApply, WaitInv
  <2>3. CASE JobFail(r, m)
    BY <2>1, <2>3 DEF JobFail
  <2>4. CASE JobReport(r, m)
    BY <2>1, <2>4 DEF JobReport, MayReport, AfterReport
  <2>5. CASE JobReportDevice(r, m)
    BY <2>1, <2>5 DEF JobReportDevice, WaitInv
  <2> QED
    BY <1>8, <2>2, <2>3, <2>4, <2>5 DEF JobStep
<1>9. CASE UNCHANGED vars
  BY <1>9 DEF vars, server, rtps, tasks, nodes, hist
<1> QED
  BY <1>2, <1>3, <1>4, <1>5, <1>6, <1>7, <1>8, <1>9 DEF Next, Quiet

\* The run leaves Provisioning when every task of the round has recorded its disk, and
\* none is recorded before it comes back.
LEMMA RecordedStable == ASSUME ScriptsRun, DeviceFacts, [Next]_vars PROVE DeviceRecorded'
<1>1. /\ TypeOK /\ CliInv /\ OrchInv /\ ServedInv /\ DeviceRecorded
      /\ (\A m \in cNodes : RequestedInv(m)) /\ (\A m \in Nodes : ActionInv(m)) /\ InTime
  BY OrchInTime DEF DeviceFacts, IInv, ConclusionInv, DeviceInv, WaitsInv
<1> USE <1>1 DEF DeviceRecorded
<1>2. CASE CliStep
  BY <1>2 DEF CliStep, CliCheck, CliSetScaleState, CliSetProvisioning, CliInterrupted, rtps, server
<1>3. CASE CancelAbort
  BY <1>3 DEF CancelAbort, rtps, cli
<1>4. CASE ServerStep
  <2>1. CASE ServerAbort
    BY <2>1 DEF ServerAbort
  <2>2. CASE ServerAdvance /\ runState # "Provisioning"
    BY <2>2 DEF ServerAdvance, Counts, NextState
  <2>3. CASE ServerAdvance /\ runState = "Provisioning"
    <3>1. SUFFICES ASSUME NEW n \in cNodes, cAct = "disk_attaching" PROVE device[n] = round
      BY <2>3 DEF ServerAdvance, rtps, cli
    <3>2. n \in Nodes /\ n \in nDone /\ round \in Rounds /\ oDone /\ oPc = "poll"
      BY <2>3, <3>1 DEF ServerAdvance, TypeOK, CliType, ServedInv, InTime, Active
    <3>3. iaas[n] = round /\ job[round][n] \in {"applied", "reported", "done"}
      BY <2>3, <3>1, <3>2 DEF RequestedInv, ActionInv, Active
    <3>4. ~ Stuck
      BY <2>3, NobodyStuck DEF DeviceFacts
    <3>5. job[round][n] = "done"
      BY <3>2, <3>3, <3>4, WaitFacts DEF DeviceFacts, WaitInv
    <3>6. action[round] = "disk_attaching"
      BY <2>3, <3>1, <3>5 DEF RequestedInv, Active
    <3> QED
      BY <3>2, <3>5, <3>6 DEF ActionInv
  <2> QED
    BY <1>4, <2>1, <2>2, <2>3 DEF ServerStep
<1>5. CASE OrchStep
  BY <1>5, OrchLeaves, OrchLeavesDevice DEF cli
<1>6. ASSUME NEW m \in Nodes, NodeStep(m) \/ VmDown(m) \/ VmSigterm(m) PROVE DeviceRecorded'
  BY <1>6, NodesLeave, NodesLeaveMore DEF cli
<1>7. ASSUME NEW r \in Rounds, NEW m \in Nodes, JobStep(r, m) PROVE DeviceRecorded'
  <2>1. CASE JobReportDevice(r, m)
    BY <2>1, WaitFacts DEF JobReportDevice, DeviceFacts, WaitInv, server
  <2>2. CASE ~ JobReportDevice(r, m)
    BY <1>7, <2>2 DEF JobStep, JobApply, JobFail, JobReport, server, rtps, cli
  <2> QED
    BY <2>1, <2>2
<1>8. CASE UNCHANGED vars
  BY <1>8 DEF vars, server, rtps, cli
<1> QED
  BY <1>2, <1>3, <1>4, <1>5, <1>6, <1>7, <1>8 DEF Next, Quiet

LEMMA DeviceStable == ASSUME ScriptsRun, DeviceFacts, [Next]_vars PROVE DeviceInv'
<1>1. \A n \in Nodes : ActionInv(n)'
  BY ActionStable
<1>2. \A n \in cNodes' : RequestedInv(n)'
  BY RequestedStable
<1> QED
  BY <1>1, <1>2, RequestStable, RecordedStable DEF DeviceInv

\* Where scripts run and nobody is taken out of a wait, what the orchestrator applies to
\* the instances of a request is what was requested, and the tasks that applied it are
\* known for each of them.
THEOREM DeviceInvariance == ScriptsRun => (Spec => []DeviceInv)
<1> SUFFICES ASSUME ScriptsRun PROVE Spec => []DeviceInv
  OBVIOUS
<1>1. WaitsToTheEnd
  BY DEF ScriptsRun
<1>2. Init => DeviceInv
  BY DeviceInit
<1>3. IInv /\ ConclusionInv /\ WaitsInv /\ DeviceInv /\ [Next]_vars => DeviceInv'
  BY DeviceStable DEF DeviceFacts
<1>4. Spec => []WaitsInv
  BY <1>1, WaitsInvariance
<1> QED
  BY <1>2, <1>3, <1>4, Invariance, ConclusionInvariance, PTL DEF Spec

\* When the instances move on to Executing, every instance a disk was requested for has
\* the RTP that names the disk attached in this very request (set_attached_disk, the last
\* step of the IaaS task): with IaaS actions that fail, aborts that are cancelled,
\* restarts that the action asks for, and commands that are interrupted.
THEOREM DeviceSafe == ScriptsRun => (Spec => []DeviceRecorded)
<1>1. DeviceInv => DeviceRecorded
  BY DEF DeviceInv
<1> QED
  BY <1>1, DeviceInvariance, PTL
=============================================================================
