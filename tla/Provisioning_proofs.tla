------------------------- MODULE Provisioning_proofs -------------------------
(***************************************************************************)
(* Theorems about Provisioning, for every set of instances, of faults and  *)
(* for every bound: type correctness, three safety properties from one     *)
(* inductive invariant, IInv, and three more from invariants relative to   *)
(* it that follow what the orchestrator knows of the round it is in.       *)
(***************************************************************************)
EXTENDS Provisioning, FiniteSetTheorems, TLAPS

-----------------------------------------------------------------------------
(* Type correctness *)

\* Sets of instances have a size.
LEMMA Sizes == ASSUME NEW S \in SUBSET Instances PROVE Cardinality(S) \in Nat
BY ProvisioningAssumption, FS_Subset, FS_CardinalityType

\* What the orchestrator works with, cached or fetched, are scale states.
LEMMA ViewType == ASSUME TypeOK PROVE View \in [Instances -> ScaleStates]
BY DEF TypeOK, ServerType, OrchType, View

LEMMA TypeInit == ASSUME Init PROVE TypeOK
<1>1. asked \subseteq Instances /\ Cardinality(asked) \in Nat
  BY Sizes DEF Init
<1>2. FlagType
  BY DEF Init, FlagType
<1>3. requested \in Nat
  BY <1>1 DEF Init
<1>4. ServerType
  BY <1>3 DEF Init, ServerType, RunStates, ScaleStates
<1>5. NodeType
  BY DEF Init, NodeType, VmStates, NodePcs, RunStates
<1>6. OrchType
  BY DEF Init, OrchType, OrchPcs, RunStates
<1>7. HistType
  BY <1>1, <1>3 DEF Init, HistType
<1> QED
  BY <1>2, <1>4, <1>5, <1>6, <1>7 DEF TypeOK

LEMMA TypeServer == ASSUME TypeOK, ServerAdvance PROVE TypeOK'
<1>1. FlagType'
  BY DEF TypeOK, FlagType, ServerAdvance, rtps, orch, tasks, hist
<1>2. ServerType'
  BY DEF TypeOK, ServerType, ServerAdvance, rtps, NextState, Handlers, RunStates
<1>3. NodeType' /\ OrchType' /\ HistType'
  BY DEF TypeOK, NodeType, OrchType, HistType, ServerAdvance, nodes, orch, tasks, hist
<1> QED
  BY <1>1, <1>2, <1>3 DEF TypeOK

LEMMA TypeUser == ASSUME TypeOK, UserStep PROVE TypeOK'
<1> USE DEF server, rtps, nodes, orch, tasks, hist
<1>1. ASSUME NEW S \in SUBSET Instances, NEW t \in 0 .. Cardinality(S), NodeAdd(S, t)
      PROVE  TypeOK'
  <2>1. t \in Nat
    BY Sizes
  <2>2. FlagType'
    BY <1>1 DEF TypeOK, FlagType, NodeAdd, StartProvisioning
  <2>3. ServerType'
    BY <1>1, <2>1 DEF TypeOK, ServerType, NodeAdd, StartProvisioning, RunStates, ScaleStates
  <2>4. NodeType' /\ OrchType'
    BY <1>1 DEF TypeOK, NodeType, OrchType, NodeAdd
  <2>5. HistType'
    BY <1>1, <2>1 DEF TypeOK, HistType, NodeAdd, StartProvisioning
  <2> QED
    BY <2>2, <2>3, <2>4, <2>5 DEF TypeOK
<1>2. ASSUME NEW S \in SUBSET Instances, NodeRemove(S) PROVE TypeOK'
  <2>1. FlagType'
    BY <1>2 DEF TypeOK, FlagType, NodeRemove, StartProvisioning
  <2>2. ServerType'
    BY <1>2 DEF TypeOK, ServerType, NodeRemove, StartProvisioning, RunStates, ScaleStates
  <2>3. NodeType' /\ OrchType'
    BY <1>2 DEF TypeOK, NodeType, OrchType, NodeRemove
  <2>4. HistType'
    BY <1>2 DEF TypeOK, HistType, NodeRemove, StartProvisioning
  <2> QED
    BY <2>1, <2>2, <2>3, <2>4 DEF TypeOK
<1>3. CASE SetTolerance
  <2>1. FlagType'
    BY <1>3 DEF TypeOK, FlagType, SetTolerance
  <2>2. (ServerType /\ NodeType /\ OrchType /\ HistType)'
    BY <1>3 DEF TypeOK, ServerType, NodeType, OrchType, HistType, SetTolerance
  <2> QED
    BY <2>1, <2>2 DEF TypeOK
<1>4. CASE UserAborts \/ CancelAbort
  <2>1. FlagType'
    BY <1>4 DEF TypeOK, FlagType, UserAborts, CancelAbort
  <2>2. (ServerType /\ NodeType /\ OrchType /\ HistType)'
    BY <1>4 DEF TypeOK, ServerType, NodeType, OrchType, HistType, UserAborts, CancelAbort,
                GoesWrong
  <2> QED
    BY <2>1, <2>2 DEF TypeOK
<1> QED
  BY <1>1, <1>2, <1>3, <1>4 DEF UserStep

\* Steps of one instance: its executor, its VM and its start task.
LEMMA TypeInstance ==
  ASSUME TypeOK, NEW i \in Instances,
         NodeStep(i) \/ NodeFails(i) \/ VmFails(i) \/ StartVm(i) \/ StartFails(i)
  PROVE  TypeOK'
<1> USE DEF server, rtps, nodes, orch, tasks, hist
<1>1. CASE NodeNextState(i)
  <2>1. FlagType'
    BY <1>1 DEF TypeOK, FlagType, NodeNextState
  <2>2. (ServerType /\ NodeType /\ OrchType /\ HistType)'
    BY <1>1 DEF TypeOK, ServerType, NodeType, OrchType, HistType,
                NodeNextState, Goto, HandlerOf, RunStates, NodePcs
  <2> QED
    BY <2>1, <2>2 DEF TypeOK
<1>2. CASE NodeProvisioning(i)
  <2>1. FlagType'
    BY <1>2 DEF TypeOK, FlagType, NodeProvisioning
  <2>2. (ServerType /\ NodeType /\ OrchType /\ HistType)'
    BY <1>2 DEF TypeOK, ServerType, NodeType, OrchType, HistType,
                NodeProvisioning, Goto, NodePcs
  <2> QED
    BY <2>1, <2>2 DEF TypeOK
<1>3. CASE NodeCreated(i)
  <2>1. FlagType'
    BY <1>3 DEF TypeOK, FlagType, NodeCreated
  <2>2. (ServerType /\ NodeType /\ OrchType /\ HistType)'
    BY <1>3 DEF TypeOK, ServerType, NodeType, OrchType, HistType,
                NodeCreated, Goto, SetScaleState, NodePcs, ScaleStates
  <2> QED
    BY <2>1, <2>2 DEF TypeOK
<1>4. CASE NodePreScale(i)
  <2>1. FlagType'
    BY <1>4 DEF TypeOK, FlagType, NodePreScale
  <2>2. (ServerType /\ NodeType /\ OrchType /\ HistType)'
    BY <1>4 DEF TypeOK, ServerType, NodeType, OrchType, HistType,
                NodePreScale, Goto, NodePcs
  <2> QED
    BY <2>1, <2>2 DEF TypeOK
<1>5. CASE NodeExecuting(i)
  <2>1. FlagType'
    BY <1>5 DEF TypeOK, FlagType, NodeExecuting
  <2>2. (ServerType /\ NodeType /\ OrchType /\ HistType)'
    BY <1>5 DEF TypeOK, ServerType, NodeType, OrchType, HistType,
                NodeExecuting, Goto, NodePcs
  <2> QED
    BY <2>1, <2>2 DEF TypeOK
<1>6. CASE NodeReports(i)
  <2>1. FlagType'
    BY <1>6 DEF TypeOK, FlagType, NodeReports
  <2>2. (ServerType /\ NodeType /\ OrchType /\ HistType)'
    BY <1>6 DEF TypeOK, ServerType, NodeType, OrchType, HistType,
                NodeReports, Goto, SetScaleState, NodePcs, ScaleStates
  <2> QED
    BY <2>1, <2>2 DEF TypeOK
<1>7. CASE NodeComplete(i)
  <2>1. FlagType'
    BY <1>7 DEF TypeOK, FlagType, NodeComplete
  <2>2. (ServerType /\ NodeType /\ OrchType /\ HistType)'
    BY <1>7 DEF TypeOK, ServerType, NodeType, OrchType, HistType,
                NodeComplete, Goto, NodePcs
  <2> QED
    BY <2>1, <2>2 DEF TypeOK
<1>8. CASE NodeFails(i)
  <2>1. FlagType'
    BY <1>8 DEF TypeOK, FlagType, NodeFails, GoesWrong
  <2>2. (ServerType /\ NodeType /\ OrchType /\ HistType)'
    BY <1>8 DEF TypeOK, ServerType, NodeType, OrchType, HistType,
                NodeFails, Goto, GoesWrong, NodePcs
  <2> QED
    BY <2>1, <2>2 DEF TypeOK
<1>9. CASE VmFails(i)
  <2>1. FlagType'
    BY <1>9 DEF TypeOK, FlagType, VmFails, GoesWrong
  <2>2. (ServerType /\ NodeType /\ OrchType /\ HistType)'
    BY <1>9 DEF TypeOK, ServerType, NodeType, OrchType, HistType,
                VmFails, Goto, GoesWrong, NodePcs, VmStates
  <2> QED
    BY <2>1, <2>2 DEF TypeOK
<1>10. CASE StartVm(i)
  <2>1. FlagType'
    BY <1>10 DEF TypeOK, FlagType, StartVm
  <2>2. (ServerType /\ NodeType /\ OrchType /\ HistType)'
    BY <1>10 DEF TypeOK, ServerType, NodeType, OrchType, HistType,
                StartVm, VmStates
  <2> QED
    BY <2>1, <2>2 DEF TypeOK
<1>11. CASE StartFails(i)
  <2>1. FlagType'
    BY <1>11 DEF TypeOK, FlagType, StartFails, GoesWrong
  <2>2. (ServerType /\ NodeType /\ OrchType /\ HistType)'
    BY <1>11 DEF TypeOK, ServerType, NodeType, OrchType, HistType,
                StartFails, GoesWrong, VmStates
  <2> QED
    BY <2>1, <2>2 DEF TypeOK
<1> QED
  BY <1>1, <1>2, <1>3, <1>4, <1>5, <1>6, <1>7, <1>8, <1>9, <1>10, <1>11 DEF NodeStep

\* Steps of the orchestrator.
LEMMA TypeOrch ==
  ASSUME TypeOK, OrchStep \/ TimeLimitPasses \/ StopFails PROVE TypeOK'
<1> USE DEF server, rtps, nodes, orch, tasks, hist
<1>1. CASE OrchNextState
  <2>1. FlagType'
    BY <1>1 DEF TypeOK, FlagType, OrchNextState
  <2>2. (ServerType /\ NodeType /\ OrchType /\ HistType)'
    BY <1>1 DEF TypeOK, ServerType, NodeType, OrchType, HistType,
                OrchNextState, OrchGoto, HandlerOf, RunStates, OrchPcs
  <2> QED
    BY <2>1, <2>2 DEF TypeOK
<1>2. CASE OrchProvisioning
  <2>1. FlagType'
    BY <1>2 DEF TypeOK, FlagType, OrchProvisioning
  <2>2. (ServerType /\ NodeType /\ OrchType /\ HistType)'
    BY <1>2 DEF TypeOK, ServerType, NodeType, OrchType, HistType,
                OrchProvisioning, OrchGoto, OrchPcs
  <2> QED
    BY <2>1, <2>2 DEF TypeOK
<1>3. CASE OrchStart
  <2>1. FlagType'
    BY <1>3 DEF TypeOK, FlagType, OrchStart, OrchFail
  <2>2. (ServerType /\ NodeType /\ OrchType /\ HistType)'
    BY <1>3 DEF TypeOK, ServerType, NodeType, OrchType, HistType,
                OrchStart, OrchGoto, OrchFail, InState, OrchPcs
  <2> QED
    BY <2>1, <2>2 DEF TypeOK
<1>4. CASE StartWaitEnds
  <2>1. FlagType'
    BY <1>4 DEF TypeOK, FlagType, StartWaitEnds, OrchFail
  <2>2. (ServerType /\ NodeType /\ OrchType /\ HistType)'
    BY <1>4 DEF TypeOK, ServerType, NodeType, OrchType, HistType,
                StartWaitEnds, OrchGoto, OrchFail, OrchPcs
  <2> QED
    BY <2>1, <2>2 DEF TypeOK
<1>5. CASE TimeLimitPasses
  <2>1. FlagType'
    BY <1>5 DEF TypeOK, FlagType, TimeLimitPasses
  <2>2. (ServerType /\ NodeType /\ OrchType /\ HistType)'
    BY <1>5 DEF TypeOK, ServerType, NodeType, OrchType, HistType,
                TimeLimitPasses
  <2> QED
    BY <2>1, <2>2 DEF TypeOK
<1>6. CASE WaitTurn
  <2>3. Cardinality(Creating) \in Nat
    BY Sizes DEF Creating
  <2>1. FlagType'
    BY <1>6 DEF TypeOK, FlagType, WaitTurn
  <2>2. (ServerType /\ NodeType /\ OrchType /\ HistType)'
    BY <1>6, <2>3 DEF TypeOK, ServerType, NodeType, OrchType, HistType,
                WaitTurn, OrchGoto, OrchPcs
  <2> QED
    BY <2>1, <2>2 DEF TypeOK
<1>7. CASE WaitLists
  <2>1. FlagType'
    BY <1>7 DEF TypeOK, FlagType, WaitLists, OrchFail
  <2>2. (ServerType /\ NodeType /\ OrchType /\ HistType)'
    BY <1>7 DEF TypeOK, ServerType, NodeType, OrchType, HistType,
                WaitLists, OrchGoto, OrchFail, OrchPcs
  <2> QED
    BY <2>1, <2>2 DEF TypeOK
<1>8. CASE CheckProvisioned
  <2>1. FlagType'
    BY <1>8 DEF TypeOK, FlagType, CheckProvisioned, OrchFail
  <2>2. (ServerType /\ NodeType /\ OrchType /\ HistType)'
    BY <1>8 DEF TypeOK, ServerType, NodeType, OrchType, HistType,
                CheckProvisioned, OrchGoto, OrchFail, Creating, OrchPcs
  <2> QED
    BY <2>1, <2>2 DEF TypeOK
<1>9. CASE MarkFailed
  <2>1. FlagType'
    BY <1>9 DEF TypeOK, FlagType, MarkFailed
  <2>2. (ServerType /\ NodeType /\ OrchType /\ HistType)'
    BY <1>9 DEF TypeOK, ServerType, NodeType, OrchType, HistType,
                MarkFailed, OrchGoto, Discarded, OrchPcs, ScaleStates
  <2> QED
    BY <2>1, <2>2 DEF TypeOK
<1>10. CASE FetchRun
  <2>1. FlagType'
    BY <1>10 DEF TypeOK, FlagType, FetchRun
  <2>2. (ServerType /\ NodeType /\ OrchType /\ HistType)'
    BY <1>10, ViewType DEF TypeOK, ServerType, NodeType, OrchType, HistType,
                FetchRun, OrchGoto, OrchPcs
  <2> QED
    BY <2>1, <2>2 DEF TypeOK
<1>11. CASE ScaleDown
  <2>1. FlagType'
    BY <1>11 DEF TypeOK, FlagType, ScaleDown
  <2>2. (ServerType /\ NodeType /\ OrchType /\ HistType)'
    BY <1>11 DEF TypeOK, ServerType, NodeType, OrchType, HistType,
                ScaleDown, OrchGoto, InState, OrchPcs
  <2> QED
    BY <2>1, <2>2 DEF TypeOK
<1>12. CASE WaitPreScale
  <2>1. FlagType'
    BY <1>12 DEF TypeOK, FlagType, WaitPreScale
  <2>2. (ServerType /\ NodeType /\ OrchType /\ HistType)'
    BY <1>12 DEF TypeOK, ServerType, NodeType, OrchType, HistType,
                WaitPreScale, OrchGoto, OrchPcs
  <2> QED
    BY <2>1, <2>2 DEF TypeOK
<1>13. CASE WaitPreScaleTimesOut
  <2>1. FlagType'
    BY <1>13 DEF TypeOK, FlagType, WaitPreScaleTimesOut, OrchFail
  <2>2. (ServerType /\ NodeType /\ OrchType /\ HistType)'
    BY <1>13 DEF TypeOK, ServerType, NodeType, OrchType, HistType,
                WaitPreScaleTimesOut, OrchGoto, OrchFail, OrchPcs
  <2> QED
    BY <2>1, <2>2 DEF TypeOK
<1>14. CASE StopVms
  <2>1. FlagType'
    BY <1>14 DEF TypeOK, FlagType, StopVms
  <2>2. (ServerType /\ NodeType /\ OrchType /\ HistType)'
    BY <1>14 DEF TypeOK, ServerType, NodeType, OrchType, HistType,
                StopVms, OrchGoto, Stop, InState, OrchPcs, VmStates, NodePcs
  <2> QED
    BY <2>1, <2>2 DEF TypeOK
<1>15. CASE StopFails
  <2>1. FlagType'
    BY <1>15 DEF TypeOK, FlagType, StopFails, OrchFail, GoesWrong
  <2>2. (ServerType /\ NodeType /\ OrchType /\ HistType)'
    BY <1>15 DEF TypeOK, ServerType, NodeType, OrchType, HistType,
                StopFails, OrchGoto, OrchFail, GoesWrong, Stop, OrchPcs,
                VmStates, NodePcs
  <2> QED
    BY <2>1, <2>2 DEF TypeOK
<1>16. CASE SetRemoved
  <2>1. FlagType'
    BY <1>16 DEF TypeOK, FlagType, SetRemoved
  <2>2. (ServerType /\ NodeType /\ OrchType /\ HistType)'
    BY <1>16 DEF TypeOK, ServerType, NodeType, OrchType, HistType,
                SetRemoved, OrchGoto, OrchPcs, ScaleStates
  <2> QED
    BY <2>1, <2>2 DEF TypeOK
<1>17. CASE ForceCompletion
  <2>1. FlagType'
    BY <1>17 DEF TypeOK, FlagType, ForceCompletion
  <2>2. (ServerType /\ NodeType /\ OrchType /\ HistType)'
    BY <1>17 DEF TypeOK, ServerType, NodeType, OrchType, HistType,
                ForceCompletion, OrchGoto, Forced, OrchPcs
  <2> QED
    BY <2>1, <2>2 DEF TypeOK
<1>18. CASE OrchExecuting
  <2>1. FlagType'
    BY <1>18 DEF TypeOK, FlagType, OrchExecuting, OrchFail
  <2>2. (ServerType /\ NodeType /\ OrchType /\ HistType)'
    BY <1>18 DEF TypeOK, ServerType, NodeType, OrchType, HistType,
                OrchExecuting, OrchGoto, OrchFail, Forced, OrchPcs
  <2> QED
    BY <2>1, <2>2 DEF TypeOK
<1>19. CASE OrchReports
  <2>1. FlagType'
    BY <1>19 DEF TypeOK, FlagType, OrchReports
  <2>2. (ServerType /\ NodeType /\ OrchType /\ HistType)'
    BY <1>19 DEF TypeOK, ServerType, NodeType, OrchType, HistType,
                OrchReports, OrchGoto, Forced, OrchPcs, ScaleStates
  <2> QED
    BY <2>1, <2>2 DEF TypeOK
<1>20. CASE OrchComplete
  <2>1. FlagType'
    BY <1>20 DEF TypeOK, FlagType, OrchComplete
  <2>2. (ServerType /\ NodeType /\ OrchType /\ HistType)'
    BY <1>20 DEF TypeOK, ServerType, NodeType, OrchType, HistType,
                OrchComplete, OrchGoto, OrchPcs
  <2> QED
    BY <2>1, <2>2 DEF TypeOK
<1> QED
  BY <1>1, <1>2, <1>3, <1>4, <1>5, <1>6, <1>7, <1>8, <1>9, <1>10,
     <1>11, <1>12, <1>13, <1>14, <1>15, <1>16, <1>17, <1>18, <1>19, <1>20 DEF OrchStep

LEMMA TypeStep == ASSUME TypeOK, [Next]_vars PROVE TypeOK'
<1>1. CASE Next
  BY <1>1, TypeServer, TypeUser, TypeOrch, TypeInstance DEF Next
<1>2. CASE UNCHANGED vars
  BY <1>2 DEF TypeOK, FlagType, ServerType, NodeType, OrchType, HistType,
              vars, server, rtps, nodes, orch, tasks, hist
<1> QED
  BY <1>1, <1>2

\* Every variable keeps its type.
THEOREM TypeCorrect == Spec => []TypeOK
BY TypeInit, TypeStep, PTL DEF Spec

-----------------------------------------------------------------------------
(* The inductive invariant.  Safe is IInv less the types.  Each step below   *)
(* holds from the whole of IInv, so the definitions are expanded at once.    *)

Safe == OffInv /\ CreatingInv /\ UnwantedInv /\ TodoInv /\ FreshInv /\ DownInv

LEMMA SafeInit == ASSUME Init PROVE Safe
<1>1. OffInv /\ CreatingInv /\ UnwantedInv
  BY DEF Init, OffInv, CreatingInv, UnwantedInv, View
<1>2. TodoInv /\ FreshInv /\ DownInv
  BY DEF Init, TodoInv, FreshInv, DownInv, RemovedIsDown, View
<1> QED
  BY <1>1, <1>2 DEF Safe

\* The server goes on only when no instance is in creating.
LEMMA SafeServer ==
  ASSUME IInv, ServerAdvance
  PROVE  Safe'
<1> USE DEF IInv, TypeOK, FlagType, ServerType, NodeType, OrchType, HistType, Safe, OffInv,
            CreatingInv, UnwantedInv, TodoInv, FreshInv, DownInv, RemovedIsDown, View,
            server, rtps, nodes, orch, tasks, hist
<1>1. CASE ServerAdvance
  BY <1>1 DEF ServerAdvance, Expected, NextState, Handlers
<1> QED
  BY <1>1

\* What users do.
LEMMA SafeUser ==
  ASSUME IInv, UserStep
  PROVE  Safe'
<1> USE DEF IInv, TypeOK, FlagType, ServerType, NodeType, OrchType, HistType, Safe, OffInv,
            CreatingInv, UnwantedInv, TodoInv, FreshInv, DownInv, RemovedIsDown, View,
            server, rtps, nodes, orch, tasks, hist
<1>1. ASSUME NEW S \in SUBSET Instances, NEW t \in 0 .. Cardinality(S), NodeAdd(S, t) PROVE Safe'
  BY <1>1 DEF NodeAdd, StartProvisioning
<1>2. ASSUME NEW S \in SUBSET Instances, NodeRemove(S) PROVE Safe'
  BY <1>2 DEF NodeRemove, StartProvisioning
<1>3. CASE SetTolerance
  BY <1>3 DEF SetTolerance
<1>4. CASE UserAborts \/ CancelAbort
  BY <1>4 DEF UserAborts, CancelAbort, GoesWrong
<1> QED
  BY <1>1, <1>2, <1>3, <1>4 DEF UserStep

\* What an executor changes is on a VM that is up, which a removed one is not; a
\* VM is started for an instance in creating.
LEMMA SafeInstance ==
  ASSUME IInv, NEW i \in Instances,
         NodeStep(i) \/ NodeFails(i) \/ VmFails(i) \/ StartVm(i) \/ StartFails(i)
  PROVE  Safe'
<1> USE DEF IInv, TypeOK, FlagType, ServerType, NodeType, OrchType, HistType, Safe, OffInv,
            CreatingInv, UnwantedInv, TodoInv, FreshInv, DownInv, RemovedIsDown, View,
            server, rtps, nodes, orch, tasks, hist
<1>1. CASE NodeNextState(i)
  BY <1>1 DEF NodeNextState, Goto, HandlerOf
<1>2. CASE NodeProvisioning(i)
  BY <1>2 DEF NodeProvisioning, Goto
<1>3. CASE NodeCreated(i)
  BY <1>3 DEF NodeCreated, Goto, SetScaleState
<1>4. CASE NodePreScale(i)
  BY <1>4 DEF NodePreScale, Goto
<1>5. CASE NodeExecuting(i)
  BY <1>5 DEF NodeExecuting, Goto
<1>6. CASE NodeReports(i)
  BY <1>6 DEF NodeReports, Goto, SetScaleState
<1>7. CASE NodeComplete(i)
  BY <1>7 DEF NodeComplete, Goto
<1>8. CASE NodeFails(i)
  BY <1>8 DEF NodeFails, Goto, GoesWrong
<1>9. CASE VmFails(i)
  BY <1>9 DEF VmFails, Goto, GoesWrong
<1>10. CASE StartVm(i)
  BY <1>10 DEF StartVm
<1>11. CASE StartFails(i)
  BY <1>11 DEF StartFails, GoesWrong
<1> QED
  BY <1>1, <1>2, <1>3, <1>4, <1>5, <1>6, <1>7, <1>8, <1>9, <1>10,
     <1>11 DEF NodeStep

\* The orchestrator.
LEMMA SafeOrch ==
  ASSUME IInv, OrchStep \/ TimeLimitPasses \/ StopFails
  PROVE  Safe'
<1> USE DEF IInv, TypeOK, FlagType, ServerType, NodeType, OrchType, HistType, Safe, OffInv,
            CreatingInv, UnwantedInv, TodoInv, FreshInv, DownInv, RemovedIsDown, View,
            server, rtps, nodes, orch, tasks, hist
\* A new state to handle is not Provisioning while instances that have a VM are in
\* creating, as the run does not leave Provisioning with these.
<1>1. CASE OrchNextState
  <2>1. \A i \in Instances : scale[i] = "creating" => vm[i] = "none"
    BY <1>1 DEF OrchNextState
  <2>2. todo = {}
    BY <1>1 DEF OrchNextState
  <2>3. oPc' \in {"provisioning", "execute", "reports", "poll"}
    BY <1>1 DEF OrchNextState, OrchGoto, HandlerOf, RunStates
  <2>4. oPc' = "provisioning" => oAt' = "Provisioning"
    BY <1>1 DEF OrchNextState, OrchGoto, HandlerOf, RunStates
  <2>5. UNCHANGED <<server, rtps, vm, nodes, oCache, oList, oForce, oGone, todo, givenUp>>
    BY <1>1 DEF OrchNextState
  <2> QED
    BY <2>1, <2>2, <2>3, <2>4, <2>5
<1>2. CASE OrchProvisioning
  BY <1>2 DEF OrchProvisioning, OrchGoto
<1>3. CASE OrchStart
  BY <1>3 DEF OrchStart, OrchGoto, OrchFail, InState
<1>4. CASE StartWaitEnds
  BY <1>4 DEF StartWaitEnds, OrchGoto, OrchFail, TasksProcessed
<1>5. CASE TimeLimitPasses
  BY <1>5 DEF TimeLimitPasses
<1>6. CASE WaitTurn
  BY <1>6 DEF WaitTurn, OrchGoto
<1>7. CASE WaitLists
  BY <1>7 DEF WaitLists, OrchGoto, OrchFail
<1>8. CASE CheckProvisioned
  BY <1>8 DEF CheckProvisioned, OrchGoto, OrchFail, Creating
<1>9. CASE MarkFailed
  BY <1>9 DEF MarkFailed, OrchGoto, Discarded
<1>10. CASE FetchRun
  BY <1>10 DEF FetchRun, OrchGoto
<1>11. CASE ScaleDown
  BY <1>11 DEF ScaleDown, OrchGoto, InState
<1>12. CASE WaitPreScale
  BY <1>12 DEF WaitPreScale, OrchGoto
<1>13. CASE WaitPreScaleTimesOut
  BY <1>13 DEF WaitPreScaleTimesOut, OrchGoto, OrchFail
\* Who is removed now was stopped, and has no start task left.
<1>14. CASE StopVms
  BY <1>14 DEF StopVms, OrchGoto, Stop, Stopped, InState
<1>15. CASE StopFails
  BY <1>15 DEF StopFails, OrchGoto, OrchFail, GoesWrong, Stop, Stopped, InState
<1>16. CASE SetRemoved
  BY <1>16 DEF SetRemoved, OrchGoto
<1>17. CASE ForceCompletion
  BY <1>17 DEF ForceCompletion, OrchGoto, Forced
<1>18. CASE OrchExecuting
  BY <1>18 DEF OrchExecuting, OrchGoto, OrchFail, Forced
<1>19. CASE OrchReports
  BY <1>19 DEF OrchReports, OrchGoto, Forced
<1>20. CASE OrchComplete
  BY <1>20 DEF OrchComplete, OrchGoto
<1> QED
  BY <1>1, <1>2, <1>3, <1>4, <1>5, <1>6, <1>7, <1>8, <1>9, <1>10,
     <1>11, <1>12, <1>13, <1>14, <1>15, <1>16, <1>17, <1>18, <1>19, <1>20 DEF OrchStep

LEMMA SafeStep == ASSUME IInv, [Next]_vars PROVE IInv'
<1>1. TypeOK'
  BY TypeStep DEF IInv
<1>2. ASSUME Next PROVE Safe'
  BY <1>2, SafeServer, SafeUser, SafeOrch, SafeInstance DEF Next
<1>3. ASSUME UNCHANGED vars PROVE Safe'
  BY <1>3 DEF IInv, Safe, OffInv, CreatingInv, UnwantedInv, TodoInv, FreshInv, DownInv,
              RemovedIsDown, View, vars, server, rtps, nodes, orch, tasks, hist
<1>4. Safe'
  BY <1>2, <1>3
<1> QED
  BY <1>1, <1>4 DEF IInv, Safe

\* The inductive invariant holds of every run.
THEOREM Invariance == Spec => []IInv
<1>1. Init => IInv
  BY TypeInit, SafeInit DEF IInv, Safe
<1>2. IInv /\ [Next]_vars => IInv'
  BY SafeStep
<1> QED
  BY <1>1, <1>2, PTL DEF Spec

\* An instance shown as removed or gone has no running VM, whatever failed.
THEOREM RemovedSafe == Spec => []RemovedIsDown
<1>1. IInv => RemovedIsDown
  BY DEF IInv, DownInv
<1> QED
  BY <1>1, Invariance, PTL

\* No instance is started twice, and start tasks of two provisionings never run
\* at the same time, though nobody stops the tasks when one has raised.
THEOREM StartSafe == Spec => []StartedOnce
<1>1. IInv => StartedOnce
  BY DEF IInv, TodoInv, StartedOnce
<1> QED
  BY <1>1, Invariance, PTL

\* A step that stops a VM stops those the cache has as removing.
LEMMA StopFrom ==
  ASSUME TypeOK, Next, NEW i \in Instances, vm[i] # "stopped", vm'[i] = "stopped"
  PROVE  oPc = "stop" /\ View[i] = "removing"
<1> USE DEF server, rtps, nodes, orch, tasks, hist
<1>1. vm \in [Instances -> VmStates]
  BY DEF TypeOK, NodeType
<1>2. CASE StopVms \/ StopFails
  BY <1>2 DEF StopVms, StopFails, Stop, Stopped, InState
<1>3. CASE ServerAdvance \/ TimeLimitPasses
  BY <1>3 DEF ServerAdvance, TimeLimitPasses
<1>4. CASE UserStep
  BY <1>4 DEF UserStep, NodeAdd, NodeRemove, SetTolerance, UserAborts, CancelAbort
<1>5. CASE OrchStep /\ ~ StopVms
  BY <1>5 DEF OrchStep, OrchNextState, OrchProvisioning, OrchStart, StartWaitEnds,
       WaitTurn, WaitLists, CheckProvisioned, MarkFailed, FetchRun, ScaleDown,
       WaitPreScale, WaitPreScaleTimesOut, SetRemoved, ForceCompletion,
       OrchExecuting, OrchReports, OrchComplete
<1>6. ASSUME NEW j \in Instances,
             NodeStep(j) \/ NodeFails(j) \/ VmFails(j) \/ StartVm(j) \/ StartFails(j)
      PROVE  FALSE
  BY <1>1, <1>6 DEF NodeStep, NodeNextState, NodeProvisioning, NodeCreated, NodePreScale,
       NodeExecuting, NodeReports, NodeComplete, NodeFails, VmFails, StartVm, StartFails
<1> QED
  BY <1>2, <1>3, <1>4, <1>5, <1>6 DEF Next

\* Such an instance was to be removed.
LEMMA StopStep ==
  ASSUME IInv, Next, NEW i \in Instances, vm[i] # "stopped", vm'[i] = "stopped"
  PROVE  i \in leaving \cup givenUp
BY StopFrom DEF IInv, UnwantedInv

\* No VM is stopped that nobody wanted to be, not even from a stale cache.
THEOREM StopSafe == Spec => StoppedWasUnwanted
<1> DEFINE Wanted == \A i \in Instances :
                       vm[i] # "stopped" /\ vm'[i] = "stopped" => i \in leaving \cup givenUp
<1>1. IInv /\ [Next]_vars => [Wanted]_vars
  BY StopStep
<1> QED
  BY <1>1, Invariance, PTL DEF Spec, StoppedWasUnwanted


-----------------------------------------------------------------------------
(* What a provisioning without trouble achieves.  The six invariants below   *)
(* are inductive together with IInv.                                         *)

\* The orchestrator handles the state the run is in, or has yet to notice it, and
\* completes each once.  It decides what to stop from its cache.
AtInv ==
  /\ oPc # "poll" \/ oAt # runState => ~ oDone
  /\ oPc # "poll" => oAt = runState /\ runState # "Ready"
  /\ oPc = "execute" => oAt = "Executing"
  /\ runState = "Provisioning" => oAt \in {"SendingReports", "Ready", "Provisioning"}
  /\ runState = "Executing" => oAt \in {"Provisioning", "Executing"}
  /\ runState = "SendingReports" => oAt \in {"Executing", "SendingReports"}
  /\ runState = "Ready" => oAt \in {"SendingReports", "Ready"}
  /\ oPc \in {"decide", "wait_pre", "stop"} => oCache # NoCache

\* From the first fetch of the Run in Provisioning to the VMs being stopped.
Caching == {"classify", "starting", "wait", "list", "waited", "mark", "scale_down",
            "decide", "wait_pre", "stop"}

\* While the orchestrator handles Provisioning, what is to be removed is so in its
\* cache, and when it has stopped VMs, its VM is down.
KnownInv ==
  ~ trouble =>
    /\ (runState = "Provisioning" /\ oAt = "Provisioning") =>
         /\ oPc # "reports"
         /\ oPc \in Caching =>
              \A i \in Instances : scale[i] = "removing" => View[i] = "removing"
         /\ oPc \in {"removed", "force", "complete", "poll"} =>
              \A i \in Instances : scale[i] = "removing" => vm[i] # "up"
    /\ runState # "Provisioning" => \A i \in Instances : scale[i] = "removing" => vm[i] # "up"

\* Without trouble, an executor that was not given up handles the state the run is
\* in, and completes it last.
LoyalInv ==
  ~ trouble => ~ abort /\ \A i \in Instances \ deleted :
    /\ i \in nDone => vm[i] # "up" \/ (nPc[i] = "poll" /\ nAt[i] = runState)
    /\ nPc[i] \notin {"off", "poll"} => nAt[i] = runState /\ runState # "Ready"
    /\ nPc[i] = "reports" => runState = "SendingReports"

\* An instance added last that was not given up goes through the handlers of the
\* run states, and is operational when it completes the last.
NodeServed(i) ==
  /\ scale[i] \in {"creating", "created", "operational"}
  /\ nPc[i] # "prescale"
  /\ nPc[i] \in {"provisioning", "key"} => runState = "Provisioning"
  /\ nPc[i] = "execute" => runState = "Executing"
  /\ runState = "SendingReports" /\ (nPc[i] = "complete" \/ i \in nDone) =>
       scale[i] = "operational"
  /\ runState = "Ready" => scale[i] = "operational"

\* Nobody of those added last is given up before the orchestrator marks them, and
\* it marks no more than it knows to be allowed.
ServeInv ==
  ~ trouble =>
    /\ asked \cap leaving = {}
    /\ \A i \in asked \ givenUp : NodeServed(i)
    /\ runState = "Provisioning" /\ (oAt # "Provisioning"
          \/ oPc \in {"provisioning", "classify", "starting", "wait", "list", "waited", "mark"})
         => asked \cap givenUp = {}
    /\ oPc = "mark" => Cardinality(oList) <= oAllowed
    /\ Cardinality(asked \cap givenUp) <= oAllowed

\* A node that has set no scale.state yet is in creating, or was given up.
KeyInv ==
  /\ \A i \in Instances : nPc[i] = "key" => scale[i] \in {"creating", "removing"}
  /\ oPc = "mark" => oList \cap leaving = {}

\* In a provisioning that removes instances, nothing is created.  When one of them
\* is up, all that the cache has as scaling are to be removed.
RemoveOnly ==
  /\ \A i \in Instances : scale[i] # "creating" /\ nPc[i] # "key"
  /\ \A i \in deleted : ~ (scale[i] = "removing" /\ vm[i] = "up")
  /\ oPc = "mark" => oList = {}
  /\ oPc \in Caching =>
       /\ \A j \in Instances : scale[j] \notin Terminal => View[j] \notin Terminal
       /\ \A j \in Instances : View[j] = "removing" /\ vm[j] = "up" => scale[j] = "removing"
  /\ oPc \in Caching \ {"classify"} /\ (\E i \in Instances : View[i] = "removing" /\ vm[i] = "up")
       => \A j \in Instances : View[j] \notin Terminal => scale[j] = "removing"

\* In one that adds instances, none that a user removed is left to stop.
AddOnly ==
  \A i \in leaving : vm[i] = "up" =>
     scale[i] # "removing" /\ (oPc \in Caching => View[i] # "removing")

\* So a VM that a user removed is not stopped but after the wait for its prescale.
PreInv ==
  ~ trouble =>
    /\ runState = "Provisioning" => IF asked = {} THEN RemoveOnly ELSE AddOnly
    /\ oPc = "wait_pre" => oList = InState("removing")
    /\ oPc = "stop" =>
         \A i \in leaving : View[i] = "removing" /\ vm[i] = "up" => preDone[i]

\* What was fetched is not the empty cache.
LEMMA Fetched == ASSUME TypeOK PROVE View # NoCache
<1>1. DOMAIN View = Instances
  BY ViewType
<1>2. DOMAIN NoCache = {}
  BY DEF NoCache
<1> QED
  BY <1>1, <1>2, ProvisioningAssumption

LEMMA AtInit == ASSUME Init PROVE AtInv
BY DEF Init, AtInv

\* The steps of users and of instances leave the orchestrator alone, and leave the
\* run state but for a request in Ready.
LEMMA AtStep == ASSUME TypeOK, AtInv, [Next]_vars PROVE AtInv'
<1> USE DEF TypeOK, FlagType, ServerType, OrchType, AtInv, server, rtps, nodes, orch, tasks, hist
<1>1. CASE ServerAdvance
  BY <1>1 DEF ServerAdvance, NextState, Handlers
<1>2. CASE UserStep
  BY <1>2 DEF UserStep, NodeAdd, NodeRemove, StartProvisioning, SetTolerance, UserAborts,
              CancelAbort
<1>3. CASE OrchNextState
  BY <1>3 DEF OrchNextState, OrchGoto, HandlerOf, RunStates
<1>4. CASE OrchComplete
  BY <1>4 DEF OrchComplete, OrchGoto
<1>5. CASE (OrchStep \/ TimeLimitPasses \/ StopFails) /\ ~ OrchNextState /\ ~ OrchComplete
  <2>1. oPc # "poll" /\ oPc' # "execute" /\ UNCHANGED <<runState, oAt, oDone>>
    BY <1>5 DEF OrchStep, OrchProvisioning, OrchStart, StartWaitEnds, WaitTurn, WaitLists,
         CheckProvisioned, MarkFailed, FetchRun, ScaleDown, WaitPreScale, TimeLimitPasses,
         WaitPreScaleTimesOut, StopVms, StopFails, SetRemoved, ForceCompletion,
         OrchExecuting, OrchReports, OrchGoto, OrchFail
  <2>2. oPc' \in {"decide", "wait_pre", "stop"} => oCache' # NoCache
    BY <1>5, Fetched DEF OrchStep, OrchProvisioning, OrchStart, StartWaitEnds, WaitTurn, WaitLists,
         CheckProvisioned, MarkFailed, FetchRun, ScaleDown, WaitPreScale, TimeLimitPasses,
         WaitPreScaleTimesOut, StopVms, StopFails, SetRemoved, ForceCompletion,
         OrchExecuting, OrchReports, OrchGoto, OrchFail
  <2> QED
    BY <2>1, <2>2
<1>6. ASSUME NEW i \in Instances,
             NodeStep(i) \/ NodeFails(i) \/ VmFails(i) \/ StartVm(i) \/ StartFails(i)
      PROVE  UNCHANGED <<runState, oPc, oAt, oDone, oCache>>
  BY <1>6 DEF NodeStep, NodeNextState, NodeProvisioning, NodeCreated, NodePreScale,
       NodeExecuting, NodeReports, NodeComplete, NodeFails, VmFails, StartVm, StartFails
<1>7. CASE UNCHANGED vars
  BY <1>7 DEF vars
<1> QED
  BY <1>1, <1>2, <1>3, <1>4, <1>5, <1>6, <1>7 DEF Next

LEMMA KnownInit == ASSUME Init PROVE KnownInv
BY DEF Init, KnownInv

\* A request comes in Ready, which the orchestrator has yet to leave.
LEMMA KnownUser == ASSUME TypeOK, AtInv, KnownInv, ServerAdvance \/ UserStep PROVE KnownInv'
<1> USE DEF AtInv, KnownInv, Caching, View, server, rtps, nodes, orch, tasks, hist
<1>1. CASE ServerAdvance
  BY <1>1 DEF ServerAdvance, NextState, Handlers
<1>2. CASE UserStep
  BY <1>2 DEF UserStep, NodeAdd, NodeRemove, StartProvisioning, SetTolerance, UserAborts,
              CancelAbort
<1> QED
  BY <1>1, <1>2

\* No executor sets its instance to removing, and VMs are started for others.
LEMMA KnownInstance ==
  ASSUME IInv, AtInv, KnownInv, NEW i \in Instances,
         NodeStep(i) \/ NodeFails(i) \/ VmFails(i) \/ StartVm(i) \/ StartFails(i)
  PROVE  KnownInv'
<1> USE DEF server, rtps, nodes, orch, tasks, hist
<1>1. scale \in [Instances -> ScaleStates] /\ vm \in [Instances -> VmStates]
  BY DEF IInv, TypeOK, ServerType, NodeType
<1>2. UNCHANGED <<runState, oPc, oAt, oCache>>
  BY DEF NodeStep, NodeNextState, NodeProvisioning, NodeCreated, NodePreScale,
       NodeExecuting, NodeReports, NodeComplete, NodeFails, VmFails, StartVm, StartFails
<1>3. trouble' = trouble \/ trouble'
  BY DEF NodeStep, NodeNextState, NodeProvisioning, NodeCreated, NodePreScale,
       NodeExecuting, NodeReports, NodeComplete, NodeFails, VmFails, StartVm, StartFails
<1>4. \A j \in Instances : scale'[j] = "removing" => scale[j] = "removing"
  BY <1>1 DEF NodeStep, NodeNextState, NodeProvisioning, NodeCreated, NodePreScale, SetScaleState,
       NodeExecuting, NodeReports, NodeComplete, NodeFails, VmFails, StartVm, StartFails
<1>5. \A j \in Instances : scale[j] = "removing" /\ vm[j] # "up" => vm'[j] # "up"
  BY <1>1 DEF NodeStep, NodeNextState, NodeProvisioning, NodeCreated, NodePreScale,
       NodeExecuting, NodeReports, NodeComplete, NodeFails, VmFails, StartVm, StartFails,
       IInv, TodoInv
<1>6. \A j \in Instances : scale'[j] = "removing" => (View[j] = "removing" => View'[j] = "removing")
  BY <1>2, <1>4 DEF View
<1> QED
  BY <1>2, <1>3, <1>4, <1>5, <1>6 DEF KnownInv, Caching

\* The cache is fetched when all failed instances are marked, or was discarded then;
\* what it has as removing is stopped.
LEMMA KnownOrch ==
  ASSUME IInv, AtInv, KnownInv, abort => trouble, OrchStep \/ TimeLimitPasses \/ StopFails
  PROVE  KnownInv'
<1> USE DEF IInv, TypeOK, FlagType, ServerType, NodeType, OrchType, FreshInv, DownInv, AtInv,
            KnownInv, Caching, View, server, rtps, nodes, orch, tasks, hist
<1>1. CASE OrchNextState
  BY <1>1 DEF OrchNextState, OrchGoto, HandlerOf
<1>2. CASE OrchProvisioning
  BY <1>2 DEF OrchProvisioning, OrchGoto
<1>3. CASE OrchStart
  BY <1>3 DEF OrchStart, OrchGoto, OrchFail
<1>4. CASE StartWaitEnds
  BY <1>4 DEF StartWaitEnds, OrchGoto, OrchFail
<1>5. CASE TimeLimitPasses
  BY <1>5 DEF TimeLimitPasses
<1>6. CASE WaitTurn
  BY <1>6 DEF WaitTurn, OrchGoto
<1>7. CASE WaitLists
  BY <1>7 DEF WaitLists, OrchGoto, OrchFail
<1>8. CASE CheckProvisioned
  BY <1>8 DEF CheckProvisioned, OrchGoto, OrchFail
<1>9. CASE MarkFailed
  BY <1>9 DEF MarkFailed, OrchGoto, Discarded
<1>10. CASE FetchRun
  BY <1>10 DEF FetchRun, OrchGoto
<1>11. CASE ScaleDown
  BY <1>11 DEF ScaleDown, OrchGoto
<1>12. CASE WaitPreScale
  BY <1>12 DEF WaitPreScale, OrchGoto
<1>13. CASE WaitPreScaleTimesOut
  BY <1>13 DEF WaitPreScaleTimesOut, OrchGoto, OrchFail
<1>14. CASE StopVms
  BY <1>14 DEF StopVms, OrchGoto, Stop, Stopped, InState
<1>15. CASE StopFails
  BY <1>15 DEF StopFails, OrchGoto, OrchFail
<1>16. CASE SetRemoved
  BY <1>16 DEF SetRemoved, OrchGoto
<1>17. CASE ForceCompletion
  BY <1>17 DEF ForceCompletion, OrchGoto
<1>18. CASE OrchExecuting
  BY <1>18 DEF OrchExecuting, OrchGoto, OrchFail
<1>19. CASE OrchReports
  BY <1>19 DEF OrchReports, OrchGoto
<1>20. CASE OrchComplete
  BY <1>20 DEF OrchComplete, OrchGoto
<1> QED
  BY <1>1, <1>2, <1>3, <1>4, <1>5, <1>6, <1>7, <1>8, <1>9, <1>10,
     <1>11, <1>12, <1>13, <1>14, <1>15, <1>16, <1>17, <1>18, <1>19, <1>20 DEF OrchStep

LEMMA LoyalInit == ASSUME Init PROVE LoyalInv
BY DEF Init, LoyalInv

\* The server waits for all with a VM that is up, so that none of them is late.
LEMMA LoyalServer == ASSUME IInv, LoyalInv, ServerAdvance PROVE LoyalInv'
<1>1. UNCHANGED <<abort, trouble, deleted, vm, nPc, nAt>> /\ nDone' = {}
  BY DEF ServerAdvance, server, rtps, nodes, hist
<1>2. ASSUME ~ trouble, NEW i \in Instances \ deleted PROVE nPc[i] \in {"off", "poll"}
  <2>1. CASE vm[i] = "up"
    <3>1. i \in nDone
      BY <2>1 DEF ServerAdvance, Expected, IInv, CreatingInv, DownInv, RemovedIsDown
    <3> QED
      BY <1>2, <2>1, <3>1 DEF LoyalInv
  <2>2. CASE vm[i] # "up"
    BY <2>2 DEF IInv, OffInv
  <2> QED
    BY <2>1, <2>2
<1> QED
  BY <1>1, <1>2 DEF LoyalInv

\* A request comes in Ready, when these executors wait, or all do.
LEMMA LoyalUser == ASSUME IInv, LoyalInv, UserStep PROVE LoyalInv'
<1> USE DEF LoyalInv, server, rtps, nodes, orch, tasks, hist
<1>1. ASSUME StartProvisioning, UNCHANGED <<abort, deleted, vm, nodes>> PROVE LoyalInv'
  BY <1>1 DEF StartProvisioning, Settled
<1>2. CASE SetTolerance \/ UserAborts \/ CancelAbort
  BY <1>2 DEF SetTolerance, UserAborts, CancelAbort
<1>3. ASSUME NEW S \in SUBSET Instances, NEW t \in 0 .. Cardinality(S),
             NodeAdd(S, t) \/ NodeRemove(S)
      PROVE  LoyalInv'
  BY <1>1, <1>3 DEF NodeAdd, NodeRemove
<1>4. ASSUME NEW S \in SUBSET Instances, NodeRemove(S) PROVE LoyalInv'
  BY <1>1, <1>4 DEF NodeRemove
<1> QED
  BY <1>2, <1>3, <1>4 DEF UserStep

LEMMA LoyalInstance ==
  ASSUME IInv, LoyalInv, NEW i \in Instances,
         NodeStep(i) \/ NodeFails(i) \/ VmFails(i) \/ StartVm(i) \/ StartFails(i)
  PROVE  LoyalInv'
<1> USE DEF server, rtps, nodes, orch, tasks, hist
<1>1. /\ UNCHANGED <<runState, deleted>>
      /\ abort' = abort \/ trouble'
      /\ trouble' = trouble \/ trouble'
  BY DEF NodeStep, NodeNextState, NodeProvisioning, NodeCreated, NodePreScale,
       NodeExecuting, NodeReports, NodeComplete, NodeFails, VmFails, StartVm, StartFails
<1> DEFINE Loyal(j) ==
      /\ j \in nDone => vm[j] # "up" \/ (nPc[j] = "poll" /\ nAt[j] = runState)
      /\ nPc[j] \notin {"off", "poll"} => nAt[j] = runState /\ runState # "Ready"
      /\ nPc[j] = "reports" => runState = "SendingReports"
<1>2. ASSUME NEW j \in Instances, Loyal(j), ~ trouble' PROVE Loyal(j)'
  <2> USE DEF IInv, TypeOK, ServerType, NodeType, OffInv, TodoInv, CreatingInv, Goto
  <2>1. CASE NodeNextState(i)
    BY <1>2, <2>1 DEF NodeNextState, HandlerOf, RunStates
  <2>2. CASE NodeProvisioning(i)
    BY <1>2, <2>2 DEF NodeProvisioning
  <2>3. CASE NodeCreated(i)
    BY <1>2, <2>3 DEF NodeCreated
  <2>4. CASE NodePreScale(i)
    BY <1>2, <2>4 DEF NodePreScale
  <2>5. CASE NodeExecuting(i)
    BY <1>2, <2>5 DEF NodeExecuting
  <2>6. CASE NodeReports(i)
    BY <1>2, <2>6 DEF NodeReports
  <2>7. CASE NodeComplete(i)
    BY <1>2, <2>7 DEF NodeComplete
  <2>8. CASE NodeFails(i)
    BY <1>2, <2>8 DEF NodeFails
  <2>9. CASE VmFails(i)
    BY <1>2, <2>9 DEF VmFails
  <2>10. CASE StartVm(i)
    BY <1>2, <2>10 DEF StartVm
  <2>11. CASE StartFails(i)
    BY <1>2, <2>11 DEF StartFails
  <2> QED
    BY <2>1, <2>2, <2>3, <2>4, <2>5, <2>6, <2>7, <2>8, <2>9, <2>10, <2>11 DEF NodeStep
<1>3. LoyalInv <=> (~ trouble => ~ abort /\ \A j \in Instances \ deleted : Loyal(j))
  BY DEF LoyalInv
<1>4. LoyalInv' <=> (~ trouble' => ~ abort' /\ \A j \in Instances \ deleted' : Loyal(j)')
  BY DEF LoyalInv
<1> HIDE DEF Loyal
<1> QED
  BY <1>1, <1>2, <1>3, <1>4

\* The orchestrator stops VMs, and completes states for instances it gave up on.
LEMMA LoyalOrch ==
  ASSUME IInv, LoyalInv, OrchStep \/ TimeLimitPasses \/ StopFails PROVE LoyalInv'
<1> USE DEF server, rtps, nodes, orch, tasks, hist
<1>1. /\ UNCHANGED <<runState, nAt>>
      /\ abort' = abort \/ trouble'
      /\ trouble' = trouble \/ trouble'
      /\ deleted \subseteq deleted'
      /\ nDone' = nDone \/ nDone' = nDone \cup oForce
  BY DEF OrchStep, OrchNextState, OrchProvisioning, OrchStart, StartWaitEnds, WaitTurn, WaitLists,
       CheckProvisioned, MarkFailed, FetchRun, ScaleDown, WaitPreScale, TimeLimitPasses,
       WaitPreScaleTimesOut, StopVms, StopFails, SetRemoved, ForceCompletion,
       OrchExecuting, OrchReports, OrchComplete, OrchFail, Forced
<1>2. \A i \in Instances : \/ vm'[i] = "stopped" /\ nPc'[i] = "off"
                           \/ vm'[i] = vm[i] /\ nPc'[i] = nPc[i]
  BY DEF OrchStep, OrchNextState, OrchProvisioning, OrchStart, StartWaitEnds, WaitTurn, WaitLists,
       CheckProvisioned, MarkFailed, FetchRun, ScaleDown, WaitPreScale, TimeLimitPasses,
       WaitPreScaleTimesOut, StopVms, StopFails, SetRemoved, ForceCompletion,
       OrchExecuting, OrchReports, OrchComplete, Stop
<1>3. oForce \subseteq deleted
  BY DEF IInv, CreatingInv
<1> QED
  BY <1>1, <1>2, <1>3 DEF LoyalInv

\* Sets of instances within a bound of their own.
LEMMA FewerOf ==
  ASSUME NEW S \in SUBSET Instances, NEW T \in SUBSET S
  PROVE  Cardinality(T) <= Cardinality(S)
BY ProvisioningAssumption, FS_Subset

LEMMA ServeInit == ASSUME Init PROVE ServeInv
<1>1. asked \cap givenUp = {} /\ asked \cap leaving = {}
  BY DEF Init
<1>2. Cardinality(asked \cap givenUp) <= oAllowed
  BY <1>1, FS_EmptySet DEF Init
<1>3. \A i \in asked : NodeServed(i)
  BY DEF Init, NodeServed
<1> QED
  BY <1>1, <1>2, <1>3 DEF ServeInv, Init

\* The server waits for all of those served, so that none of them is late.
LEMMA ServeServer == ASSUME IInv, AtInv, LoyalInv, ServeInv, ServerAdvance PROVE ServeInv'
<1> USE DEF server, rtps, nodes, orch, tasks, hist
<1>1. UNCHANGED <<abort, rtps, vm, nodes, orch, tasks, hist>>
  BY DEF ServerAdvance
<1>2. ASSUME NEW i \in asked \ givenUp, NodeServed(i), ~ trouble PROVE NodeServed(i)'
  <2>1. i \in Instances
    BY DEF IInv, TypeOK, HistType
  <2>2. i \in nDone
    BY <2>1, <1>2 DEF ServerAdvance, Expected, NodeServed
  <2>3. nPc[i] \in {"off", "poll"}
    BY <2>1, <2>2, <1>2 DEF LoyalInv, IInv, OffInv, UnwantedInv
  <2>4. runState' = "Ready" => scale[i] = "operational"
    BY <2>2, <1>2 DEF ServerAdvance, NextState, Handlers, NodeServed
  <2>5. nDone' = {}
    BY DEF ServerAdvance
  <2> QED
    BY <1>1, <1>2, <2>3, <2>4, <2>5 DEF NodeServed
<1>3. runState' # "Provisioning"
  BY DEF ServerAdvance, NextState, Handlers
<1> QED
  BY <1>1, <1>2, <1>3 DEF ServeInv

\* Instances that are added were nothing before.
LEMMA ServeUser == ASSUME IInv, AtInv, ServeInv, UserStep PROVE ServeInv'
<1> USE DEF server, rtps, nodes, orch, tasks, hist
<1>1. ASSUME NEW S \in SUBSET Instances, NEW t \in 0 .. Cardinality(S), NodeAdd(S, t)
      PROVE  ServeInv'
  <2>1. S \cap givenUp = {} /\ S \cap leaving = {}
    BY <1>1 DEF NodeAdd, IInv, UnwantedInv
  <2>2. oPc = "poll"
    BY <1>1 DEF NodeAdd, StartProvisioning, AtInv
  <2>3. ASSUME NEW i \in S PROVE NodeServed(i)'
    <3>1. scale'[i] = "creating" /\ scale[i] = "none"
      BY <1>1 DEF NodeAdd
    <3>2. nPc[i] = "off"
      BY <3>1 DEF IInv, OffInv, CreatingInv
    <3>3. runState' = "Provisioning" /\ nDone' = {} /\ nPc' = nPc
      BY <1>1 DEF NodeAdd, StartProvisioning
    <3> QED
      BY <3>1, <3>2, <3>3 DEF NodeServed
  <2>4. Cardinality(S \cap givenUp) <= oAllowed
    BY <2>1, FS_EmptySet DEF IInv, TypeOK, OrchType
  <2>5. asked' = S /\ ~ abort /\ UNCHANGED <<abort, leaving, givenUp, oAllowed, oPc>>
    BY <1>1 DEF NodeAdd, StartProvisioning
  <2> QED
    BY <2>1, <2>2, <2>3, <2>4, <2>5 DEF ServeInv
<1>2. ASSUME NEW S \in SUBSET Instances, NodeRemove(S) PROVE ServeInv'
  <2>1. oPc = "poll"
    BY <1>2 DEF NodeRemove, StartProvisioning, AtInv
  <2>2. asked' = {} /\ ~ abort /\ UNCHANGED <<abort, oAllowed, oPc>>
    BY <1>2 DEF NodeRemove, StartProvisioning
  <2>3. asked' \cap givenUp' = {} /\ Cardinality(asked' \cap givenUp') <= oAllowed'
    BY <2>2, FS_EmptySet DEF IInv, TypeOK, OrchType
  <2> QED
    BY <2>1, <2>2, <2>3 DEF ServeInv
<1>3. CASE SetTolerance
  BY <1>3 DEF SetTolerance, ServeInv, NodeServed
<1>4. CASE UserAborts
  BY <1>4 DEF UserAborts, ServeInv
<1>5. CASE CancelAbort
  BY <1>5 DEF CancelAbort, ServeInv, NodeServed
<1> QED
  BY <1>1, <1>2, <1>3, <1>4, <1>5 DEF UserStep

\* An executor goes on in the state of the run that it handles.
LEMMA ServeInstance ==
  ASSUME IInv, LoyalInv, ServeInv, NEW i \in Instances,
         NodeStep(i) \/ NodeFails(i) \/ VmFails(i) \/ StartVm(i) \/ StartFails(i)
  PROVE  ServeInv'
<1> USE DEF server, rtps, nodes, orch, tasks, hist
<1>1. /\ UNCHANGED <<runState, leaving, oPc, oAt, oAllowed, oList, asked, givenUp>>
      /\ abort' = abort \/ trouble'
      /\ trouble' = trouble \/ trouble'
  BY DEF NodeStep, NodeNextState, NodeProvisioning, NodeCreated, NodePreScale,
       NodeExecuting, NodeReports, NodeComplete, NodeFails, VmFails, StartVm, StartFails
<1>2. ASSUME NEW j \in asked \ givenUp, NodeServed(j), ~ trouble' PROVE NodeServed(j)'
  <2>1. j \in Instances
    BY DEF IInv, TypeOK, HistType
  <2>0. /\ nPc[j] \notin {"off", "poll"} => nAt[j] = runState /\ runState # "Ready"
        /\ nPc[j] = "reports" => runState = "SendingReports"
        /\ j \in nDone /\ vm[j] = "up" => nPc[j] = "poll" /\ nAt[j] = runState
    BY <1>1, <1>2, <2>1 DEF LoyalInv, IInv, UnwantedInv
  <2> USE <2>0 DEF IInv, TypeOK, ServerType, NodeType, OffInv, TodoInv, CreatingInv, NodeServed, Goto
  <2>2. CASE NodeNextState(i)
    BY <1>2, <2>1, <2>2 DEF NodeNextState, HandlerOf, RunStates
  <2>3. CASE NodeProvisioning(i)
    BY <1>2, <2>1, <2>3 DEF NodeProvisioning
  <2>4. CASE NodeCreated(i)
    BY <1>2, <2>1, <2>4 DEF NodeCreated, SetScaleState
  <2>5. CASE NodePreScale(i)
    BY <1>2, <2>1, <2>5 DEF NodePreScale
  <2>6. CASE NodeExecuting(i)
    BY <1>2, <2>1, <2>6 DEF NodeExecuting
  <2>7. CASE NodeReports(i)
    BY <1>2, <2>1, <2>7 DEF NodeReports, SetScaleState
  <2>8. CASE NodeComplete(i)
    BY <1>2, <2>1, <2>8 DEF NodeComplete
  <2>9. CASE NodeFails(i)
    BY <1>2, <2>9 DEF NodeFails
  <2>10. CASE VmFails(i)
    BY <1>2, <2>1, <2>10 DEF VmFails
  <2>11. CASE StartVm(i)
    BY <1>2, <2>1, <2>11 DEF StartVm
  <2>12. CASE StartFails(i)
    BY <1>2, <2>1, <2>12 DEF StartFails
  <2> QED
    BY <2>2, <2>3, <2>4, <2>5, <2>6, <2>7, <2>8, <2>9, <2>10, <2>11, <2>12 DEF NodeStep
<1> QED
  BY <1>1, <1>2 DEF ServeInv

\* What the orchestrator changes of an instance it has not given up.
LEMMA ServedStays ==
  ASSUME IInv, OrchStep \/ TimeLimitPasses \/ StopFails, asked \cap leaving = {},
         NEW i \in asked \ givenUp', NodeServed(i)
  PROVE  NodeServed(i)'
<1> USE DEF server, rtps, nodes, orch, tasks, hist
<1>1. i \in Instances
  BY DEF IInv, TypeOK, HistType
<1>2. givenUp \subseteq givenUp'
  BY DEF OrchStep, OrchNextState, OrchProvisioning, OrchStart, StartWaitEnds, WaitTurn, WaitLists,
       CheckProvisioned, MarkFailed, FetchRun, ScaleDown, WaitPreScale, TimeLimitPasses,
       WaitPreScaleTimesOut, StopVms, StopFails, SetRemoved, ForceCompletion,
       OrchExecuting, OrchReports, OrchComplete
<1>3. i \notin leaving \cup givenUp
  BY <1>2
<1>4. runState' = runState
  BY DEF OrchStep, OrchNextState, OrchProvisioning, OrchStart, StartWaitEnds, WaitTurn, WaitLists,
       CheckProvisioned, MarkFailed, FetchRun, ScaleDown, WaitPreScale, TimeLimitPasses,
       WaitPreScaleTimesOut, StopVms, StopFails, SetRemoved, ForceCompletion,
       OrchExecuting, OrchReports, OrchComplete
<1>5. nDone' = nDone \/ nDone' = nDone \cup oForce
  BY DEF OrchStep, OrchNextState, OrchProvisioning, OrchStart, StartWaitEnds, WaitTurn, WaitLists,
       CheckProvisioned, MarkFailed, FetchRun, ScaleDown, WaitPreScale, TimeLimitPasses,
       WaitPreScaleTimesOut, StopVms, StopFails, SetRemoved, ForceCompletion,
       OrchExecuting, OrchReports, OrchComplete, Forced
<1>6. i \notin oForce
  BY <1>3 DEF IInv, CreatingInv, UnwantedInv
<1>7. scale'[i] = scale[i]
  <2>1. CASE MarkFailed
    BY <1>1, <2>1 DEF MarkFailed
  <2>2. CASE SetRemoved
    BY <1>1, <1>3, <2>2 DEF SetRemoved, IInv, DownInv
  <2>3. CASE OrchReports
    <3>1. i \notin oGone
      BY DEF NodeServed, IInv, DownInv
    <3> QED
      BY <1>1, <2>3, <3>1 DEF OrchReports
  <2>4. CASE ~ MarkFailed /\ ~ SetRemoved /\ ~ OrchReports
    BY <2>4 DEF OrchStep, OrchNextState, OrchProvisioning, OrchStart, StartWaitEnds, WaitTurn,
       WaitLists, CheckProvisioned, FetchRun, ScaleDown, WaitPreScale, TimeLimitPasses,
       WaitPreScaleTimesOut, StopVms, StopFails, ForceCompletion, OrchExecuting, OrchComplete
  <2> QED
    BY <2>1, <2>2, <2>3, <2>4
<1>8. vm'[i] = vm[i] /\ nPc'[i] = nPc[i] /\ nAt' = nAt
  <2>1. i \notin Stopped
    BY <1>1, <1>3 DEF Stopped, InState, IInv, UnwantedInv
  <2>2. CASE StopVms \/ StopFails
    BY <1>1, <2>1, <2>2 DEF StopVms, StopFails, Stop
  <2>3. CASE ~ StopVms /\ ~ StopFails
    BY <2>3 DEF OrchStep, OrchNextState, OrchProvisioning, OrchStart, StartWaitEnds, WaitTurn,
       WaitLists, CheckProvisioned, MarkFailed, FetchRun, ScaleDown, WaitPreScale, TimeLimitPasses,
       WaitPreScaleTimesOut, SetRemoved, ForceCompletion, OrchExecuting, OrchReports, OrchComplete
  <2> QED
    BY <2>2, <2>3
<1> QED
  BY <1>4, <1>5, <1>6, <1>7, <1>8 DEF NodeServed

\* Instances are given up when all of them that are in creating were counted.
LEMMA ServeOrch ==
  ASSUME IInv, AtInv, ServeInv, OrchStep \/ TimeLimitPasses \/ StopFails
  PROVE  ServeInv'
<1> USE DEF server, rtps, nodes, orch, tasks, hist
<1>1. trouble' = trouble \/ trouble'
  BY DEF OrchStep, OrchNextState, OrchProvisioning, OrchStart, StartWaitEnds, WaitTurn, WaitLists,
       CheckProvisioned, MarkFailed, FetchRun, ScaleDown, WaitPreScale, TimeLimitPasses,
       WaitPreScaleTimesOut, StopVms, StopFails, SetRemoved, ForceCompletion,
       OrchExecuting, OrchReports, OrchComplete, OrchFail
<1>2. (abort' = abort \/ trouble') /\ UNCHANGED <<runState, leaving, asked>>
  BY DEF OrchStep, OrchNextState, OrchProvisioning, OrchStart, StartWaitEnds, WaitTurn, WaitLists,
       CheckProvisioned, MarkFailed, FetchRun, ScaleDown, WaitPreScale, TimeLimitPasses,
       WaitPreScaleTimesOut, StopVms, StopFails, SetRemoved, ForceCompletion,
       OrchExecuting, OrchReports, OrchComplete, OrchFail
<1> DEFINE Early == {"provisioning", "classify", "starting", "wait", "list", "waited", "mark"}
           Before == runState = "Provisioning" /\ (oAt # "Provisioning" \/ oPc \in Early)
<1>3. \A i \in asked' \ givenUp' : ~ trouble' => NodeServed(i)'
  <2>1. givenUp \subseteq givenUp'
    BY DEF OrchStep, OrchNextState, OrchProvisioning, OrchStart, StartWaitEnds, WaitTurn, WaitLists,
       CheckProvisioned, MarkFailed, FetchRun, ScaleDown, WaitPreScale, TimeLimitPasses,
       WaitPreScaleTimesOut, StopVms, StopFails, SetRemoved, ForceCompletion,
       OrchExecuting, OrchReports, OrchComplete
  <2> QED
    BY <1>1, <1>2, <2>1, ServedStays DEF ServeInv
<1>4. CASE MarkFailed
  <2>1. oPc = "mark" /\ oPc' = "scale_down" /\ oAt' = oAt /\ oAllowed' = oAllowed /\ oList' = oList
    BY <1>4 DEF MarkFailed, OrchGoto
  <2>2. oAt = "Provisioning" /\ runState = "Provisioning"
    BY <2>1 DEF IInv, FreshInv, AtInv
  <2>3. ASSUME ~ trouble PROVE Cardinality(asked' \cap givenUp') <= oAllowed'
    <3>1. asked \cap givenUp = {} /\ Cardinality(oList) <= oAllowed
      BY <2>1, <2>2, <2>3 DEF ServeInv
    <3>2. asked' \cap givenUp' = asked \cap oList
      BY <1>2, <1>4, <3>1 DEF MarkFailed
    <3>3. oList \in SUBSET Instances /\ oAllowed \in Nat
      BY DEF IInv, TypeOK, OrchType
    <3>4. Cardinality(asked \cap oList) <= Cardinality(oList)
      BY <3>3, FewerOf
    <3>5. Cardinality(asked \cap oList) \in Nat /\ Cardinality(oList) \in Nat
      BY <3>3, Sizes
    <3> QED
      BY <2>1, <3>1, <3>2, <3>3, <3>4, <3>5
  <2> QED
    BY <1>1, <1>2, <1>3, <2>1, <2>2, <2>3 DEF ServeInv
<1>5. CASE StartWaitEnds
  <2>1. oPc = "starting" /\ oAt' = oAt /\ givenUp' = givenUp /\ oPc' # "mark"
    BY <1>5 DEF StartWaitEnds, OrchGoto, OrchFail
  <2>2. oAt = "Provisioning" /\ runState = "Provisioning"
    BY <2>1 DEF IInv, FreshInv, AtInv
  <2>3. ASSUME ~ trouble PROVE asked \cap givenUp = {}
    BY <2>1, <2>2, <2>3 DEF ServeInv
  <2>4. oAllowed' \in Nat
    BY <1>5 DEF StartWaitEnds, IInv, TypeOK, OrchType, ServerType
  <2>5. ~ trouble => Cardinality(asked' \cap givenUp') <= oAllowed'
    BY <1>2, <2>1, <2>3, <2>4, FS_EmptySet
  <2> QED
    BY <1>1, <1>2, <1>3, <2>1, <2>3, <2>5 DEF ServeInv
<1>6. CASE CheckProvisioned
  <2>1. oPc = "waited" /\ UNCHANGED <<oAt, givenUp, oAllowed>>
    BY <1>6 DEF CheckProvisioned
  <2>2. oAt = "Provisioning" /\ runState = "Provisioning"
    BY <2>1 DEF IInv, FreshInv, AtInv
  <2>3. oPc' = "mark" => Cardinality(oList') <= oAllowed
    <3>1. Cardinality(Creating) \in Nat /\ oAllowed \in Nat
      BY Sizes DEF Creating, IInv, TypeOK, OrchType
    <3>2. oPc' = "mark" => oList' = Creating /\ ~ TooMany(Creating)
      BY <1>6 DEF CheckProvisioned, OrchGoto, OrchFail
    <3> QED
      BY <3>1, <3>2 DEF TooMany
  <2> QED
    BY <1>1, <1>2, <1>3, <2>1, <2>2, <2>3 DEF ServeInv
<1>7. CASE OrchNextState
  <2>1. UNCHANGED <<givenUp, oAllowed>> /\ oPc' # "mark" /\ oAt # runState
    BY <1>7 DEF OrchNextState, OrchGoto, HandlerOf, IInv, TypeOK, ServerType, RunStates
  <2> QED
    BY <1>1, <1>2, <1>3, <2>1 DEF ServeInv
<1>8. CASE ~ MarkFailed /\ ~ StartWaitEnds /\ ~ CheckProvisioned /\ ~ OrchNextState
  <2>1. /\ UNCHANGED <<oAt, givenUp, oAllowed>> /\ (oPc' # "mark" \/ oPc' = oPc)
        /\ oPc' = "mark" => oList' = oList
        /\ oPc' \in Early => oPc \in Early
    BY <1>8 DEF OrchStep, OrchProvisioning, OrchStart, WaitTurn, WaitLists, OrchGoto, OrchFail,
       FetchRun, ScaleDown, WaitPreScale, TimeLimitPasses,
       WaitPreScaleTimesOut, StopVms, StopFails, SetRemoved, ForceCompletion,
       OrchExecuting, OrchReports, OrchComplete
  <2>2. UNCHANGED <<oAt, givenUp, oAllowed>>
    BY <1>8 DEF OrchStep, OrchProvisioning, OrchStart, WaitTurn, WaitLists, OrchGoto, OrchFail,
       FetchRun, ScaleDown, WaitPreScale, TimeLimitPasses,
       WaitPreScaleTimesOut, StopVms, StopFails, SetRemoved, ForceCompletion,
       OrchExecuting, OrchReports, OrchComplete
  <2> QED
    BY <1>1, <1>2, <1>3, <2>1, <2>2 DEF ServeInv
<1> QED
  BY <1>4, <1>5, <1>6, <1>7, <1>8


LEMMA KeyInit == ASSUME Init PROVE KeyInv
BY DEF Init, KeyInv

\* From key on an executor only sets created, and others set removing; the VM is
\* down of an instance that is removed.
LEMMA KeyStep == ASSUME IInv, AtInv, KeyInv, [Next]_vars PROVE KeyInv'
<1> USE DEF KeyInv, IInv, TypeOK, ServerType, NodeType, OffInv, CreatingInv, server, rtps, nodes,
            orch, tasks, hist
<1>1. CASE ServerAdvance
  BY <1>1 DEF ServerAdvance
<1>2. CASE UserStep
  <2>1. ASSUME NEW S \in SUBSET Instances, NEW t \in 0 .. Cardinality(S), NodeAdd(S, t)
        PROVE  KeyInv'
    BY <2>1 DEF NodeAdd
  <2>2. ASSUME NEW S \in SUBSET Instances, NodeRemove(S) PROVE KeyInv'
    <3>1. runState = "Ready"
      BY <2>2 DEF NodeRemove, StartProvisioning
    <3>2. \A i \in S : nPc[i] # "key"
      BY <2>2 DEF NodeRemove
    <3>3. S \cap oList = {} \/ oPc # "mark"
      BY <3>1 DEF AtInv
    <3> QED
      BY <2>2, <3>2, <3>3 DEF NodeRemove
  <2>3. CASE SetTolerance \/ UserAborts \/ CancelAbort
    BY <2>3 DEF SetTolerance, UserAborts, CancelAbort
  <2> QED
    BY <1>2, <2>1, <2>2, <2>3 DEF UserStep
<1>3. ASSUME NEW i \in Instances,
             NodeStep(i) \/ NodeFails(i) \/ VmFails(i) \/ StartVm(i) \/ StartFails(i)
      PROVE  KeyInv'
  BY <1>3 DEF NodeStep, NodeNextState, NodeProvisioning, NodeCreated, NodePreScale, Goto,
       SetScaleState, HandlerOf, RunStates,
       NodeExecuting, NodeReports, NodeComplete, NodeFails, VmFails, StartVm, StartFails
<1>4. CASE OrchStep \/ TimeLimitPasses \/ StopFails
  <2>1. \A i \in Instances : nPc'[i] = "key" => nPc[i] = "key"
    BY <1>4 DEF OrchStep, OrchNextState, OrchProvisioning, OrchStart, StartWaitEnds, WaitTurn, WaitLists,
       CheckProvisioned, MarkFailed, FetchRun, ScaleDown, WaitPreScale, TimeLimitPasses,
       WaitPreScaleTimesOut, StopVms, StopFails, SetRemoved, ForceCompletion,
       OrchExecuting, OrchReports, OrchComplete, Stop
  <2>2. ASSUME NEW i \in Instances, nPc[i] = "key"
        PROVE  scale'[i] = scale[i] \/ scale'[i] = "removing"
    <3>1. vm[i] = "up"
      BY <2>2
    <3>2. ~ (oPc = "removed" /\ i \in oList) /\ i \notin oGone
      BY <3>1 DEF DownInv, RemovedIsDown
    <3> QED
      BY <1>4, <3>2 DEF OrchStep, OrchNextState, OrchProvisioning, OrchStart, StartWaitEnds, WaitTurn, WaitLists,
       CheckProvisioned, MarkFailed, FetchRun, ScaleDown, WaitPreScale, TimeLimitPasses,
       WaitPreScaleTimesOut, StopVms, StopFails, SetRemoved, ForceCompletion,
       OrchExecuting, OrchReports, OrchComplete
  <2>3. oPc' = "mark" => oList' \cap leaving' = {}
    <3>1. CASE CheckProvisioned
      BY <3>1 DEF CheckProvisioned, Creating, UnwantedInv, OrchGoto, OrchFail
    <3>2. CASE ~ CheckProvisioned
      BY <1>4, <3>2 DEF OrchStep, OrchNextState, OrchProvisioning, OrchStart, StartWaitEnds, WaitTurn, WaitLists,
       CheckProvisioned, MarkFailed, FetchRun, ScaleDown, WaitPreScale, TimeLimitPasses,
       WaitPreScaleTimesOut, StopVms, StopFails, SetRemoved, ForceCompletion,
       OrchExecuting, OrchReports, OrchComplete, OrchGoto, OrchFail, HandlerOf, RunStates
    <3> QED
      BY <3>1, <3>2
  <2> QED
    BY <2>1, <2>2, <2>3
<1>5. CASE UNCHANGED vars
  BY <1>5 DEF vars
<1> QED
  BY <1>1, <1>2, <1>3, <1>4, <1>5 DEF Next

-----------------------------------------------------------------------------
(* PreInv *)

LEMMA PreInit == ASSUME Init PROVE PreInv
<1>0. leaving = {} /\ oPc = "provisioning" /\ asked \in (SUBSET Instances) \ {{}}
  BY DEF Init
<1>1. asked # {} /\ leaving = {} /\ oPc = "provisioning"
  BY <1>0
<1>2. AddOnly
  BY <1>1 DEF AddOnly
<1> QED
  BY <1>1, <1>2 DEF PreInv

LEMMA PreServer == ASSUME AtInv, ServerAdvance PROVE PreInv'
<1>1. oPc' = "poll" /\ runState' # "Provisioning"
  BY DEF ServerAdvance, AtInv, NextState, Handlers, orch
<1> QED
  BY <1>1 DEF PreInv

\* A request comes when none of the instances to remove is up.
LEMMA PreUser ==
  ASSUME IInv, AtInv, KnownInv, KeyInv, PreInv, UserStep
  PROVE  PreInv'
<1> USE DEF server, rtps, nodes, orch, tasks, hist
<1>1. ASSUME StartProvisioning, ~ trouble'
      PROVE  \A i \in Instances : scale[i] = "removing" => vm[i] # "up" /\ nPc[i] # "key"
  <2>1. CASE ~ trouble
    BY <1>1, <2>1 DEF StartProvisioning, KnownInv, IInv, OffInv
  <2>2. CASE Settled
    BY <2>2 DEF Settled, Terminal
  <2> QED
    BY <1>1, <2>1, <2>2 DEF StartProvisioning
<1>2. StartProvisioning => oPc = "poll"
  BY DEF StartProvisioning, AtInv
<1>3. ASSUME NEW S \in SUBSET Instances, NEW t \in 0 .. Cardinality(S), NodeAdd(S, t), ~ trouble'
      PROVE  PreInv'
  <2>1. oPc' = "poll" /\ asked' # {}
    BY <1>2, <1>3 DEF NodeAdd
  <2>2. AddOnly'
    BY <1>1, <1>3, <2>1 DEF NodeAdd, AddOnly, Caching, IInv, TypeOK, ServerType
  <2> QED
    BY <2>1, <2>2 DEF PreInv
<1>4. ASSUME NEW S \in SUBSET Instances, NodeRemove(S), ~ trouble'
      PROVE  PreInv'
  <2>1. oPc' = "poll"
    BY <1>2, <1>4 DEF NodeRemove
  <2>2. \A i \in Instances : scale[i] # "creating" /\ nPc[i] # "key"
    BY <1>1, <1>4 DEF NodeRemove, StartProvisioning, IInv, CreatingInv, KeyInv
  <2>3. \A i \in Instances : scale'[i] = IF i \in S THEN "removing" ELSE scale[i]
    BY <1>4 DEF NodeRemove
  <2>4. deleted \subseteq Instances /\ S \cap deleted = {} /\ UNCHANGED <<nPc, vm, deleted>>
    BY <1>4 DEF NodeRemove, IInv, TypeOK, ServerType
  <2>5. \A i \in deleted' : ~ (scale'[i] = "removing" /\ vm'[i] = "up")
    BY <1>1, <1>4, <2>3, <2>4 DEF NodeRemove
  <2>6. RemoveOnly'
    BY <2>1, <2>2, <2>3, <2>4, <2>5 DEF RemoveOnly, Caching
  <2> QED
    BY <2>1, <2>6, <1>4 DEF PreInv, NodeRemove
<1>5. CASE SetTolerance \/ CancelAbort
  BY <1>5 DEF SetTolerance, CancelAbort, PreInv, RemoveOnly, AddOnly, InState, View
<1>6. CASE UserAborts
  BY <1>6 DEF UserAborts, PreInv
<1> QED
  BY <1>3, <1>4, <1>5, <1>6 DEF UserStep, PreInv

\* In a provisioning that removes, executors do not change what is to be removed and
\* up; elsewhere they make nothing so.
LEMMA PreInstance ==
  ASSUME IInv, AtInv, LoyalInv, PreInv, NEW i \in Instances,
         NodeStep(i) \/ NodeFails(i) \/ VmFails(i) \/ StartVm(i) \/ StartFails(i)
  PROVE  PreInv'
<1> USE DEF server, rtps, nodes, orch, tasks, hist
<1>1. /\ UNCHANGED <<runState, deleted, leaving, oPc, oAt, oList, oCache, asked>>
      /\ trouble' = trouble \/ trouble'
  BY DEF NodeStep, NodeNextState, NodeProvisioning, NodeCreated, NodePreScale,
       NodeExecuting, NodeReports, NodeComplete, NodeFails, VmFails, StartVm, StartFails
<1>2. /\ scale \in [Instances -> ScaleStates] /\ vm \in [Instances -> VmStates]
      /\ nPc \in [Instances -> NodePcs] /\ preDone \in [Instances -> BOOLEAN]
      /\ deleted \subseteq Instances /\ leaving \subseteq Instances
  BY DEF IInv, TypeOK, ServerType, NodeType, FlagType
<1>3. ASSUME NEW j \in Instances
      PROVE  \/ scale'[j] = scale[j]
             \/ nPc[j] = "key" /\ scale'[j] = "created"
             \/ nPc[j] = "reports" /\ scale'[j] = "operational"
  BY <1>2 DEF NodeStep, NodeNextState, NodeProvisioning, NodeCreated, NodePreScale, SetScaleState,
       NodeExecuting, NodeReports, NodeComplete, NodeFails, VmFails, StartVm, StartFails
<1>4. ASSUME NEW j \in Instances, vm'[j] = "up", scale[j] # "creating"
      PROVE  vm[j] = "up"
  BY <1>2, <1>4 DEF NodeStep, NodeNextState, NodeProvisioning, NodeCreated, NodePreScale,
       NodeExecuting, NodeReports, NodeComplete, NodeFails, VmFails, StartVm, StartFails,
       IInv, TodoInv
<1>5. ASSUME NEW j \in Instances, preDone[j] PROVE preDone'[j]
  BY <1>2, <1>5 DEF NodeStep, NodeNextState, NodeProvisioning, NodeCreated, NodePreScale,
       NodeExecuting, NodeReports, NodeComplete, NodeFails, VmFails, StartVm, StartFails
<1>6. ASSUME NEW j \in Instances, nPc'[j] = "key", scale[j] # "creating" PROVE nPc[j] = "key"
  BY <1>2, <1>6 DEF NodeStep, NodeNextState, NodeProvisioning, NodeCreated, NodePreScale, Goto,
       HandlerOf, IInv, TypeOK, ServerType, RunStates,
       NodeExecuting, NodeReports, NodeComplete, NodeFails, VmFails, StartVm, StartFails
<1>7. ASSUME ~ trouble', runState = "Provisioning", RemoveOnly PROVE RemoveOnly'
  <2>1. \A j \in Instances : scale[j] # "creating" /\ nPc[j] # "key"
    BY <1>7 DEF RemoveOnly
  <2>2. \A j \in Instances : scale'[j] = scale[j] \/ scale'[j] = "operational"
    BY <1>3, <2>1
  <2>3. \A j \in Instances : vm'[j] = "up" => vm[j] = "up"
    BY <1>4, <2>1
  <2>4. ASSUME NEW j \in Instances, scale[j] = "removing" PROVE scale'[j] = "removing"
    <3>1. CASE vm[j] # "up"
      BY <1>3, <2>1, <2>4, <3>1 DEF IInv, OffInv
    <3>2. CASE vm[j] = "up"
      <4>1. j \notin deleted
        BY <1>7, <2>4, <3>2 DEF RemoveOnly
      <4>2. nPc[j] # "reports"
        BY <1>1, <1>7, <4>1 DEF LoyalInv
      <4> QED
        BY <1>3, <2>1, <2>4, <4>2
    <3> QED
      BY <3>1, <3>2
  <2>5. \A j \in Instances : scale'[j] # "creating" /\ nPc'[j] # "key"
    BY <1>6, <2>1, <2>2
  <2>6. \A j \in deleted' : ~ (scale'[j] = "removing" /\ vm'[j] = "up")
    <3>1. \A j \in Instances : scale'[j] = "removing" => scale[j] = "removing"
      BY <2>2
    <3> QED
      BY <1>1, <1>2, <1>7, <2>3, <3>1 DEF RemoveOnly
  <2>7. View' = IF oCache = NoCache THEN scale' ELSE View
    BY <1>1 DEF View
  <2>8. ASSUME oPc \in Caching
        PROVE  /\ \A j \in Instances : scale'[j] \notin Terminal => View'[j] \notin Terminal
               /\ \A j \in Instances :
                    View'[j] = "removing" /\ vm'[j] = "up" => scale'[j] = "removing"
    <3>1. CASE oCache = NoCache
      BY <2>7, <3>1
    <3>2. CASE oCache # NoCache
      BY <1>7, <2>2, <2>3, <2>4, <2>7, <2>8, <3>2 DEF RemoveOnly, Terminal
    <3> QED
      BY <3>1, <3>2
  <2>9. ASSUME oPc \in Caching \ {"classify"},
               NEW j \in Instances, View'[j] = "removing" /\ vm'[j] = "up",
               NEW k \in Instances, View'[k] \notin Terminal
        PROVE  scale'[k] = "removing"
    <3>1. View[j] = "removing" /\ vm[j] = "up" /\ View[k] \notin Terminal
      <4>1. CASE oCache = NoCache
        <5>1. View = scale /\ View' = scale'
          BY <2>7, <4>1 DEF View
        <5> QED
          BY <2>2, <2>3, <2>9, <5>1 DEF Terminal
      <4>2. CASE oCache # NoCache
        BY <2>3, <2>7, <2>9, <4>2
      <4> QED
        BY <4>1, <4>2
    <3>2. scale[k] = "removing"
      BY <1>7, <2>9, <3>1 DEF RemoveOnly
    <3> QED
      BY <2>4, <3>2
  <2>10. oPc' = "mark" => oList' = {}
    BY <1>1, <1>7 DEF RemoveOnly
  <2> QED
    BY <1>1, <2>5, <2>6, <2>8, <2>9, <2>10 DEF RemoveOnly
<1>8. ASSUME AddOnly PROVE AddOnly'
  <2>1. ASSUME NEW j \in leaving, vm'[j] = "up"
        PROVE  scale'[j] # "removing" /\ (oPc \in Caching => View'[j] # "removing")
    <3>1. vm[j] = "up"
      BY <1>2, <1>4, <2>1 DEF IInv, UnwantedInv
    <3>2. scale[j] # "removing" /\ (oPc \in Caching => View[j] # "removing")
      BY <1>8, <3>1 DEF AddOnly
    <3>3. scale'[j] # "removing"
      BY <1>2, <1>3, <3>2
    <3> QED
      BY <1>1, <3>2, <3>3 DEF View
  <2> QED
    BY <1>1, <2>1 DEF AddOnly
<1>9. ASSUME oPc \in {"wait_pre", "stop"} PROVE View' = View
  BY <1>1, <1>9 DEF View, AtInv
<1>10. ASSUME ~ trouble', oPc = "stop", NEW j \in leaving, View'[j] = "removing", vm'[j] = "up"
       PROVE  preDone'[j]
  <2>1. vm[j] = "up"
    BY <1>2, <1>4, <1>10 DEF IInv, UnwantedInv
  <2> QED
    BY <1>1, <1>2, <1>5, <1>9, <1>10, <2>1 DEF PreInv
<1>11. ASSUME ~ trouble', oPc = "wait_pre" PROVE oList' = InState("removing")'
  BY <1>1, <1>9, <1>11 DEF PreInv, InState
<1> QED
  BY <1>1, <1>7, <1>8, <1>10, <1>11 DEF PreInv

\* When all effective states are one and the same, a state among them is this one.
LEMMA OneState ==
  ASSUME NEW x \in EffectiveStates, NEW y \in EffectiveStates,
         Cardinality(EffectiveStates) <= 1
  PROVE  x = y
<1> DEFINE Scaling == {j \in Instances : View[j] \notin Terminal}
           f == [j \in Scaling |-> scale[j]]
<1>1. IsFiniteSet(Scaling)
  BY ProvisioningAssumption, FS_Subset
<1>2. f \in Surjection(Scaling, EffectiveStates)
  BY DEF Surjection, EffectiveStates
<1>3. IsFiniteSet(EffectiveStates)
  BY <1>1, <1>2, FS_Surjection
<1>4. Cardinality(EffectiveStates) \in Nat
  BY <1>3, FS_CardinalityType
<1>5. Cardinality(EffectiveStates \ {x}) = Cardinality(EffectiveStates) - 1
      /\ IsFiniteSet(EffectiveStates \ {x})
  BY <1>3, FS_RemoveElement
<1>6. Cardinality(EffectiveStates \ {x}) \in Nat
  BY <1>5, FS_CardinalityType
<1>7. Cardinality(EffectiveStates \ {x}) = 0
  BY <1>4, <1>5, <1>6
<1>8. EffectiveStates \ {x} = {}
  BY <1>5, <1>7, FS_EmptySet
<1> QED
  BY <1>8

\* Between two looks at the Run it may be fetched again, and nothing changes else.
LEMMA Refetch ==
  ASSUME KnownInv, ~ trouble, runState = "Provisioning", oAt = "Provisioning",
         oPc \in Caching \ {"classify"}, RemoveOnly, View' = scale \/ View' = View,
         oPc' = "mark" => oList' = {},
         UNCHANGED <<scale, vm, nPc, deleted>>
  PROVE  RemoveOnly'
<1>1. \A j \in Instances : scale[j] = "removing" => View[j] = "removing"
  BY DEF KnownInv
<1>2. \A j \in Instances : scale[j] \notin Terminal => View[j] \notin Terminal
  BY DEF RemoveOnly
<1>3. CASE View' = scale
  BY <1>1, <1>2, <1>3 DEF RemoveOnly
<1>4. CASE View' = View
  BY <1>4 DEF RemoveOnly
<1> QED
  BY <1>3, <1>4

\* Steps of the orchestrator from the fetch of the Run to the decision.
LEMMA PreWait ==
  ASSUME IInv, AtInv, KnownInv, LoyalInv, KeyInv, PreInv,
         StartWaitEnds \/ WaitTurn \/ WaitLists \/ CheckProvisioned \/ MarkFailed \/ FetchRun
  PROVE  PreInv'
<1> USE DEF server, rtps, nodes, orch, tasks, hist, OrchGoto, OrchFail
<1> SUFFICES ASSUME ~ trouble' PROVE PreInv'
  BY DEF PreInv
<1>1. ~ trouble /\ ~ abort
  BY DEF LoyalInv, StartWaitEnds, WaitTurn, WaitLists, CheckProvisioned, MarkFailed, FetchRun
<1>2. /\ oPc \in {"starting", "wait", "list", "waited", "mark", "scale_down"}
      /\ oPc' \in {"wait", "list", "waited", "mark", "scale_down", "decide"}
      /\ UNCHANGED <<runState, leaving, asked, vm, nPc, oAt>>
  BY DEF StartWaitEnds, WaitTurn, WaitLists, CheckProvisioned, MarkFailed, FetchRun
<1>3. runState = "Provisioning" /\ oAt = "Provisioning"
  BY <1>2 DEF IInv, FreshInv, AtInv
<1>4. MarkFailed \/ (UNCHANGED <<scale, deleted>> /\ (View' = scale \/ View' = View))
  BY DEF StartWaitEnds, WaitTurn, WaitLists, CheckProvisioned, FetchRun, View
<1>5. CASE asked = {}
  <2>1. RemoveOnly
    BY <1>1, <1>3, <1>5 DEF PreInv
  <2>2. oPc' = "mark" => oList' = {}
    BY <1>2, <2>1 DEF RemoveOnly, Creating, StartWaitEnds, WaitTurn, WaitLists, CheckProvisioned,
         MarkFailed, FetchRun
  <2>3. UNCHANGED <<scale, deleted>> /\ (View' = scale \/ View' = View)
    <3>1. CASE MarkFailed
      <4>1. oList = {}
        BY <2>1, <3>1 DEF MarkFailed, RemoveOnly
      <4>2. UNCHANGED <<scale, deleted>>
        BY <1>1, <3>1, <4>1 DEF MarkFailed, IInv, TypeOK, ServerType
      <4> QED
        BY <1>1, <3>1, <4>2 DEF MarkFailed, Discarded, View
    <3> QED
      BY <1>4, <3>1
  <2>4. RemoveOnly'
    BY <1>1, <1>2, <1>3, <2>1, <2>2, <2>3, Refetch DEF Caching
  <2> QED
    BY <1>2, <1>3, <1>5, <2>4 DEF PreInv
<1>6. CASE asked # {}
  <2>1. AddOnly
    BY <1>1, <1>3, <1>6 DEF PreInv
  <2>2. \A i \in leaving : vm[i] = "up" => scale[i] # "removing" /\ View[i] # "removing"
    BY <1>2, <2>1 DEF AddOnly, Caching
  <2>3. \A i \in leaving : scale'[i] = scale[i] /\ (View'[i] = scale[i] \/ View'[i] = View[i])
    <3>1. CASE MarkFailed
      <4>1. \A i \in leaving : scale'[i] = scale[i]
        BY <3>1 DEF MarkFailed, KeyInv, IInv, TypeOK, ServerType
      <4>2. View' = scale'
        BY <1>1, <3>1 DEF MarkFailed, Discarded, View
      <4> QED
        BY <4>1, <4>2
    <3> QED
      BY <1>4, <3>1
  <2>4. AddOnly'
    BY <1>2, <2>2, <2>3 DEF AddOnly
  <2> QED
    BY <1>2, <1>3, <1>6, <2>4 DEF PreInv
<1> QED
  BY <1>5, <1>6

\* A VM that is up of an instance that a user removed is not left out of the wait.
LEMMA PreDecide == ASSUME IInv, AtInv, PreInv, ScaleDown PROVE PreInv'
<1> USE DEF server, rtps, nodes, orch, tasks, hist
<1> SUFFICES ASSUME ~ trouble PROVE PreInv'
  BY DEF PreInv, ScaleDown
<1>1. /\ oPc = "decide" /\ oPc' \in {"wait_pre", "stop"} /\ oList' = InState("removing")
      /\ UNCHANGED <<runState, oAt, scale, vm, nPc, preDone, asked, leaving, deleted, oCache>>
  BY DEF ScaleDown, OrchGoto
<1>2. runState = "Provisioning" /\ View' = View
  BY <1>1 DEF IInv, FreshInv, AtInv, View
<1>3. ASSUME NEW i \in leaving, View[i] = "removing", vm[i] = "up"
      PROVE  EffectiveStates = {"removing"}
  <2>1. i \in Instances /\ RemoveOnly
    BY <1>1, <1>2, <1>3 DEF PreInv, AddOnly, Caching, IInv, TypeOK, ServerType
  <2>2. \A j \in Instances : View[j] \notin Terminal => scale[j] = "removing"
    BY <1>1, <1>3, <2>1 DEF RemoveOnly, Caching
  <2>3. View[i] \notin Terminal
    BY <1>3 DEF Terminal
  <2> QED
    BY <2>1, <2>2, <2>3 DEF EffectiveStates
<1>4. oPc' = "stop" => \A i \in leaving : ~ (View[i] = "removing" /\ vm[i] = "up")
  BY <1>3 DEF ScaleDown, OrchGoto
<1>5. InState("removing")' = InState("removing")
  BY <1>2 DEF InState
<1>6. asked = {} => RemoveOnly'
  BY <1>1, <1>2 DEF PreInv, RemoveOnly, Caching
<1>7. asked # {} => AddOnly'
  BY <1>1, <1>2 DEF PreInv, AddOnly, Caching
<1> QED
  BY <1>1, <1>4, <1>2, <1>5, <1>6, <1>7 DEF PreInv

\* OrchStart goes on when all that is scaling is in one state.
LEMMA PreStart == ASSUME IInv, AtInv, PreInv, OrchStart PROVE PreInv'
<1> USE DEF server, rtps, nodes, orch, tasks, hist
<1> SUFFICES ASSUME ~ trouble' PROVE PreInv'
  BY DEF PreInv
<1>1. /\ oPc = "classify" /\ oPc' \in {"starting", "scale_down"} /\ ~ trouble
      /\ Cardinality(EffectiveStates) <= 1
      /\ UNCHANGED <<runState, oAt, scale, vm, nPc, asked, leaving, deleted, oCache>>
  BY DEF OrchStart, OrchGoto, OrchFail
<1>2. runState = "Provisioning" /\ View' = View
  BY <1>1 DEF IInv, FreshInv, AtInv, View
<1>3. ASSUME RemoveOnly, NEW i \in Instances, View[i] = "removing", vm[i] = "up",
             NEW j \in Instances, View[j] \notin Terminal
      PROVE  scale[j] = "removing"
  <2>1. scale[i] = "removing"
    BY <1>1, <1>3 DEF RemoveOnly, Caching
  <2>2. scale[i] \in EffectiveStates /\ scale[j] \in EffectiveStates
    BY <1>3 DEF EffectiveStates, Terminal
  <2> QED
    BY <1>1, <2>1, <2>2, OneState
<1>4. asked = {} => RemoveOnly'
  BY <1>1, <1>2, <1>3 DEF PreInv, RemoveOnly, Caching
<1>5. asked # {} => AddOnly'
  BY <1>1, <1>2 DEF PreInv, AddOnly, Caching
<1> QED
  BY <1>1, <1>4, <1>5 DEF PreInv

\* The other steps of the orchestrator leave the cache, or fill it at the start.
LEMMA PreOther ==
  ASSUME IInv, AtInv, LoyalInv, PreInv,
         \/ OrchNextState \/ OrchProvisioning \/ TimeLimitPasses \/ WaitPreScale
         \/ WaitPreScaleTimesOut \/ StopVms \/ StopFails \/ SetRemoved \/ ForceCompletion
         \/ OrchExecuting \/ OrchReports \/ OrchComplete
  PROVE  PreInv'
<1> USE DEF server, rtps, nodes, orch, tasks, hist, OrchGoto, OrchFail
<1> SUFFICES ASSUME ~ trouble' PROVE PreInv'
  BY DEF PreInv
<1>1. /\ ~ trouble
      /\ UNCHANGED <<runState, preDone, asked, leaving, deleted>>
  BY DEF OrchNextState, OrchProvisioning, TimeLimitPasses, WaitPreScale, WaitPreScaleTimesOut,
         StopVms, StopFails, SetRemoved, ForceCompletion, OrchExecuting, OrchReports, OrchComplete
<1>2. /\ scale \in [Instances -> ScaleStates] /\ vm \in [Instances -> VmStates]
      /\ nPc \in [Instances -> NodePcs]
      /\ deleted \subseteq Instances /\ leaving \subseteq Instances
  BY DEF IInv, TypeOK, ServerType, NodeType
<1>3. \A i \in Instances : /\ scale'[i] = scale[i] \/ scale'[i] \in {"removed", "gone"}
                           /\ vm'[i] = "up" => vm[i] = "up"
                           /\ nPc'[i] = "key" => nPc[i] = "key"
  BY <1>2 DEF OrchNextState, OrchProvisioning, TimeLimitPasses, WaitPreScale, WaitPreScaleTimesOut, Stop,
         StopVms, StopFails, SetRemoved, ForceCompletion, OrchExecuting, OrchReports, OrchComplete
<1>4. \/ oPc' \notin Caching
      \/ oPc' = "classify" /\ View' = scale /\ UNCHANGED <<scale, vm>>
      \/ /\ oPc' \in Caching \ {"classify"} /\ (oPc' = oPc \/ (oPc = "wait_pre" /\ oPc' = "stop"))
         /\ UNCHANGED <<scale, vm, oList, oCache>>
    BY DEF OrchNextState, OrchProvisioning, TimeLimitPasses, WaitPreScale, WaitPreScaleTimesOut,
         StopVms, StopFails, SetRemoved, ForceCompletion, OrchExecuting, OrchReports, OrchComplete,
         Caching, HandlerOf, View, IInv, TypeOK, ServerType, RunStates
<1>5. ASSUME runState = "Provisioning", asked = {} PROVE RemoveOnly'
  <2>1. RemoveOnly
    BY <1>1, <1>5 DEF PreInv
  <2>2. \A i \in Instances : scale'[i] # "creating" /\ nPc'[i] # "key"
    BY <1>3, <2>1 DEF RemoveOnly
  <2>3. \A i \in deleted' : ~ (scale'[i] = "removing" /\ vm'[i] = "up")
    BY <1>1, <1>2, <1>3, <2>1 DEF RemoveOnly
  <2>4. CASE oPc' \notin Caching
    BY <2>2, <2>3, <2>4 DEF RemoveOnly, Caching
  <2>5. CASE oPc' = "classify" /\ View' = scale /\ UNCHANGED <<scale, vm>>
    BY <2>2, <2>3, <2>5 DEF RemoveOnly
  <2>6. CASE /\ oPc' \in Caching \ {"classify"} /\ (oPc' = oPc \/ (oPc = "wait_pre" /\ oPc' = "stop"))
             /\ UNCHANGED <<scale, vm, oList, oCache>>
    <3>1. View' = View /\ oPc \in Caching \ {"classify"} /\ (oPc' = "mark" => oPc = "mark")
      BY <2>6 DEF View, Caching
    <3> QED
      BY <2>1, <2>2, <2>3, <2>6, <3>1 DEF RemoveOnly
  <2> QED
    BY <1>4, <2>4, <2>5, <2>6
<1>6. ASSUME runState = "Provisioning", asked # {} PROVE AddOnly'
  <2>1. AddOnly
    BY <1>1, <1>6 DEF PreInv
  <2>2. ASSUME NEW i \in leaving, vm'[i] = "up"
        PROVE  scale'[i] # "removing" /\ (oPc' \in Caching => View'[i] # "removing")
    <3>1. vm[i] = "up" /\ scale[i] # "removing" /\ (oPc \in Caching => View[i] # "removing")
      BY <1>2, <1>3, <2>1, <2>2 DEF AddOnly
    <3>2. scale'[i] # "removing"
      BY <1>2, <1>3, <3>1
    <3>3. CASE oPc' \in Caching \ {"classify"}
      BY <1>4, <3>1, <3>2, <3>3 DEF View, Caching
    <3>4. CASE oPc' = "classify"
      BY <1>4, <3>1, <3>2, <3>4 DEF Caching
    <3> QED
      BY <3>2, <3>3, <3>4
  <2> QED
    BY <1>1, <2>2 DEF AddOnly
<1>7. oPc' = "wait_pre" => oList' = InState("removing")'
  BY <1>1, <1>4 DEF PreInv, InState, View, Caching
<1>8. ASSUME oPc' = "stop", NEW i \in leaving, View'[i] = "removing", vm'[i] = "up" PROVE preDone'[i]
  <2>1. View'[i] = View[i] /\ vm[i] = "up" /\ i \in Instances
    BY <1>2, <1>4, <1>8 DEF View, Caching
  <2>2. CASE oPc = "stop"
    BY <1>1, <1>8, <2>1, <2>2 DEF PreInv
  <2>3. CASE oPc = "wait_pre"
    <3>1. WaitPreScale
      BY <1>1, <1>8, <2>3 DEF OrchNextState, OrchProvisioning, TimeLimitPasses, WaitPreScaleTimesOut,
         StopVms, StopFails, SetRemoved, ForceCompletion, OrchExecuting, OrchReports, OrchComplete
    <3>2. i \in oList
      BY <1>1, <1>8, <2>1, <2>3 DEF PreInv, InState
    <3> QED
      BY <1>1, <3>1, <3>2 DEF WaitPreScale, PreScaled
  <2> QED
    BY <1>4, <1>8, <2>2, <2>3 DEF Caching
<1> QED
  BY <1>1, <1>5, <1>6, <1>7, <1>8 DEF PreInv

\* What KnownInv, LoyalInv, ServeInv and PreInv say is kept by every step.
LEMMA OutcomeStep ==
  ASSUME IInv, AtInv, KnownInv, LoyalInv, ServeInv, KeyInv, PreInv, [Next]_vars
  PROVE  KnownInv' /\ LoyalInv' /\ ServeInv' /\ PreInv'
<1>1. CASE ServerAdvance
  BY <1>1, KnownUser, LoyalServer, ServeServer, PreServer DEF IInv
<1>2. CASE UserStep
  BY <1>2, KnownUser, LoyalUser, ServeUser, PreUser DEF IInv
<1>3. CASE OrchStep \/ TimeLimitPasses \/ StopFails
  <2>1. PreInv'
    BY <1>3, PreWait, PreDecide, PreStart, PreOther DEF OrchStep
  <2>2. KnownInv' /\ LoyalInv' /\ ServeInv'
    BY <1>3, KnownOrch, LoyalOrch, ServeOrch DEF LoyalInv
  <2> QED
    BY <2>1, <2>2
<1>4. ASSUME NEW i \in Instances,
             NodeStep(i) \/ NodeFails(i) \/ VmFails(i) \/ StartVm(i) \/ StartFails(i)
      PROVE  KnownInv' /\ LoyalInv' /\ ServeInv' /\ PreInv'
  BY <1>4, KnownInstance, LoyalInstance, ServeInstance, PreInstance
<1>5. CASE UNCHANGED vars
  <2> USE <1>5 DEF View, InState, vars, server, rtps, nodes, orch, tasks, hist
  <2>1. KnownInv' /\ LoyalInv'
    BY DEF KnownInv, LoyalInv
  <2>2. ServeInv'
    BY DEF ServeInv, NodeServed
  <2>3. PreInv'
    BY DEF PreInv, RemoveOnly, AddOnly
  <2> QED
    BY <2>1, <2>2, <2>3
<1> QED
  BY <1>1, <1>2, <1>3, <1>4, <1>5 DEF Next

\* All of these hold of every run.
THEOREM OutcomeInvariance ==
  Spec => [](IInv /\ AtInv /\ KnownInv /\ LoyalInv /\ ServeInv /\ KeyInv /\ PreInv)
<1> DEFINE All == IInv /\ AtInv /\ KnownInv /\ LoyalInv /\ ServeInv /\ KeyInv /\ PreInv
<1>1. Init => All
  BY TypeInit, SafeInit, AtInit, KnownInit, LoyalInit, ServeInit, KeyInit, PreInit DEF IInv, Safe
<1>2. All /\ [Next]_vars => All'
  BY SafeStep, AtStep, KeyStep, OutcomeStep DEF IInv
<1> QED
  BY <1>1, <1>2, PTL DEF Spec

\* No VM of an instance to remove outlives the provisioning that had to stop it.
THEOREM RemovingSafe == Spec => []RemovingIsStopped
<1>1. KnownInv => RemovingIsStopped
  BY DEF KnownInv, RemovingIsStopped
<1> QED
  BY <1>1, OutcomeInvariance, PTL

\* A run that is Ready again without trouble serves all that was asked for, but for
\* no more instances than the orchestrator knew to be allowed to fail.
THEOREM ServedSafe == Spec => []EnoughServed
<1>1. ASSUME IInv, ServeInv, runState = "Ready", ~ trouble
      PROVE  Cardinality({i \in asked : scale[i] = "operational"}) + oAllowed >= Cardinality(asked)
  <2> DEFINE Served == {i \in asked : scale[i] = "operational"}
             Failed == asked \ Served
  <2>1. asked \in SUBSET Instances /\ oAllowed \in Nat
    BY <1>1 DEF IInv, TypeOK, HistType, OrchType
  <2>2. Failed \subseteq asked \cap givenUp
    BY <1>1 DEF ServeInv, NodeServed
  <2>3. /\ Cardinality(Served) \in Nat /\ Cardinality(Failed) \in Nat
        /\ Cardinality(asked) \in Nat /\ Cardinality(asked \cap givenUp) \in Nat
    BY <2>1, Sizes
  <2>4. Cardinality(Failed) <= Cardinality(asked \cap givenUp)
    BY <2>1, <2>2, FewerOf
  <2>5. Cardinality(asked \cap givenUp) <= oAllowed
    BY <1>1 DEF ServeInv
  <2>6. Cardinality(Failed) = Cardinality(asked) - Cardinality(Served)
    <3>1. asked \cap Served = Served
      OBVIOUS
    <3>2. IsFiniteSet(asked)
      BY <2>1, ProvisioningAssumption, FS_Subset
    <3> QED
      BY <3>1, <3>2, FS_Difference
  <2>7. ASSUME NEW a \in Nat, NEW b \in Nat, NEW c \in Nat, NEW d \in Nat, NEW e \in Nat,
               a = b - c, a <= d, d <= e
        PROVE  c + e >= b
    BY <2>7
  <2> HIDE DEF Served, Failed
  <2>8. Cardinality(Served) + oAllowed >= Cardinality(asked)
    BY <2>1, <2>3, <2>4, <2>5, <2>6, <2>7
  <2> QED
    BY <2>8 DEF Served
<1>2. IInv /\ ServeInv => EnoughServed
  BY <1>1 DEF EnoughServed
<1> QED
  BY <1>2, OutcomeInvariance, PTL

\* The orchestrator stops no VM that a user removed before its prescale script
\* ended, but in trouble.
THEOREM PreScaleSafe == Spec => PreScaleBeforeStop
<1> DEFINE Prescaled == \A i \in leaving :
                          vm[i] = "up" /\ vm'[i] = "stopped" => preDone[i] \/ trouble
<1>1. ASSUME IInv, PreInv, [Next]_vars PROVE [Prescaled]_vars
  <2> SUFFICES ASSUME Next, NEW i \in leaving, vm[i] = "up", vm'[i] = "stopped", ~ trouble
               PROVE  preDone[i]
    BY <1>1
  <2>1. i \in Instances /\ TypeOK
    BY <1>1 DEF IInv, TypeOK, ServerType
  <2>2. oPc = "stop" /\ View[i] = "removing"
    BY <2>1, StopFrom
  <2> QED
    BY <1>1, <2>2 DEF PreInv
<1> QED
  BY <1>1, OutcomeInvariance, PTL DEF Spec, PreScaleBeforeStop
=============================================================================
