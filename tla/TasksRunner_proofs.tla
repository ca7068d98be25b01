-------------------------- MODULE TasksRunner_proofs --------------------------
(***************************************************************************)
(* For any number of tasks and of workers: the pool is type correct, a     *)
(* wait that returns has seen every task done, and the pool implements     *)
(* TaskBatch.                                                              *)
(***************************************************************************)
EXTENDS TasksRunner, TLAPS

SomeFailed == \E t \in Tasks : outcome[t] = "failed"

\* Tasks leave the queue first in first out, and only then get an outcome.
QueueInv == \A t \in Tasks : outcome[t] = "queued" <=> t > taken

\* A running task is in the hands of exactly one thread.
RunInv ==
  /\ \A w \in Workers : pc[w] = "run" => task[w] \in Tasks /\ outcome[task[w]] = "running"
  /\ \A v, w \in Workers : pc[v] = "run" /\ pc[w] = "run" /\ task[v] = task[w] => v = w
  /\ \A t \in Tasks : outcome[t] = "running" => \E w \in Workers : pc[w] = "run" /\ task[w] = t

\* Exceptions are on their way, and in the queue, only when a task failed.
ExcInv ==
  /\ \A w \in Workers : pc[w] = "raise" => SomeFailed
  /\ excs > 0 => SomeFailed
  /\ caller = "raised" => SomeFailed

\* A failure that the caller has not heard of is in the exception queue, or about to be.
PendingInv ==
  ~IgnoreException /\ caller # "raised" /\ SomeFailed =>
    excs > 0 \/ \E w \in Workers : pc[w] = "raise"

\* Threads are started in order, all of them before the caller waits, and die only
\* when the queue is empty or a task has failed.
ThreadInv ==
  /\ \A w \in Workers : pc[w] = "new" <=> w > started
  /\ caller # "start" => started >= NumWorkers
  /\ caller # "raised" => \A w \in Workers : ~alive[w] => pc[w] \in {"new", "dead"}
  /\ \A w \in Workers : pc[w] \in {"exit", "dead"} => taken = NTasks \/ SomeFailed

\* The last look at the exceptions is taken when every thread is dead.
CallerInv ==
  /\ caller \in {"last", "returned"} => \A w \in Workers : pc[w] = "dead"
  /\ ~IgnoreException /\ caller = "returned" => ~SomeFailed

IInv == TypeOK /\ QueueInv /\ RunInv /\ ExcInv /\ PendingInv /\ ThreadInv /\ CallerInv

\* Changing one value of a function keeps its type, whether or not the index is in
\* its domain: the outcomes of tasks and the places of threads change this way.
LEMMA ExceptType ==
  ASSUME NEW S, NEW T, NEW f \in [S -> T], NEW x, NEW y \in T
  PROVE  [f EXCEPT ![x] = y] \in [S -> T]
OBVIOUS

\* The number of threads that run_tasks starts is an integer, perhaps a negative one.
LEMMA NumWorkersType == NumWorkers \in Int
BY BatchAssumption DEF NumWorkers

-----------------------------------------------------------------------------
\* The types of the variables hold in every state: the queue never gives out more
\* tasks than were put, and no more exceptions are taken than were raised.
THEOREM TypeCorrect == Spec => []TypeOK
<1>1. Init => TypeOK
  BY BatchAssumption, SMT DEF Init, TypeOK
<1>2. TypeOK /\ [Next]_vars => TypeOK'
  <2> SUFFICES ASSUME TypeOK, [Next]_vars PROVE TypeOK'
    OBVIOUS
  <2> USE BatchAssumption, NumWorkersType DEF TypeOK, Goto
  <2>1. ASSUME NEW w \in Workers, WorkerGet(w) PROVE TypeOK'
    BY <2>1, SMT DEF WorkerGet, QueueHasTask, Tasks
  <2>2. ASSUME NEW w \in Workers, WorkerEmpty(w) PROVE TypeOK'
    BY <2>2, SMT DEF WorkerEmpty
  <2>3. ASSUME NEW w \in Workers, WorkerDone(w) PROVE TypeOK'
    <3>1. outcome' \in [Tasks -> {"queued", "running", "done", "failed"}]
      BY <2>3, ExceptType DEF WorkerDone
    <3>2. pc' \in [Workers -> {"new", "get", "run", "raise", "exit", "dead"}]
      BY <2>3, SMT DEF WorkerDone
    <3> QED
      BY <2>3, <3>1, <3>2 DEF WorkerDone
  <2>4. ASSUME NEW w \in Workers, WorkerFails(w) PROVE TypeOK'
    <3>1. outcome' \in [Tasks -> {"queued", "running", "done", "failed"}]
      BY <2>4, ExceptType DEF WorkerFails
    <3>2. pc' \in [Workers -> {"new", "get", "run", "raise", "exit", "dead"}]
      BY <2>4, SMT DEF WorkerFails
    <3> QED
      BY <2>4, <3>1, <3>2 DEF WorkerFails
  <2>5. ASSUME NEW w \in Workers, WorkerPutException(w) PROVE TypeOK'
    BY <2>5, SMT DEF WorkerPutException, PutException
  <2>6. ASSUME NEW w \in Workers, WorkerExit(w) PROVE TypeOK'
    BY <2>6, SMT DEF WorkerExit
  <2>7. CASE CallerStart
    <3>1. started' \in Nat
      BY <2>7, SMT DEF CallerStart
    <3>2. pc' \in [Workers -> {"new", "get", "run", "raise", "exit", "dead"}]
      BY <2>7, ExceptType DEF CallerStart
    <3>3. alive' \in [Workers -> BOOLEAN]
      BY <2>7, ExceptType DEF CallerStart
    <3> QED
      BY <2>7, <3>1, <3>2, <3>3 DEF CallerStart
  <2>8. CASE CallerStarted
    BY <2>8, SMT DEF CallerStarted
  <2>9. CASE CallerLook
    BY <2>9, SMT DEF CallerLook
  <2>10. CASE CallerException
    <3>1. excs' \in Nat
      BY <2>10, SMT DEF CallerException
    <3>2. alive' \in [Workers -> BOOLEAN]
      BY <2>10, Zenon DEF CallerException
    <3>3. caller' \in {"look", "returned", "raised"}
      BY <2>10, SMT DEF CallerException, AfterExceptions
    <3> QED
      BY <2>10, <3>1, <3>2, <3>3 DEF CallerException
  <2>11. CASE CallerNoException
    BY <2>11, SMT DEF CallerNoException, AfterExceptions
  <2>12. CASE UNCHANGED vars
    BY <2>12, SMT DEF vars
  <2>13. CASE Ended
    BY <2>13, <2>12 DEF Ended
  <2> QED
    BY <2>1, <2>2, <2>3, <2>4, <2>5, <2>6, <2>7, <2>8, <2>9, <2>10, <2>11, <2>12, <2>13
       DEF Next, CallerStep, WorkerStep
<1> QED
  BY <1>1, <1>2, PTL DEF Spec

-----------------------------------------------------------------------------
\* The strengthening of the types that the next two theorems need.
THEOREM Invariance == Spec => []IInv
<1>1. Init => IInv
  <2> SUFFICES ASSUME Init PROVE IInv
    OBVIOUS
  <2>1. TypeOK
    BY BatchAssumption, SMT DEF Init, TypeOK
  <2>2. QueueInv
    BY BatchAssumption, SMT DEF Init, QueueInv, Tasks
  <2>3. RunInv /\ ExcInv /\ PendingInv /\ CallerInv
    BY SMT DEF Init, RunInv, ExcInv, PendingInv, CallerInv, SomeFailed
  <2>4. ThreadInv
    BY NumWorkersType, SMT DEF Init, ThreadInv, Workers
  <2> QED
    BY <2>1, <2>2, <2>3, <2>4 DEF IInv
<1>2. IInv /\ TypeOK' /\ [Next]_vars => IInv'
  <2> SUFFICES ASSUME IInv, TypeOK', [Next]_vars PROVE IInv'
    OBVIOUS
  <2>1. ASSUME NEW w \in Workers, WorkerGet(w) PROVE IInv'
    <3> USE <2>1, BatchAssumption, NumWorkersType DEF WorkerGet, QueueHasTask, Goto, IInv, TypeOK
    <3>1. QueueInv'
      BY SMT DEF QueueInv, Tasks
    <3>2. RunInv'
      BY SMT DEF RunInv, QueueInv, Tasks
    <3>3. ExcInv'
      BY SMT DEF ExcInv, SomeFailed, RunInv, QueueInv, Tasks
    <3>4. PendingInv'
      BY SMT DEF PendingInv, SomeFailed, RunInv, QueueInv, Tasks
    <3>5. ThreadInv'
      BY SMT DEF ThreadInv, Workers, SomeFailed, RunInv, QueueInv, Tasks
    <3>6. CallerInv'
      BY SMT DEF CallerInv, SomeFailed, RunInv, QueueInv, Tasks
    <3> QED
      BY <3>1, <3>2, <3>3, <3>4, <3>5, <3>6
  <2>2. ASSUME NEW w \in Workers, WorkerEmpty(w) PROVE IInv'
    <3> USE <2>2, BatchAssumption, NumWorkersType DEF WorkerEmpty, GetTimesOut, QueueHasTask, Goto, IInv, TypeOK
    <3>1. QueueInv'
      BY SMT DEF QueueInv, Tasks
    <3>2. RunInv'
      BY SMT DEF RunInv
    <3>3. ExcInv'
      BY SMT DEF ExcInv, SomeFailed
    <3>4. PendingInv'
      BY SMT DEF PendingInv, SomeFailed
    <3>5. ThreadInv'
      BY SMT DEF ThreadInv, Workers, SomeFailed
    <3>6. CallerInv'
      BY SMT DEF CallerInv, SomeFailed
    <3> QED
      BY <3>1, <3>2, <3>3, <3>4, <3>5, <3>6
  <2>3. ASSUME NEW w \in Workers, WorkerDone(w) PROVE IInv'
    <3> USE <2>3, BatchAssumption, NumWorkersType DEF WorkerDone, Goto, IInv, TypeOK
    <3>1. QueueInv'
      BY SMT DEF QueueInv, RunInv, Tasks
    <3>2. RunInv'
      BY SMT DEF RunInv
    <3>3. ExcInv'
      BY SMT DEF ExcInv, SomeFailed, RunInv, QueueInv, Tasks
    <3>4. PendingInv'
      BY SMT DEF PendingInv, SomeFailed, RunInv, QueueInv, Tasks
    <3>5. ThreadInv'
      BY SMT DEF ThreadInv, Workers, SomeFailed, RunInv, QueueInv, Tasks
    <3>6. CallerInv'
      BY SMT DEF CallerInv, SomeFailed, RunInv, QueueInv, Tasks
    <3> QED
      BY <3>1, <3>2, <3>3, <3>4, <3>5, <3>6
  <2>4. ASSUME NEW w \in Workers, WorkerFails(w) PROVE IInv'
    <3> USE <2>4, BatchAssumption, NumWorkersType DEF WorkerFails, Goto, IInv, TypeOK
    <3>1. QueueInv'
      BY SMT DEF QueueInv, RunInv, Tasks
    <3>2. RunInv'
      BY SMT DEF RunInv
    <3>3. ExcInv'
      BY SMT DEF ExcInv, SomeFailed, RunInv, QueueInv, Tasks
    <3>4. PendingInv'
      BY SMT DEF PendingInv, SomeFailed, RunInv, QueueInv, Tasks
    <3>5. ThreadInv'
      BY SMT DEF ThreadInv, Workers, SomeFailed, RunInv, QueueInv, Tasks
    <3>6. CallerInv'
      BY SMT DEF CallerInv, SomeFailed, RunInv, QueueInv, Tasks
    <3> QED
      BY <3>1, <3>2, <3>3, <3>4, <3>5, <3>6
  <2>5. ASSUME NEW w \in Workers, WorkerPutException(w) PROVE IInv'
    <3> USE <2>5, BatchAssumption, NumWorkersType DEF WorkerPutException, PutException, Goto, IInv, TypeOK
    <3>1. QueueInv'
      BY SMT DEF QueueInv, Tasks
    <3>2. RunInv'
      BY SMT DEF RunInv
    <3>3. ExcInv'
      BY SMT DEF ExcInv, SomeFailed
    <3>4. PendingInv'
      BY SMT DEF PendingInv, SomeFailed, ExcInv
    <3>5. ThreadInv'
      BY SMT DEF ThreadInv, ExcInv, Workers, SomeFailed
    <3>6. CallerInv'
      BY SMT DEF CallerInv, SomeFailed
    <3> QED
      BY <3>1, <3>2, <3>3, <3>4, <3>5, <3>6
  <2>6. ASSUME NEW w \in Workers, WorkerExit(w) PROVE IInv'
    <3> USE <2>6, BatchAssumption, NumWorkersType DEF WorkerExit, Goto, IInv, TypeOK
    <3>1. QueueInv'
      BY SMT DEF QueueInv, Tasks
    <3>2. RunInv'
      BY SMT DEF RunInv
    <3>3. ExcInv'
      BY SMT DEF ExcInv, SomeFailed
    <3>4. PendingInv'
      BY SMT DEF PendingInv, SomeFailed
    <3>5. ThreadInv'
      BY SMT DEF ThreadInv, Workers, SomeFailed
    <3>6. CallerInv'
      BY SMT DEF CallerInv, SomeFailed
    <3> QED
      BY <3>1, <3>2, <3>3, <3>4, <3>5, <3>6
  <2>7. CASE CallerStart
    <3> USE <2>7, BatchAssumption, NumWorkersType DEF CallerStart, Goto, IInv, TypeOK
    <3>1. QueueInv'
      BY SMT DEF QueueInv, Tasks
    <3>2. RunInv'
      BY SMT DEF RunInv, ThreadInv, Workers
    <3>3. ExcInv'
      BY SMT DEF ExcInv, SomeFailed
    <3>4. PendingInv'
      BY SMT DEF PendingInv, ThreadInv, Workers, SomeFailed
    <3>5. ThreadInv'
      BY SMT DEF ThreadInv, Workers, SomeFailed
    <3>6. CallerInv'
      BY SMT DEF CallerInv, SomeFailed
    <3> QED
      BY <3>1, <3>2, <3>3, <3>4, <3>5, <3>6
  <2>8. CASE CallerStarted
    <3> USE <2>8, BatchAssumption, NumWorkersType DEF CallerStarted, Goto, IInv, TypeOK
    <3>1. QueueInv'
      BY SMT DEF QueueInv, Tasks
    <3>2. RunInv'
      BY SMT DEF RunInv
    <3>3. ExcInv'
      BY SMT DEF ExcInv, SomeFailed
    <3>4. PendingInv'
      BY SMT DEF PendingInv, SomeFailed
    <3>5. ThreadInv'
      BY SMT DEF ThreadInv, Workers, SomeFailed
    <3>6. CallerInv'
      BY SMT DEF CallerInv, SomeFailed
    <3> QED
      BY <3>1, <3>2, <3>3, <3>4, <3>5, <3>6
  <2>9. CASE CallerLook
    <3> USE <2>9, BatchAssumption, NumWorkersType DEF CallerLook, TasksFinished, Goto, IInv, TypeOK
    <3>1. QueueInv'
      BY SMT DEF QueueInv, Tasks
    <3>2. RunInv'
      BY SMT DEF RunInv
    <3>3. ExcInv'
      BY SMT DEF ExcInv, SomeFailed
    <3>4. PendingInv'
      BY SMT DEF PendingInv, SomeFailed
    <3>5. ThreadInv'
      BY SMT DEF ThreadInv, Workers, SomeFailed
    <3>6. CallerInv'
      BY SMT DEF CallerInv, SomeFailed, ThreadInv, Workers
    <3> QED
      BY <3>1, <3>2, <3>3, <3>4, <3>5, <3>6
  <2>10. CASE CallerException
    <3> USE <2>10, BatchAssumption, NumWorkersType DEF CallerException, AfterExceptions, Goto, IInv, TypeOK
    <3>1. QueueInv'
      BY SMT DEF QueueInv, Tasks
    <3>2. RunInv'
      BY SMT DEF RunInv
    <3>3. ExcInv'
      BY SMT DEF ExcInv, SomeFailed
    <3>4. PendingInv'
      BY SMT DEF PendingInv, SomeFailed
    <3>5. ThreadInv'
      BY SMT DEF ThreadInv, Workers, SomeFailed
    <3>6. CallerInv'
      BY SMT DEF CallerInv, SomeFailed
    <3> QED
      BY <3>1, <3>2, <3>3, <3>4, <3>5, <3>6
  <2>11. CASE CallerNoException
    <3> USE <2>11, BatchAssumption, NumWorkersType DEF CallerNoException, AfterExceptions, Goto, IInv, TypeOK
    <3>1. QueueInv'
      BY SMT DEF QueueInv, Tasks
    <3>2. RunInv'
      BY SMT DEF RunInv
    <3>3. ExcInv'
      BY SMT DEF ExcInv, SomeFailed
    <3>4. PendingInv'
      BY SMT DEF PendingInv, SomeFailed
    <3>5. ThreadInv'
      BY SMT DEF ThreadInv, Workers, SomeFailed
    <3>6. CallerInv'
      BY SMT DEF CallerInv, SomeFailed, PendingInv
    <3> QED
      BY <3>1, <3>2, <3>3, <3>4, <3>5, <3>6
  <2>12. CASE UNCHANGED vars
    BY <2>12, SMT DEF vars, IInv, TypeOK, QueueInv, RunInv, ExcInv, PendingInv, ThreadInv, CallerInv, SomeFailed
  <2>13. CASE Ended
    BY <2>13, <2>12 DEF Ended
  <2> QED
    BY <2>1, <2>2, <2>3, <2>4, <2>5, <2>6, <2>7, <2>8, <2>9, <2>10, <2>11, <2>12, <2>13 DEF Next, CallerStep, WorkerStep
<1> QED
  BY <1>1, <1>2, TypeCorrect, PTL DEF Spec

-----------------------------------------------------------------------------
\* The invariant says so in every state.
LEMMA AllDoneNow == IInv => AllDoneOnReturn
<1> SUFFICES ASSUME IInv, Promised, caller = "returned", NEW t \in Tasks
             PROVE outcome[t] = "done"
  BY DEF AllDoneOnReturn
<1>1. ~SomeFailed /\ \A w \in Workers : pc[w] = "dead"
  BY DEF IInv, CallerInv, Promised
<1>2. outcome[t] # "running" /\ outcome[t] # "failed"
  BY <1>1, SMT DEF IInv, RunInv, SomeFailed
<1>3. 1 \in Workers
  BY BatchAssumption, SMT DEF Promised, Workers, NumWorkers, Tasks
<1>4. taken = NTasks
  BY <1>1, <1>3, SMT DEF IInv, ThreadInv
<1>5. outcome[t] # "queued"
  BY <1>4, BatchAssumption, SMT DEF IInv, QueueInv, Tasks
<1> QED
  BY <1>2, <1>5, SMT DEF IInv, TypeOK

\* When wait_tasks_processed returns to a caller that does not ignore exceptions,
\* and at least one worker was allowed, every task was done.
THEOREM AllDone == Spec => []AllDoneOnReturn
BY AllDoneNow, Invariance, PTL

-----------------------------------------------------------------------------
\* The pool implements the batch of tasks its callers rely on: every step of a thread
\* or of the caller is a step of TaskBatch or leaves its variables alone.
THEOREM Implements == Promised => (Spec => ImplementsBatch)
<1> SUFFICES ASSUME Promised PROVE Spec => ImplementsBatch
  OBVIOUS
<1> USE DEF Batch!Move, Batch!Return, Batch!Raise, Batch!Next
<1>1. Init => Batch!Init
  BY SMT DEF Init, Batch!Init
<1>2. IInv /\ AllDoneOnReturn' /\ [Next]_vars => [Batch!Next]_<<outcome, IF caller \in {"returned", "raised"} THEN caller ELSE "none">>
  <2> SUFFICES ASSUME IInv, AllDoneOnReturn', [Next]_vars
               PROVE [Batch!Next]_<<outcome, IF caller \in {"returned", "raised"} THEN caller ELSE "none">>
    OBVIOUS
  <2> USE DEF IInv, TypeOK
  <2>1. ASSUME NEW w \in Workers, WorkerGet(w) PROVE Batch!Move(taken + 1, "queued", "running") /\ taken + 1 \in Tasks
    BY <2>1, BatchAssumption, SMT DEF WorkerGet, QueueHasTask, QueueInv, Tasks
  <2>2. ASSUME NEW w \in Workers, WorkerDone(w) PROVE Batch!Move(task[w], "running", "done") /\ task[w] \in Tasks
    BY <2>2, SMT DEF WorkerDone, RunInv
  <2>3. ASSUME NEW w \in Workers, WorkerFails(w) PROVE Batch!Move(task[w], "running", "failed") /\ task[w] \in Tasks
    BY <2>3, SMT DEF WorkerFails, RunInv
  <2>4. ASSUME NEW w \in Workers, WorkerEmpty(w) \/ WorkerPutException(w) \/ WorkerExit(w)
        PROVE UNCHANGED <<outcome, caller>>
    BY <2>4 DEF WorkerEmpty, WorkerPutException, WorkerExit
  <2>5. CASE CallerStart \/ CallerStarted \/ CallerLook
    BY <2>5, SMT DEF CallerStart, CallerStarted, CallerLook
  <2>6. CASE CallerException
    BY <2>6, SMT DEF CallerException, ExcInv, SomeFailed, Promised
  <2>7. CASE CallerNoException
    BY <2>7, SMT DEF CallerNoException, AfterExceptions, AllDoneOnReturn, Promised
  <2>8. CASE UNCHANGED vars \/ Ended
    BY <2>8, SMT DEF vars, Ended
  <2> QED
    BY <2>1, <2>2, <2>3, <2>4, <2>5, <2>6, <2>7, <2>8 DEF Next, CallerStep, WorkerStep
<1> QED
  BY <1>1, <1>2, Invariance, AllDone, PTL DEF Spec, ImplementsBatch, Batch!Spec
=============================================================================
