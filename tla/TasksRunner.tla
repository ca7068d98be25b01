----------------------------- MODULE TasksRunner -----------------------------
(***************************************************************************)
(* The thread pool with which the orchestrator starts and scales VMs in    *)
(* the IaaS (utils/tasksrunner.py): daemon threads take tasks from a queue *)
(* until it is empty or a task raises, and the caller waits for them.      *)
(***************************************************************************)
EXTENDS Integers

CONSTANTS
  NTasks,           \* tasks put before run_tasks
  MaxWorkers,       \* max.iaas.workers, an integer the code does not check
  IgnoreException   \* the argument of wait_tasks_processed

ASSUME BatchAssumption ==
  NTasks \in Nat /\ MaxWorkers \in Int /\ IgnoreException \in BOOLEAN

Tasks == 1 .. NTasks

\* run_tasks: "(ntasks < max) and ntasks or max", where no tasks count as false.
NumWorkers == IF NTasks < MaxWorkers /\ NTasks # 0 THEN NTasks ELSE MaxWorkers

Workers == 1 .. NumWorkers

VARIABLES
  taken,      \* tasks_queue: how many tasks have been taken, first in first out
  outcome,    \* of each task
  started,    \* threads started so far
  pc, task,   \* of each thread: where it is, and the last task it took (0: none)
  alive,      \* what Thread.is_alive says of each thread
  excs,       \* number of exceptions in exc_queue
  caller      \* where the caller is in run_tasks and wait_tasks_processed

vars == <<taken, outcome, started, pc, task, alive, excs, caller>>

TypeOK ==
  /\ taken \in 0 .. NTasks
  /\ outcome \in [Tasks -> {"queued", "running", "done", "failed"}]
  /\ started \in Nat
  /\ pc \in [Workers -> {"new", "get", "run", "raise", "exit", "dead"}]
  /\ task \in [Workers -> 0 .. NTasks]
  /\ alive \in [Workers -> BOOLEAN]
  /\ excs \in Nat
  /\ caller \in {"start", "look", "get", "last", "returned", "raised"}

Init ==
  /\ taken = 0
  /\ outcome = [t \in Tasks |-> "queued"]
  /\ started = 0
  /\ pc = [w \in Workers |-> "new"]
  /\ task = [w \in Workers |-> 0]
  /\ alive = [w \in Workers |-> FALSE]
  /\ excs = 0
  /\ caller = "start"

Goto(w, where) == pc' = [pc EXCEPT ![w] = where]

-----------------------------------------------------------------------------
(* A thread: ThreadWrapper.run around Worker.work. *)

\* Queue.get returns a task, or raises Empty after its timeout.
MutantQueueHasTask == taken <= NTasks
QueueHasTask == taken < NTasks

MutantGetTimesOut == FALSE
GetTimesOut == ~QueueHasTask

WorkerGet(w) ==
  /\ pc[w] = "get" /\ QueueHasTask
  /\ taken' = taken + 1
  /\ task' = [task EXCEPT ![w] = taken + 1]
  /\ outcome' = [outcome EXCEPT ![taken + 1] = "running"]
  /\ Goto(w, "run")
  /\ UNCHANGED <<started, alive, excs, caller>>

WorkerEmpty(w) ==
  /\ pc[w] = "get" /\ GetTimesOut
  /\ Goto(w, "exit")
  /\ UNCHANGED <<taken, outcome, started, task, alive, excs, caller>>

WorkerDone(w) ==
  /\ pc[w] = "run"
  /\ outcome' = [outcome EXCEPT ![task[w]] = "done"]
  /\ Goto(w, "get")
  /\ UNCHANGED <<taken, started, task, alive, excs, caller>>

WorkerFails(w) ==
  /\ pc[w] = "run"
  /\ outcome' = [outcome EXCEPT ![task[w]] = "failed"]
  /\ Goto(w, "raise")
  /\ UNCHANGED <<taken, started, task, alive, excs, caller>>

\* The exception is queued before the thread is dead.
MutantPutException == UNCHANGED excs
PutException == excs' = excs + 1

WorkerPutException(w) ==
  /\ pc[w] = "raise"
  /\ PutException
  /\ Goto(w, "exit")
  /\ UNCHANGED <<taken, outcome, started, task, alive, caller>>

WorkerExit(w) ==
  /\ pc[w] = "exit"
  /\ alive' = [alive EXCEPT ![w] = FALSE]
  /\ Goto(w, "dead")
  /\ UNCHANGED <<taken, outcome, started, task, excs, caller>>

-----------------------------------------------------------------------------
(* The caller. *)

\* run_tasks: the first threads work while the next ones are started.
CallerStart ==
  /\ caller = "start" /\ started < NumWorkers
  /\ started' = started + 1
  /\ pc' = [pc EXCEPT ![started + 1] = "get"]
  /\ alive' = [alive EXCEPT ![started + 1] = TRUE]
  /\ UNCHANGED <<taken, outcome, task, excs, caller>>

CallerStarted ==
  /\ caller = "start" /\ started >= NumWorkers
  /\ caller' = "look"
  /\ UNCHANGED <<taken, outcome, started, pc, task, alive, excs>>

\* _tasks_finished
MutantTasksFinished == taken = NTasks
TasksFinished == \A w \in Workers : ~alive[w]

\* wait_tasks_processed: the condition of its loop.
CallerLook ==
  /\ caller = "look"
  /\ caller' = IF TasksFinished THEN "last" ELSE "get"
  /\ UNCHANGED <<taken, outcome, started, pc, task, alive, excs>>

\* Where _process_exc_queue returns to: the loop, or the end of the wait.
AfterExceptions == IF caller = "last" THEN "returned" ELSE "look"

\* _process_exc_queue.  _stop_all_workers only makes is_alive say no: the threads
\* go on with their tasks, and take the next ones.
CallerException ==
  /\ caller \in {"get", "last"} /\ excs > 0
  /\ excs' = excs - 1
  /\ IF IgnoreException
     THEN caller' = AfterExceptions /\ UNCHANGED alive
     ELSE caller' = "raised" /\ alive' = [w \in Workers |-> FALSE]
  /\ UNCHANGED <<taken, outcome, started, pc, task>>

CallerNoException ==
  /\ caller \in {"get", "last"} /\ excs = 0
  /\ caller' = AfterExceptions
  /\ UNCHANGED <<taken, outcome, started, pc, task, alive, excs>>

-----------------------------------------------------------------------------
WorkerStep(w) ==
  \/ WorkerGet(w) \/ WorkerEmpty(w) \/ WorkerDone(w) \/ WorkerFails(w)
  \/ WorkerPutException(w) \/ WorkerExit(w)

CallerStep ==
  CallerStart \/ CallerStarted \/ CallerLook \/ CallerException \/ CallerNoException

Ended ==
  /\ caller \in {"returned", "raised"} /\ \A w \in Workers : pc[w] = "dead"
  /\ UNCHANGED vars

Next == CallerStep \/ (\E w \in Workers : WorkerStep(w)) \/ Ended

Spec == Init /\ [][Next]_vars

\* Threads are scheduled, Queue.get times out, and a task ends.
FairSpec == Spec /\ WF_vars(CallerStep) /\ \A w \in Workers : WF_vars(WorkerStep(w))

-----------------------------------------------------------------------------
(* Properties *)

\* What callers may count on: some worker runs, and exceptions are not ignored.
Promised == MaxWorkers > 0 /\ ~IgnoreException

\* When wait_tasks_processed returns, every task has been done.  With no workers it
\* returns at once, and when exceptions are ignored all threads may have died of
\* one before the queue was empty.
AllDoneOnReturn ==
  Promised /\ caller = "returned" => \A t \in Tasks : outcome[t] = "done"

\* The pool keeps what its callers rely on: a batch returns only after all its tasks
\* were done and raises only after one failed, and no task ever runs twice.
Batch == INSTANCE TaskBatch WITH
           result <- IF caller \in {"returned", "raised"} THEN caller ELSE "none"
ImplementsBatch == Batch!Spec

\* The failure of a task is never lost: unless the caller ignores exceptions, it
\* gets one, whether the thread dies before or after the caller looks for it.
FailureReported == \A t \in Tasks : outcome[t] = "failed" ~> caller = "raised"

\* The wait of wait_tasks_processed ends, whatever the tasks did.
WaitEnds == <>(caller \in {"returned", "raised"})
=============================================================================
