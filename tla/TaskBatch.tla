------------------------------ MODULE TaskBatch ------------------------------
(***************************************************************************)
(* What the callers of a TasksRunner rely on, threads and queues left out: *)
(* the tasks of a batch run in any order and at the same time, each at     *)
(* most once; the batch ends well only when all its tasks did, and badly   *)
(* only when one of them failed, perhaps while others still go on.         *)
(***************************************************************************)
CONSTANT Tasks

VARIABLES outcome, result

Outcomes == {"queued", "running", "done", "failed"}

Init == outcome = [t \in Tasks |-> "queued"] /\ result = "none"

Move(t, from, to) ==
  /\ outcome[t] = from
  /\ outcome' = [outcome EXCEPT ![t] = to]
  /\ UNCHANGED result

Return ==
  /\ result = "none" /\ \A t \in Tasks : outcome[t] = "done"
  /\ result' = "returned"
  /\ UNCHANGED outcome

Raise ==
  /\ result = "none" /\ \E t \in Tasks : outcome[t] = "failed"
  /\ result' = "raised"
  /\ UNCHANGED outcome

Next ==
  \/ \E t \in Tasks :
        Move(t, "queued", "running") \/ Move(t, "running", "done") \/ Move(t, "running", "failed")
  \/ Return \/ Raise

Spec == Init /\ [][Next]_<<outcome, result>>
=============================================================================
