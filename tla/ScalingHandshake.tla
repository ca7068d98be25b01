--------------------------- MODULE ScalingHandshake ---------------------------
(***************************************************************************)
(* What users of vertical scaling rely on, executors, flags and threads    *)
(* left out: during a request an instance is prepared by its prescale      *)
(* script, then has the action applied to its VM, then is served by its    *)
(* postscale script; nothing of it happens twice or outside of a request,  *)
(* and no request is concluded while an instance is half-way.              *)
(***************************************************************************)
CONSTANT Nodes

VARIABLES requested, stage

Init == requested = FALSE /\ stage = [n \in Nodes |-> "served"]

Request ==
  /\ ~requested /\ requested' = TRUE
  /\ stage' = [n \in Nodes |-> "untouched"]

Move(n, from, to) ==
  /\ requested /\ stage[n] = from
  /\ stage' = [stage EXCEPT ![n] = to]
  /\ UNCHANGED requested

Conclude ==
  /\ requested /\ requested' = FALSE
  /\ \A n \in Nodes : stage[n] \notin {"prepared", "applied"}
  /\ UNCHANGED stage

Next ==
  \/ Request \/ Conclude
  \/ \E n \in Nodes :
        \/ Move(n, "untouched", "prepared")
        \/ Move(n, "prepared", "applied")
        \/ Move(n, "applied", "served")

Spec == Init /\ [][Next]_<<requested, stage>>
=============================================================================
