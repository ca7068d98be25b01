------------------------- MODULE MCVerticalScaling -------------------------
(* Instances of VerticalScaling for TLC: node instances are model values. *)
EXTENDS VerticalScaling, TLC

CONSTANTS n1, n2

\* The node instances are interchangeable (safety runs only).
Symmetry == Permutations({n1, n2})
=============================================================================
