--------------------------- MODULE MCProvisioning ---------------------------
(***************************************************************************)
(* Provisioning with three instances, enough for a request that tolerates  *)
(* a failure after a deployment.  Instances differ in nothing, so runs     *)
(* without liveness properties use symmetry.                               *)
(***************************************************************************)
EXTENDS Provisioning, TLC

Symmetry == Permutations(Instances)
=============================================================================
