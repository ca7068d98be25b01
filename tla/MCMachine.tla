----------------------------- MODULE MCMachine -----------------------------
(* A component that inherits from one module, on the kinds of VMs that take *)
(* the bootstrap script through all of its branches.                        *)
EXTENDS Machine

MCChain == <<"base", "app">>
Vm(dist, major, py, ranges) ==
  [dist |-> dist, major |-> major, role |-> "node", bundle |-> FALSE, module |-> FALSE,
   py |-> py, ranges |-> ranges]
Orchestrator(dist, major, module) ==
  [dist |-> dist, major |-> major, role |-> "orchestrator", bundle |-> module,
   module |-> module, py |-> 2, ranges |-> FALSE]
MCImages == {{"base"}}
MCPlatforms ==
  {Vm("CentOS", 7, 3, TRUE), Orchestrator("openSUSE", 11, TRUE),
   Orchestrator("SUSE Linux Enterprise Server", 12, FALSE)}
=============================================================================
