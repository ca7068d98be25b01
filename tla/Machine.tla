------------------------------ MODULE Machine ------------------------------
(***************************************************************************)
(* The life of one VM of a run: the bootstrap script installs the client   *)
(* and registers and starts the executor's service, the executor takes     *)
(* part in the run, and a power cycle stops both and starts both again,    *)
(* the script and a registered service side by side.                       *)
(***************************************************************************)
EXTENDS Bootstrap, Executor

VARIABLE mstarts    \* the init system is about to start the executor in this boot

machineVars == <<bootVars, execVars, mstarts>>

(* Only orchestrators need the libraries, and only application VMs may recover. *)
MachineInit ==
  /\ BootInit /\ ExecInit /\ mstarts = FALSE
  /\ IF bplat.role = "node" THEN bdisk.libs = {}
     ELSE ~xserver.recovery

(* Only application VMs are followed past their bootstrap; the service needs the client. *)
CanExecute == bplat.role = "node" /\ bdisk.tree["client"] = "full"

BootstrapRuns ==
  /\ \/ BootRun \/ BootRerun \/ BootSetup \/ BootCompare \/ BootWipe \/ BootDownload
     \/ BootExtract \/ BootExtractRaises \/ BootPersist \/ BootJob \/ BootNoManager
     \/ BootPipNeedsCert \/ BootGetCert \/ BootLock \/ BootExecutorConfig \/ BootRegister
     \/ BootAuthenticate \/ BootPut \/ BootTryFails
  /\ xserver' = IF ~btold /\ btold' THEN Failing ELSE xserver
  /\ UNCHANGED <<xproc, xscript, xorphan, xpid, ximage, xran, xever, xcut, xfaults, mstarts>>

BootstrapStartsExecutor ==
  /\ BootStartExecutor
  /\ IF CanExecute THEN DaemonStart(bmem.cmd # "direct") ELSE UNCHANGED execVars
  /\ UNCHANGED mstarts

InitStartsExecutor ==
  /\ mstarts /\ mstarts' = FALSE
  /\ IF CanExecute THEN DaemonStart(TRUE) ELSE UNCHANGED execVars
  /\ UNCHANGED bootVars

ExecutorRuns ==
  /\ Alive /\ (ExecProgress \/ ExecFaulty)
  /\ UNCHANGED <<bootVars, mstarts>>

AroundExecutor ==
  /\ Alive \/ Is("started")
  /\ ExecEnvironment
  /\ UNCHANGED <<bootVars, mstarts>>

PowerCycle ==
  /\ BootCrash /\ ExecCrash
  /\ IF Alive THEN Fault ELSE UNCHANGED xfaults
  /\ mstarts' = (bdisk.service # "none")

MachineProgress == \/ BootstrapRuns \/ BootstrapStartsExecutor \/ InitStartsExecutor
MachineNext == MachineProgress \/ ExecutorRuns \/ AroundExecutor \/ PowerCycle
MachineSpec ==
  /\ MachineInit /\ [][MachineNext]_machineVars
  /\ WF_machineVars(MachineProgress)
  /\ WF_machineVars(ExecProgress /\ UNCHANGED <<bootVars, mstarts>>)

MachineTypeOK == BootTypeOK /\ ExecTypeOK /\ mstarts \in BOOLEAN

(* The client is not taken away from under an executor that runs from it, although a       *)
(* bootstrap script that is run again at the next boot wipes an installation it does not   *)
(* recognize, while the init system starts the executor beside it.                         *)
ClientStaysUnderExecutor ==
  [][Alive => bdisk'.tree["client"] = bdisk.tree["client"] \/ xproc'.pc = "off"]_machineVars
=============================================================================
