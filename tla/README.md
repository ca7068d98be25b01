# A verification project for the SlipStream client

SlipStream deploys applications ("runs") of several virtual machines on IaaS
clouds. This repository is its client side: the executors that run on every
machine of a run, the cloud connector base, the REST client and the `ss-*`
commands. The server is not here; the programs below share nothing but what the
server keeps: the state of the run, the abort flag, and runtime parameters
(RTPs), named values per node instance.

This directory holds TLA+ modules of the client's concurrent and distributed
parts, TLC configurations that check them on small instances, and TLAPS proofs
for all instances. `PROJECT.json` maps every definition to the lines it models
(`map`), every property to a mutation of the code it notices (`mutants`), and
lists the hazards the properties are for.

To check: `tlc -config <cfg> <module>` for the runs below, `tlapm <module>` for
the modules whose name ends in `_proofs`. Paths below are under
`src/client/src/main/python/slipstream/` unless they say otherwise.

## 1. Inventory

| Part | State it keeps | Operations and interactions | Hard behaviour | What makes it correct |
|---|---|---|---|---|
| Executor loop, `executors/MachineExecutor.py` | state last handled, `_send_reports`, `recovery_mode` | polls the run state, calls `on<State>`, posts the completion; raises the abort flag on exceptions | completion does not name a state; SIGTERM in a handler; POST never retried; restart at boot | a completion counts for the state that was handled, but for a restart and a late one of Ready; no handler is skipped |
| Node executor, `executors/node/NodeDeploymentExecutor.py` | `_skip_execute_due_to_vertical_scaling` (in memory only) | scripts, pre/post scaling handshake, creation, scale down | waits on the orchestrator, killed by the IaaS action itself | scripts run in the documented order around the IaaS action; recipes are not run twice |
| Orchestrator executor, `executors/orchestrator/` | that of its wrapper | starts, stops, scales instances; completes states for failed instances | inconsistent scale states, failures of one VM of many | action only when instances are ready for it; nobody is left waiting |
| `wrappers/CloudWrapper.py` | lists of failed and of removed instances (in memory) | provisioning with fault tolerance, waits with timeout, `vertically_scale_instances` | timeouts against late answers, races with instances, restart | as above, and: tolerated failures never exceed the allowance |
| `wrappers/BaseWrapper.py` | caches of run, instances, user; RTPs on the server | reads and writes of RTPs, `_wait_rtp_equals` | cached against effective scale states | handshake flags are reset for the next request |
| IaaS task pool, `utils/tasksrunner.py`, `cloudconnectors/VmScaler.py` | task queue, exception queue, threads | put, run, wait | threads dying while the caller looks, stop that does not stop | the wait ends, loses no exception, returns only when all is done |
| Connector base, `cloudconnectors/BaseCloudConnector.py` | VMs started so far | start, stop, resize, attach, detach; reports to the wrapper | runs on several threads | an action is reported once it was applied |
| Vertical scaling commands, `command/VerticalScaleCommandBase.py`, `ss-scale-*.py` | none | check Ready, set RTPs and scale states, set Provisioning | check and act are apart; interruption | - |
| Horizontal scaling commands, `ss-node-add.py`, `ss-node-remove.py` | none | add or remove instances, wait for Ready | wait races the run | - |
| `ss-execute.py`, `resources/run.py`, `resources/reports.py` | none | launch, wait, terminate, download the reports | timeout, abort and SIGTERM against the run's end; reports that are sent meanwhile | exit code tells what happened; VMs are killed when asked; the latest complete report is taken |
| `HttpClient.py` | session, count of refused requests | retries | shared by threads, 429 and 503 without end | bounded wait, no POST twice |
| `SlipStreamHttpClient.py`, `Client.py` | cached run document | requests | - | - |
| Image build, `executors/orchestrator/OrchestratorImageBuildExecutor.py` with the connector's `build_image` | none | runs the recipes of a chain of modules on a creator VM over ssh, saves the image, stops both VMs | partial failure at any call, aborts, who stops what | what is saved is whole; no VM is left running unasked |
| ssh, `utils/ssh.py` | none | waits for a VM, copies and runs scripts, in the foreground or by `at` | a lost connection after the script ran; fallbacks that run it again | a script runs once |
| Start command, `command/RunInstancesCommand.py` | one daemon thread | starts a VM, publishes id and address, launches its bootstrap | alarm and interrupt against the thread | the caller knows of every VM that runs |
| Service offers, `command/ServiceOffersCommand.py` | ids it has written | adds, updates, deletes offers | executions that overlap, duplicates | what the cloud offers is what the server shows |
| Module transfer, `ss-module-download.py`, `ss-module-upload.py` | files | writes a tree of modules to files, puts them on a server | failing requests, names that collide | modules survive, each after the project it is in |
| Bootstrap, `src/client/src/main/scripts/slipstream.bootstrap.py` | files on the VM | download, unpack, configure, start | retries with resume, reboot half-way | what is marked as set up is set up |
| Daemons, `daemonr/`, `scripts/etc/` | pid file | start at boot, stop with SIGTERM | stop while a handler runs; a pid file of another process | the executor comes back after a reboot, or somebody learns that it did not |
| Result archiver, factories, other `ss-*` commands, utilities | - | sequential, one request each | - | - |
| Vendored libraries, `src/client/src/external` | - | - | - | not part of this project |

## 2. Modules

| Module | Models | Status |
|---|---|---|
| `VerticalScaling` | the three programs of a vertical scaling: command, orchestrator with IaaS threads, node executors; crashes, SIGTERM, aborts | done |
| `ScalingHandshake` | what the users of vertical scaling rely on, per request and instance; implemented by `VerticalScaling` | done |
| `MCVerticalScaling` | instance for TLC: two node instances, symmetry | done |
| `VerticalScaling_proofs` | types, inductive invariants, four safety theorems whatever goes wrong, three and the refinement of `ScalingHandshake` for named faults | done |
| `TasksRunner`, `TaskBatch` | the thread pool, and what its callers rely on | done |
| `TasksRunner_proofs` | types, completeness of a returned wait, refinement | done |
| `Provisioning` | deployment and horizontal scaling: `ss-node-add` and `ss-node-remove`, fault tolerance of the orchestrator, start tasks, node executors, failures of VMs and connector | done, restarts of the orchestrator left |
| `MCProvisioning` | instance for TLC: symmetry of three instances | done |
| `Provisioning_proofs` | types, inductive invariants, six safety theorems | done |
| `Bootstrap` | the script a new VM runs: downloads with retries and resume, the lock, libraries, init systems, the rerun under python 2, power cycles at any step | done |
| `Executor` | the executor of one VM through a whole run: service, loop, scripts with abort, kill and signals, recovery mode, reports, lost completions | done |
| `Machine` | `Bootstrap` and `Executor` composed: one VM from its first boot, whose init system starts the executor beside the script | done |
| `MCMachine` | instance for TLC: three kinds of VMs, a component that inherits from one module | done |
| `Bootstrap_proofs` | types, inductive invariant, two safety theorems | done |
| `Machine_proofs` | types, inductive invariant, three safety theorems about the composition | done |
| `HttpRetry` | the retry loop on several threads and the count they share | done |
| `RemoteScript` | one ssh call at a time: connecting, copying, running, handing over to `at`; used by the next two | done |
| `ImageBuild` | the orchestrator of an image build through all states of its run | done |
| `StartInstances` | the command that starts an instance: its two threads, the alarm, ssh and WinRM | done |
| `RunExecution` | `ss-execute` against the run it launched and the reports it downloads | done |
| `ServiceOffers` | executions of the command that updates the service offers | done |
| `ModuleTransfer` | the download of a module tree and its upload elsewhere | done |
| `Programs`, `MCPrograms` | the six programs above that share no run, each followed on its own, and their instance for TLC | done |
| `VmPrograms_proofs` | ssh calls, the start of an instance and the build of an image: types and inductive invariants, one safety theorem | done |
| `ServerPrograms_proofs` | HTTP calls, `ss-execute`, service offers, module transfer: types and inductive invariants, three safety theorems | done |
| `Programs_proofs` | the invariants of both, composed: types and every safety property of the run `programs` | done |

### VerticalScaling

State and code correspond as follows.

| Variables | Code |
|---|---|
| `runState`, `abort`, `nDone`, `oDone` | run state, `ss:abort`, completions; kept by the server, which moves the run on when all executors have completed. This part is external: it is what `MachineExecutor._execute` and the `ss-scale-*` help texts rely on |
| `scaleState`, `preDone`, `iaasDone`, `device` | RTPs `scale.state`, `pre.scale.done`, `scale.iaas.done`, `disk.attached.device` |
| `cPc`, `cAct`, `cNodes`, `cLeft` | where `VerticalScaleCommandBase.doWork` is, and on which instances it still has to set the scale state |
| `nPc`, `nAt`, `skip`, `view` | a node executor: place in its handlers, the `state` of `_execute`, `_skip_execute_due_to_vertical_scaling`, and which instances its cached Run shows as scaling: the Run is fetched by the first poll of a state (`NodePoll`, for `is_mutable`), by a new executor (`VmBoot`) and by the exports of a script |
| `oPc`, `oAt`, `oCache`, `oNodes`, `oSeen` | the orchestrator: place, state, cached scale states, `node_instances` of `vertically_scale_instances`, `node_instance_to_result` of `_wait_rtp_equals` |
| `action`, `job` | scale state of the request, and each instance's task on the IaaS threads |
| `round`, `pre`, `iaas`, `post`, `rebuilt`, `crashed`, `credited`, `terminated`, `faults` | history and bound; nothing of the code reads them |

A step is one request to the server together with the local computation after
it. One pass of requests over all instances is one step where the result cannot
depend on what happens in between (the module says why). The whole failure path
is modelled: an exception raises the abort flag, runs `onSendingReports` of the
subclass, and completes the state. An exit code of a prescale or postscale
script makes no difference to the code (`abort_on_err` is false there), so the
model does not have one. `CliInterrupted` also stands for a server that refuses
a command while the abort flag is up (409, `HttpClient.py:114`); the executors
ignore the abort flag in their requests (`BaseWrapper.py:132`).

`ScalingHandshake` has a stage for each instance and whether a request is under way.
`Stage` reads it off the rounds in which an instance last ended prescale, had the action
applied and ended postscale; the run is in Provisioning while a request is under way.

Executors handle Ready and complete it like any other state
(`MachineExecutor.py:76-79`), and a completion does not say what it is of. The server
leaves Ready without any, but nothing keeps a scaling command from setting
Provisioning while an executor is between its handler of Ready and the completion; it
is then counted for Provisioning. The model has this as the fault `"late"`, which
`CliSetProvisioning` takes when it meets such an executor; without it the command
is taken to arrive after these completions. `credited` remembers the executors with a
completion that was not of the state it counted for.

Left out: horizontal scaling states, recovery mode, more than one node type,
two users who scale at the same time, failed requests to the server (the executors
retry GET and PUT for seven days).

### TasksRunner

Tasks are numbered in the order they are put. A worker thread takes the next
one, runs it, and ends when `Queue.get` timed out on the empty queue or the task
raised. `alive` is what `Thread.is_alive` answers and differs from `pc` after
`_stop_all_workers`, which in this Python only makes it answer no. `TaskBatch`
has neither threads nor queues: tasks run at most once, a batch returns when
all are done and raises when one has failed.

### Provisioning

| Variables | Code |
|---|---|
| `runState`, `abort`, `nDone`, `oDone` | as above |
| `scale`, `preDone`, `tolerate` | RTPs `scale.state`, `pre.scale.done`, `max-provisioning-failures` |
| `deleted`, `leaving` | instances whose ids the orchestrator deleted from the run (`delete-ids-only`), and those a user asked to remove |
| `vm` | the cloud: a VM is up, failed or stopped |
| `cTol` | `ss-node-add` between its two requests |
| `nPc`, `nAt` | a node executor; it is off unless its VM is up |
| `oPc`, `oAt`, `oCache` | the orchestrator: place, state, `_nodes_instances` |
| `oFollow`, `oAllowed`, `oCount`, `oList` | locals of `start_node_instances`, `_sleep_while_instances_provisioned`, `_check_instances_provisioned` and `stop_node_instances` |
| `oForce`, `oGone` | `_instance_names_force_to_compete_states`, `_instance_names_to_be_gone` |
| `late` | the time limit of the state has passed |
| `todo`, `raised` | the start tasks not done, and whether one raised: what `TaskBatch` promises of the pool |
| `rounds`, `faults`, `asked`, `requested`, `trouble`, `givenUp` | bounds and history; nothing of the code reads them |

`View` is `_get_nodes_instances`: the cached instances, or those of the server if
the cache was discarded. The code mixes the two (which instances scale is cached,
in which state they are is fetched), and so does the model.

External, and assumed: the server waits for the completion of every instance but
those a user removed once they are `removed`; it takes a Ready run that is not
aborted to Provisioning when instances are added or removed; it refuses requests
that do not ignore the abort flag while that is up (the deletion of given-up
instances is one, `SetTolerance` another); a run that is aborted goes on, as its
user may cancel the abort; names of instances are not used again.

Left out: restarts of executors and of the orchestrator (it would forget its
lists and start instances in `creating` again), Ready, whose completions are
taken to arrive before the next request, more than one node type, vertical
scaling, scripts, and recovery mode (the last two are in `Executor`).

### Bootstrap, Executor, Machine

| Variables | Code |
|---|---|
| `bpc`, `bmem` | where `slipstream.bootstrap.py` is, and what its process holds: the python it runs under, `RERUN`, the commands left to install, whether pip got certificates, which of the two tarballs it handles, the tries of the current call, the command that starts the executor |
| `bdisk` | what outlives a power cycle: tarballs, extracted trees, context and configuration, libraries, the lock of `_set_setup_done_lock`, `/etc/default`, the registered service |
| `bplat` | distribution, version, role, bundles to install, python, and whether the server serves ranges; one constant record per VM |
| `btold` | the abort that `AbortPublisher` puts has reached the server |
| `bcut`, `bboots` | history and bound |
| `xproc` | the executor: place, state of `_execute`, steps left, `_send_reports`, and whether it is inside the `try` of `_execute_state` |
| `xscript`, `xorphan` | the process of `_run_target_script`, and one the executor does not wait for any more |
| `xpid` | the PID file of the `DaemonRunner` |
| `xserver` | the run as this VM sees it: state, its completion, abort flag, scale state, recovery mode |
| `ximage` | modules that `need_to_execute_build_step` finds built |
| `xran`, `xever`, `xcut`, `xfaults` | history and bound |
| `mstarts` | the init system is about to start the executor in this boot |

A state of the run is a sequence of steps (`StepsOf`), each a call or a script,
consumed one by one; so a handler stops wherever a signal, an exception or a
power cycle meets it. A file is none, part or full: a transfer that ends early
without an error leaves a part and the code takes it for the whole. The checksum
is compared with the tarball, not with the tree, which is why the two are apart.
`Machine` follows only application VMs past the bootstrap. Orchestrators are in
`Provisioning`, where they start with a client that is there.

External: the server goes to the next state when this VM has completed its own
(the other VMs may take any time); the init system starts a registered service
at every boot. Left out: the output of scripts and their environment, `Ready` of
mutable runs as anything but a state, restarts of the service by hand, the shell
wrapper around the script. An executor that the script starts directly, without an
init system, runs in the foreground of the script and writes no PID file
(`DaemonStart(FALSE)`); so it is possible that an executor starts beside one that runs.
The model does not follow the second of the two, nor the abort that the script raises
when its direct child ends with an error, which that executor has raised itself
unless the server could not be reached.

### Programs

| Variables | Code |
|---|---|
| `hcall`, `happlied`, `hcount`, `hfaults` | the call of each thread in `HttpClient._call`, how often the server applied it (history), `too_many_requests_count`, bound |
| `ssh`, `vm` | the call in `utils/ssh.py`, and the VM: its `at` daemon, whether it prints of sudo and tty, what it executed (history) |
| `bopts`, `brun`, `bvms`, `border`, `bfaults` | options and image; run and abort flag on the server; creator VM and orchestrator; the executor's state and what it still has to do in it; bound |
| `sopts`, `smain`, `swork`, `svm` | options; main thread with its exit code; daemon thread; the VM and what was printed of it |
| `eopts`, `edep`, `ereports`, `emain`, `efaults` | options; the run on the server; the reports of each component, in the order of their creation; `MainProgram` with what the search, `latest_only` and the downloads have handled so far; bound |
| `offers`, `oexec`, `ofaults` | offers and namespaces on the server; the executions; bound |
| `topts`, `tmain`, `tfiles`, `tserver`, `tfaults` | options and first server; the two commands, one after the other; the files; the second server; bound |
| `who` | the program that is followed |

`Programs` is a union and not a product: one of the six runs, the others rest.
They have no state in common, so a product would add interleavings and no
behaviour. `ImageBuild` and `StartInstances` share `RemoteScript`.

In `RunExecution` a report is created, uploaded and declared ready in three calls, and
the command searches once, filters report by report and downloads one after the other,
so components go on sending between any two of these steps. Senders are node instances: these
send no report again unless they have to (`_need_to_send_reports`). An orchestrator that is still up
a minute after a final state raises and sends one more; it is left out.

External: the server of `RunExecution` and `ImageBuild` (states, abort flag,
termination), of `ServiceOffers` (an offer has an id of its own, a namespace is
its name), of `ModuleTransfer` (a module needs the project it is in); the SDK of
the cloud, which may have done what it failed to answer; `sshd`, `at` and WinRM.

## 3. Runs

| Run | Question | Result |
|---|---|---|
| `scaling_normal` | nothing fails: do the programs implement the handshake, is it reset, is the device published, is every request served? | holds |
| `scaling_faults` | two things go wrong, of eight kinds | holds |
| `scaling_stale` | is `scale.iaas.done` reset for the next request, as `CloudWrapper.py:479` says? | violated |
| `scaling_nowake` | does the instance's wait end, as the docstring at `BaseWrapper.py:545` says? | violated |
| `tasks` | does the pool keep its promise, end, and report failures? | holds |
| `provisioning` | are instances started once, stopped only when unwanted and after prescale, and does the run get back to Ready? | holds |
| `provisioning_add` | are failures within the allowance when instances are added with a tolerance? | holds |
| `prov_zombie` | are the VMs of given-up instances terminated, as `CloudWrapper.py:239` says? | violated |
| `prov_hasty` | does the wait run until its time limit, as `CloudWrapper.py:152` says? | violated |
| `prov_tolerance` | is no failure tolerated by default, as `ss-node-add.py:51` says? | violated |
| `machine` | what can be relied on after any bootstrap, power cycle and one fault of the executor: the lock, the service's environment, the scripts behind a completion; does it end? | holds |
| `programs` | what the other programs leave behind, whatever call fails, is lost or interrupted, and do they end? | holds |

**Properties.** `PreScaleBeforeIaas`, `PostScaleAfterIaas`: the two orders the
handshake is for. `ImplementsHandshake`: in each request prescale, action and postscale
of an instance happen once and in this order, all of it in Provisioning, and the run
does not leave Provisioning while an instance is half-way (`ScalingHandshake`, with the
history variables mapped to the stage of each instance). `HandshakeReset`: flags are down once the run left
Provisioning, so the next request starts clean. `DeviceRecorded`: the attached
device is published before Executing. `ScaledMeansServed`: the orchestrator's
conclusion is about this request, not left from an earlier one.
`NoRebuildWithoutRestart`: a running machine is not built again.
`CompletionsHonest`: whom the server counts as done with a state has handled that
state, but for an executor that died having completed one, and for one that completes
Ready late; no handler that fails, is timed out or gets SIGTERM makes it otherwise.
`ScalingCompletes`: every request is served. For the pool `AllDoneOnReturn`,
`FailureReported`, `WaitEnds` and the refinement `ImplementsBatch`.

For provisioning `RemovedIsDown`: what is shown as removed runs no more;
`StartedOnce`: never two VMs for an instance; `StoppedWasUnwanted` and
`PreScaleBeforeStop`: no VM is stopped unasked or unprepared, though the
orchestrator takes the instances from a cache; `RemovingIsStopped`: none that is
to be removed is forgotten; `EnoughServed`: a run that is Ready has lost no more
than the allowance the orchestrator read; `RunsComplete`: it gets there.

For a machine `LockMeansInstalled`: the lock that skips every later installation
stands for a whole one; `ServiceReadsItsConfig`: an init system is given the
environment in its own format; `ClientStaysUnderExecutor`: a script that runs again does not wipe the
client from under the executor the init system started beside it;
`CompletedMeansRun`: a deployment that counts as complete ran every script the
image lacked; `NoSecondRun`: none of them twice under one executor;
`AbortStopsScript`: an endless script does not outlive an abort; `BootEnds`.

For the programs `AtMostOnce`: no lost answer makes a POST count twice;
`ImageIsWhole`: what is saved had all its recipes, and the access of the
orchestrator taken back; `BuildLeavesNoVm`: the creator VM is not forgotten;
`StartedIsTold`: no VM bootstraps that the caller was not told of;
`KillsWhatItPromised`: the server has terminated the run if options and exit code say
so, unless a call about the termination failed (`missed`), and no other one, and a good exit code means a run that is
over; `DownloadsLatest`: what is downloaded was ready, none that the search
found of its component is newer, and none at all is left behind when the command waited for
the end of the run and ends well;
`OffersInSync`: after an execution nobody crossed, catalogue and server agree;
`ModulesSurvive`: no module is lost between two servers, each is put once and after
its project, and deployments come last; `ProgramsEnd`. An image that is built from another image
may be put before it, as images are sorted by URL alone (`ss-module-upload.py:132`);
nothing is stated about that.

The exceptions in the properties are behaviours of the code that the model
checker showed: an executor that got SIGTERM inside a handler leaves
`pre.scale.done` up (`MachineExecutor.py:116`), and one that died after it
completed a state completes it again, which the server credits to whatever state
the run is in (`SlipStreamHttpClient.py:204`), as it does a late completion of Ready; the
run may then leave an executor behind that is still at work. `DeviceRecorded` is about the
value at the end of Provisioning only: `scale.iaas.done` is set before the device
(`BaseWrapper.py:461`), so a postscale script may run before the device is recorded, and no
property says otherwise. `trouble` excepts a provisioning in which the abort
flag was raised, and later ones until no instance is left half-way.
`FailedUnseen` excepts a VM that fails when the orchestrator does not look any more:
nobody completes states for it, and the run waits.

More of them, in the two later runs. `bcut` in `LockMeansInstalled`: a bootstrap that stops
between download and extraction finds, at the next boot, a tarball with the right
checksum, extracts nothing and goes on with a partial tree
(`slipstream.bootstrap.py:455`). `xcut` in `CompletedMeansRun`: SIGTERM inside a state skips
the rest of its scripts and completes it all the same. `tty` in `ImageIsWhole`: a
script whose output mentions sudo and tty is run again, whatever its exit code.
Duplicates in `OffersInSync`: offers that are stored twice stay as they are.
`SameFile` in `ModulesSurvive`: flat files join the names of a path, and a module
named like its project is written over it. A VM whose start had not returned, or was
not printed yet, when the command ended is unknown to the caller (`StartedIsTold`).

**Bounds.** Two node instances: the handshake is per instance, and instances
interact only through the orchestrator's waits and the consistency checks, which
two instances already make fail. Two requests: what is stale in the second was
left by the first. Of the three actions attaching a disk is the one with a
reporting step of its own, and `scaling_faults` has only this one (4.4 million
states); mixed scale states come from instances that are operational. `scaling_normal` has resizing beside it,
which stands for the others. Two faults: a fault and another one during its consequences.
`MaxRounds`, `MaxFaults` bound the state space in the guards of `CliCheck` and
`GoesWrong`. Four tasks on three threads: threads take turns, and end before and
after others fail. `provisioning` has two instances, three rounds (deployment and
two requests) and two faults: one instance fails while the other does not, a set
is added or removed after another, and an abort can be cancelled. With one
instance no failure would be tolerated, as the allowance is less than the number.
In `provisioning_add` there are three instances, as a request that tolerates a
failure adds at least two to a deployed one, with a deployment, one request and
one fault or abort; instances are symmetric. `prov_tolerance` needs three as
well, two to be added with a tolerance and one without.

`machine`: three VMs take the script through all branches that differ (init.d,
systemd, neither; node, orchestrator with and without a bundle; python 2 and 3;
ranges or not). Two tries stand for five and ten: the first failure and the last
one; what is left of a file is the same after any other. Two boots: what the
first leaves and the second finds. One fault of the executor, at any step; aborts
by others are free. The chain has a base module and the component, so a step may
be needed, built, or hidden by a later module that is built.

`programs`: two threads with three faults, as the count needs a second thread
between the reading and the counting of the first. An image of two modules; one
cloud fault or user's abort, with failures of ssh free, so that several failures
of one build are there anyway. `Shapes` leaves out `"vapp"`, which the code stops
as it stops `"vm"`. `keep-running` has a value each for keeping on errors, for
keeping only on success, and for a wrong one. One connection attempt fails before the last, as
after that only the count differs. Two components with two reports each, one fault of `ss-execute`
or abort: the later report is ready, or is not, and the loop meets them in any order;
that the command is late is no fault and may come on top. Two executions of the update over three
catalogues and three states of the server, one failure. Two trees, one with a module named
like its project, one with names that join to the same file.

**Fairness.** Weak fairness of each executor, IaaS thread, the server and the
pool's threads: they are loops around requests that end, and scripts and
connector calls are assumed to end. None for users, nor for anything that goes
wrong. Deadlock is checked where nothing fails and in `tasks`; with faults
the run may stop, which is a finding of its own (`scaling_nowake`).

In `machine` and `programs` weak fairness of the program's own steps, its bounded
retries included, and none for signals, power cycles, users, or the ends of
scripts: `AbortStopsScript` and the endings must do without them. In `RunExecution`
time passes, so the wait of `ss-execute` ends by its deadline. In `HttpRetry` the
number of faults is bounded, as a server that refuses for ever is retried for ever.
Deadlock is not checked in either: these programs end.

In `provisioning` the orchestrator's time limit is fair, too, which
`General.Timeout` of the user makes it; deadlock is not checked as a run may wait
forever after an abort.

**Findings.**
- `scaling_stale`: a timeout of the orchestrator in `_wait_scale_state` skips the
  clearing of `scale.iaas.done`. Once the user cancels the abort and scales
  again, an instance does not wait for the IaaS action and runs postscale first.
- `scaling_nowake`: `wait_scale_iaas_done` documents a timeout and passes 0, "no
  timeout". An instance whose VM could not be scaled waits forever, so the run
  stays in Provisioning.

- `prov_zombie`: an instance checks that it is in `creating` and then sets
  `created`; the orchestrator gives it up in between and its `removing` is
  overwritten. The instance is deleted from the run, its VM goes on.
- `prov_hasty`: the wait for instances compares the number of failed VMs with the
  number in `creating`; they can be different instances, and a healthy one that
  is still starting is removed.
- `prov_tolerance`: the tolerance of an earlier `ss-node-add`, or of the launch,
  stays in force for one that is given none.

## 4. Proofs

`VerticalScaling_proofs` assumes only `ConstantsAssumption` (a finite non-empty
set of instances, actions among the three, faults among the eight) and proves,
for every number of instances, requests and faults:

- `TypeCorrect`: `TypeOK` is inductive as it stands.
- `Invariance`: `IInv`, the types together with `CliInv` (the command is between
  check and request only in a state it may be in), `OrchInv` and `NodeInv` (an executor
  inside a handler has not completed that state and handles the current one, unless it
  was credited with a completion of another), `PreDoneInv`
  (`pre.scale.done` is up only for an instance that ended prescale in this request
  and has not yet passed it on, and the orchestrator's latch holds only such
  instances), `RunInv` and `SkipInv` (an instance that went through the handshake
  remembers to skip its recipes until it is operational again).
- `PreScaleSafe`, `RebuildSafe`, `CompletionSafe`: the three properties follow.

`PreScaleBeforeIaas` is not inductive: the orchestrator's latch outlives the
flags it was taken from, so the invariant has to say what a latched instance has
done, and, because IaaS threads of a failed request go on during later ones,
what a running task implies about its own request. TLC checked `IInv` on the
configuration of `scaling_faults` before it was proved.

- `ConclusionSafe` (`ScaledMeansServed`), whatever goes wrong, from
  `ConclusionInv`: a task that ended applied its action in the round it is of
  (`JobInv`), an executor in the handshake is still in the round it began it in
  (`HandshakeInv`), and so what was to be scaled when the orchestrator fetched the
  Run and is done now went through postscale in this round (`ServedInv`).

`PostScaleAfterIaas` and the safety properties of `scaling_normal` are false when everything
may go wrong, as `scaling_stale` shows for the first. `scaling_normal` has `Faults = {}`, and each theorem says
which faults do no harm; VMs may restart while the action is applied to them in any case.

- `PostScaleSafe` (`PostScaleAfterIaas`) has two hypotheses, of which one is enough.
  `GivesUpForGood`: either the orchestrator gives up no request (no IaaS failure, no
  timeout) or the abort flag it then raises is never reset. Then a task that is still
  running and a `scale.iaas.done` that is still up belong to the current round and the
  orchestrator sees to them, or there is no other round (`LeftInv`); so the flag that
  an executor waits for is the one of its own round (`AppliedInv`). `WaitsToTheEnd`:
  nobody is taken out of a wait (no timeout, no SIGTERM, no restart but the action's
  own) and none completes Ready late; scripts and IaaS actions may fail, aborts may be
  cancelled and commands interrupted. Then nothing is left over though the user goes on, because an instance
  whose task failed waits for ever and its request never ends (`Stuck` in `WaitInv`).
  `scaling_stale` is outside of both, with a timeout and a cancelled abort.
- `HandshakeSafe` (`HandshakeReset`), from `WaitsToTheEnd` and `WaitInv`. An instance
  with `pre.scale.done` up is in its wait or past it (`Waiting`), so that one whose VM
  restarts was not yet credited with the run state (`NobodyRepeats`) and comes back to
  the wait; what was reported is reset by the orchestrator before it completes.
- `Implements` (`ImplementsHandshake`), from `WaitsToTheEnd` and `HalfwayInv`: between its
  prescale script and the action an instance has set, or is about to set, its flag and
  waits; between the action and postscale the orchestrator waits for it or, if that
  has given up, somebody is stuck and the run with him. So nobody is half-way when the
  server moves on. Steps of the programs are matched to `Request`, `Conclude` and the three
  kinds of `Move` by what they change of the history; all others are stutters.
- `DeviceSafe` (`DeviceRecorded`), from `ScriptsRun`, which is `WaitsToTheEnd` without
  failing scripts. A command that is interrupted leaves instances of an earlier request in
  a vertical state, so the scale states need not be those of the request;
  `RequestedInv` says that the instances of the request are in the state requested until
  the action of this round was applied, and are what the orchestrator serves if it serves
  anyone, and `ActionInv` that what was applied has its task, which records the
  disk before it is done. With `WaitInv` all tasks are done when the run moves on.

TLC shows that these hypotheses cannot simply be dropped. On the instance of
`scaling_faults` each of the three, `HandshakeReset`, `ImplementsHandshake` and
`DeviceRecorded`, has a counterexample with late completions of Ready alone, with crashes
alone, with SIGTERM and IaaS failures together, and with timeouts and cancelled aborts
together; `HandshakeReset` has one with timeouts alone, `DeviceRecorded` with
failing scripts alone. None is violated there by SIGTERM alone, after which the
orchestrator waits for ever; the theorems leave that out.

`TasksRunner_proofs` assumes `BatchAssumption` (any number of tasks, any integer
of workers) and proves `TypeCorrect`, `AllDone` and `Implements`. The invariant
says that a running task is in the hands of exactly one thread, that a failure the
caller has not heard of is in the exception queue or about to be, and that a thread
the caller sees dead has put its exception first. `Implements` needs
`Promised` (at least one worker, exceptions not ignored).

`Provisioning_proofs` assumes `ProvisioningAssumption` (a finite non-empty set of
instances, any bounds, faults among the six) and proves `TypeCorrect`,
`RemovedSafe`, `StartSafe` and `StopSafe` from `Invariance`. None of the three is
inductive. That a removed VM stays down needs that no start task is left for it,
which needs that tasks exist only for instances in `creating` (`TodoInv`), that
these keep the run in Provisioning (`CreatingInv`), so that an orchestrator that
failed meanwhile does not get to another provisioning (`FreshInv`), and that the
cache it stops instances from names only unwanted ones (`UnwantedInv`). TLC
checked `IInv` with the constants of `provisioning` first.

`RemovingSafe`, `ServedSafe` and `PreScaleSafe` follow from `OutcomeInvariance`, about
what the orchestrator knows and does between the first fetch of the Run and the
end of Provisioning. `AtInv` says in which states of the run it can be where, and
`KnownInv` that what is to be removed is so in its cache until its VM is down.
`EnoughServed` needs that without trouble an executor completes only states it
handled (`LoyalInv`) and so comes out of them operational (`NodeServed`), and that the
orchestrator gives up none of those added last but the ones it marks, no more of
them than it knows to be allowed (`ServeInv`). `PreScaleBeforeStop` needs that a
provisioning which removes instances creates none (`RemoveOnly`), since the
orchestrator skips the wait for the prescale scripts when it does not find
`removing` alone, and that one which adds finds no removed VM left to stop
(`AddOnly`).

`Bootstrap_proofs` assumes what `Bootstrap` does of its constants (at least one try
of each kind, any number of boots, any set of platforms) and proves `BootTypeCorrect`,
`LockCorrect` and `ServiceCorrect` from `BootInvariance`. The lock is written steps
after what it stands for, by a script that may have been started over with any
disk, so the invariant follows the disk through the script: `CutKnown` (outside of
the steps between download and extraction, a whole tarball next to a partial tree
is known as cut), `LockedOut` (once there is a lock the script is never again in a
step that takes the client apart), `BeforeLock` (what is on the disk when the
script is about to write the lock), `JobsSuffice` (the commands still to run
install the libraries that are missing) and `ConfigFits` (the environment file
written is the one the registered service reads).

`Machine_proofs` builds on `Bootstrap_proofs` and assumes `ChainAssumption` (a
non-empty chain of modules, none of which inherits from itself), `ImagesAssumption`
and `ExecFaultsAssumption`. It proves `MachineTypeCorrect`, `CompletedCorrect`,
`OnceCorrect` and `ClientStays` from `MachineInvariance`. A step of the VM is one of
the script and one of the executor (`Halves`), so the bootstrap's invariant carries
over, and the rest is about the two together:

- `ProcInv`: what an executor has left of a state is a sequence in which no step
  occurs twice. This is where the chain must not repeat, and why the lemmas about
  `BuildSteps` and the other pieces of `DeploymentSteps` come first.
- `HonestInv` for `CompletedMeansRun`. Completion is posted several steps after the
  scripts, possibly by an executor that lost a call, was signalled or follows one
  that died. The invariant says that whatever makes the VM count as deployed, or is
  about to, has one of the reasons in `Excused`, and that in between every script of
  the deployment has succeeded or is still to be done.
- `OnceInv` for `NoSecondRun`. The states of a run start over when VMs are added, so
  an executor comes to Executing more than once; it must find its VM operational
  then. That is so because the run is ready only after reports were sent
  (`ScaledInv`, `ReportingInv`), `created` is only written over `creating`
  (`CreatingStepInv`), and a script that succeeded keeps the run from a second
  deployment until then (`ReachedInv`, `RanInv`, `FreshInv`).
- `ClientInv` for `ClientStaysUnderExecutor`: an executor, a registered service and
  every step of the script after the installation stand on a lock.

TLC checks the three properties on the configuration of `machine`.

`VmPrograms_proofs` and `ServerPrograms_proofs` hold what is proved of the six
programs of `Programs` one by one, and `Programs_proofs` puts it together:
`ProgramsInv` says that a program satisfies its own invariant while it is the one
that is followed and is in its idle state otherwise. From `ProgramsInvariance`
follow `ProgramsTypeCorrect`, `ImageWhole`, `NoVmLeft`, `OffersAreInSync`,
`ModulesTransferred` and `OthersCorrect`, which are all invariants of the run
`programs`.

- HTTP calls (`HttpFaultsAssumption`: any number of faults). `HttpTypeCorrect` holds
  the bounds of the shared count and of the wait for any number of threads. For
  `AppliedOnce` the invariant is that a call which may not be sent twice and is
  still to be sent was not applied.
- `ss-execute` (`ExecuteAssumption`: any number of components, reports and faults).
  `KillsCorrectly` needs what each place of the command implies about its exit code, the
  termination and the run (`Decisions`). For `DownloadsCorrectly` the loop of `latest_only`
  keeps the newest of what it has seen (`LatestKept`, `NewestOf`), what is ready stays
  ready while others are sent (`ReadyStays`), and a run that is over has nobody who still
  sends (`NobodySends`), so that what the search finds then is all there is (`AllFound`).
- Start of an instance (`StartJobsAssumption`, `SshAssumption`, `WinrmAssumption`).
  `StartedCorrect` follows from what is known and printed of the VM at each step of the
  thread (`Phases`) and which steps of the two threads and of the call over ssh go
  together (`Threads`).
- Build of an image (`BuildAssumption`, `BuildChainAssumption`: any chain that
  repeats no module, `BuildJobsAssumption`). A script counts for `ImageIsWhole` by how often the
  VM ran it, and the executor learns of that only as far as ssh tells. `Progress`
  says that a job that was to run has run (once, unless `sudo` wants a tty and ssh tries
  again), or is still to be done, or is the call that is under way; `InCall` which call
  that can be; `Tidy` that a job occurs at most once in what is left, before the image is
  saved. The lemmas about `BuildIncrement` and the other pieces of `StateOps` come first,
  since `Tidy` has to hold of every state's steps for any chain and any options. For
  `BuildLeavesNoVm`, `LeaveInv` says that as long as the orchestrator is still to stop
  itself it is to stop the creator first, unless that is gone or meant to stay.
- Service offers (`OfferAssumption`, `StoredOffersAssumption`: the ids of stored offers
  tell them apart and are finitely many, none bears the price of an execution that
  is still to come, and catalogues are sequences). `OffersInSync` speaks of the end of an
  execution; `Synced` says of each step what of the catalogue is already at the
  server, what of the server is justified by the catalogue, and which offers the
  execution still knows to be its own, as long as no other one wrote
  meanwhile. A write of one execution disturbs the claims of the others only by
  taking away that they were alone (`OfferWriters`). That an offer created gets an id that
  no other has needs the greatest of a finite set of numbers.
- Module transfer (`TransferAssumption`, `TreesAssumption`: trees are finite, and every
  module is in a project, which is in a project, down from the one that is downloaded).
  `PutInOrder` is what holds of the upload whatever fails: no module is put twice, a
  project before what is in it. `NothingLost` holds without faults and when no
  two modules share a file: what is not yet downloaded lies below a path in the queue,
  and what is downloaded and not put is in the files left or of a later kind.

Every invariant and every action property of the passing runs is now a theorem. Only
model-checked are the properties about liveness, since liveness under fairness is out of the
prover's reach: `ScalingCompletes`, `FailureReported`, `WaitEnds`, `RunsComplete`,
`AbortStopsScript`, `BootEnds` and `ProgramsEnd`. Of `scaling_normal`'s
invariants the theorems have the hypotheses on `Faults` named above, which that run meets.

## 5. Not modelled

- A restart of the orchestrator during `Provisioning`. Its lists are lost and the
  instances in `creating` are started a second time; hardly a property of that
  module would be left to state. The hazard is in `PROJECT.json` without one.
- What the orchestrator of a deployment does in `Ready` beside completing it, and its
  `Finalizing`: it completes the state for instances that were given up, kills itself
  when nothing is left to do, and stops what `ImageBuild` shows for a build, VM by VM.
- The result archiver: packs files and puts them once, in sequence.
- The factories of connectors and contextualizers: module loading, no state.
- Commands of a single request (`ss-get`, `ss-set`, `ss-display`, users, single
  modules, describing and terminating instances): one call, whose retries are in
  `HttpRetry`.
- Parsing and formatting: XML of the server, cookies, configuration files,
  `util.py`.
- Vendored libraries under `src/client/src/external`.

## 6. Plan

1. `Provisioning` with a restarted orchestrator, if the instances in `creating`
   were taken over; the start tasks as an instance of `TaskBatch`.
2. Two or more executors in `Executor`, with a barrier per state as their abstract
   specification.
3. Theorems: `HandshakeSafe`, `Implements` and `DeviceSafe` for single faults outside of their
   hypotheses that TLC finds harmless, such as SIGTERM alone.
