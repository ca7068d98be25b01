----------------------------- MODULE Bootstrap -----------------------------
(***************************************************************************)
(* slipstream.bootstrap.py: the script a new VM runs to install the        *)
(* SlipStream client and start its executor.  One VM, whose disk outlives  *)
(* the script: the script may be killed at any step by a power cycle and   *)
(* is run again at the next boot, up to MaxBoots times.                    *)
(***************************************************************************)
EXTENDS Integers, Sequences

CONSTANTS
  BootPlatforms,   \* the VMs: [dist, major, role, bundle, module, py, ranges]
  CallTries,       \* tries of a command and of a call to the server (5 in the code)
  DownloadTries,   \* tries of a download (10 in the code)
  MaxBoots         \* bound: how many times the script is run

Dirs == {"client", "connector"}              \* SLIPSTREAM_CLIENT_HOME, /opt/<cloud>
Libs == {"Crypto", "paramiko", "scpclient"}
Unparsable == -1                             \* a version that is not made of numbers
RedHatLike == {"CentOS", "CentOS Linux", "RedHat"}
SusesEnterprise == {"SUSE Linux Enterprise Server", "SUSE Linux Enterprise Desktop"}
KnownDists == RedHatLike \cup SusesEnterprise \cup {"openSUSE", "Ubuntu"}

ASSUME TriesAssumption == CallTries \in Nat \ {0} /\ DownloadTries \in Nat \ {0}
ASSUME BootsAssumption == MaxBoots \in Nat
ASSUME PlatformAssumption ==
  BootPlatforms \subseteq
    [dist : STRING, major : Int, role : {"node", "orchestrator"}, bundle : BOOLEAN,
     module : BOOLEAN, py : 2 .. 3, ranges : BOOLEAN]

VARIABLES
  bpc,      \* the step the script is at; "off" when it does not run
  bmem,     \* what its process remembers
  bdisk,    \* what the disk of the VM holds
  bplat,    \* the VM
  btold,    \* the server has received the abort of the run
  bcut,     \* the last installation stopped between a whole tarball and a whole tree
  bboots    \* how many times the script was run

bootVars == <<bpc, bmem, bdisk, bplat, btold, bcut, bboots>>

-----------------------------------------------------------------------------
(* Which init system starts the executor.  A range of versions is the set of majors in it. *)

(* Mutant: the first RedHat with systemd is still taken for one with init.d. *)
MutantInitdMajors(dist) ==
  CASE dist \in RedHatLike -> 5 .. 7
    [] dist = "Ubuntu" -> 10 .. 14
    [] dist \in SusesEnterprise \cup {"openSUSE"} -> 11 .. 11
    [] OTHER -> {}

InitdMajors(dist) ==
  CASE dist \in RedHatLike -> 5 .. 6
    [] dist = "Ubuntu" -> 10 .. 14
    [] dist \in SusesEnterprise \cup {"openSUSE"} -> 11 .. 11
    [] OTHER -> {}

SystemdMajors(dist) ==
  CASE dist \in RedHatLike -> 7 .. 7
    [] dist = "Ubuntu" -> 15 .. 16
    [] dist = "openSUSE" -> 12 .. 13
    [] dist \in SusesEnterprise -> 12 .. 12
    [] OTHER -> {}

SupportsInitd == bplat.major \in InitdMajors(bplat.dist)
SupportsSystemd == bplat.major \in SystemdMajors(bplat.dist)
VersionRaises == bplat.dist \in KnownDists /\ bplat.major = Unparsable

-----------------------------------------------------------------------------
(* The commands that install what the orchestrator needs to reach the VMs over ssh: each *)
(* package brings the one before it in Libs.                                              *)

PipJobs == {"upgrade", "paramiko", "scpclient"}
Pip == <<"python-pip", "upgrade", "upgrade">>

(* Mutant: scpclient is only installed along with paramiko. *)
MutantParamikoJobs(libs) ==
  IF "Crypto" \notin libs THEN <<"manager", "dependencies">> \o Pip \o <<"paramiko", "scpclient">>
  ELSE IF "paramiko" \notin libs THEN <<"manager">> \o Pip \o <<"paramiko", "scpclient">>
  ELSE << >>

ParamikoJobs(libs) ==
  IF "Crypto" \notin libs THEN <<"manager", "dependencies">> \o Pip \o <<"paramiko", "scpclient">>
  ELSE IF "paramiko" \notin libs THEN <<"manager">> \o Pip \o <<"paramiko", "scpclient">>
  ELSE IF "scpclient" \notin libs THEN <<"manager">> \o Pip \o <<"scpclient">>
  ELSE << >>

(* Mutant: the package is looked for under the name of its project. *)
MutantInstalledBy(job) ==
  CASE job = "paramiko" -> {"Crypto", "paramiko"} [] job = "scpclient" -> {"scp"} [] OTHER -> {}

InstalledBy(job) ==
  CASE job = "paramiko" -> {"Crypto", "paramiko"} [] job = "scpclient" -> {"scpclient"} [] OTHER -> {}

(* A step that fails is tried again as often as its @retry says, then raises. *)
TriesOf(step) ==
  CASE step \in {"download", "getcert"} -> DownloadTries
    [] step \in {"job", "pipcert", "authn", "put"} -> CallTries
    [] OTHER -> 1

BootMem0 == [py |-> 2, rerun |-> FALSE, jobs |-> << >>, cert |-> FALSE,
             dir |-> "client", tries |-> 0, cmd |-> "none"]
BootDisk0 == [tarball |-> [d \in Dirs |-> "none"], tree |-> [d \in Dirs |-> "none"],
              saved |-> {}, libs |-> {}, lock |-> FALSE, py2 |-> FALSE,
              defaults |-> "none", service |-> "none"]

BootInit ==
  /\ bpc = "off" /\ bmem = BootMem0 /\ bcut = FALSE /\ btold = FALSE /\ bboots = 0
  /\ bplat \in BootPlatforms
  /\ \E libs \in {{}, {"Crypto"}, {"Crypto", "paramiko"}, Libs} :
       bdisk = [BootDisk0 EXCEPT !.libs = libs, !.py2 = (bplat.py = 2)]

-----------------------------------------------------------------------------
Is(step) == bpc = step
Go(step) == bpc' = step
Keep == bmem' = [bmem EXCEPT !.tries = 0]                  \* the next call counts its tries anew
Cut == bdisk.tarball["client"] = "full" /\ bdisk.tree["client"] # "full"

(* An exception reaches main(), which publishes the failure and raises it again. *)
BootRaise ==
  /\ Go("authn") /\ Keep
  /\ bcut' = (bcut \/ Cut')
  /\ UNCHANGED <<bplat, btold, bboots>>

(* main(): python 3 installs python 2 and runs the script once more in a child. *)
Process(py, rerun) ==
  /\ bmem' = [BootMem0 EXCEPT !.py = py, !.rerun = rerun,
                              !.jobs = IF py = 3 THEN <<"manager", "python">> ELSE << >>]
  /\ Go(IF py = 3 THEN "job" ELSE "setup")

BootRun ==
  /\ Is("off") /\ bboots < MaxBoots
  /\ bboots' = bboots + 1
  /\ Process(IF bdisk.py2 THEN 2 ELSE 3, FALSE)
  /\ UNCHANGED <<bdisk, bplat, btold, bcut>>

(* rerun(): the child finds RERUN in its environment; a child that is still run by *)
(* python 3 cannot be run a third time.                                             *)
BootRerun ==
  /\ Is("rerun")
  /\ IF bmem.rerun THEN Go("authn") /\ Keep
     ELSE \E py \in 2 .. 3 : Process(py, TRUE)
  /\ UNCHANGED <<bdisk, bplat, btold, bcut, bboots>>

(* get_and_setup_ss: the lock of a done installation skips the rest of it. *)
AfterClient == IF bplat.role = "node" THEN "executor"
               ELSE IF bplat.bundle THEN "compare" ELSE "executor"
BootSetup ==
  /\ Is("setup")
  /\ IF bdisk.lock THEN /\ Go(AfterClient)
                        /\ bmem' = [bmem EXCEPT !.dir = "connector"]
                   ELSE Go("compare") /\ UNCHANGED bmem
  /\ UNCHANGED <<bdisk, bplat, btold, bcut, bboots>>

-----------------------------------------------------------------------------
(* _download_and_extract_tarball *)

AfterTarball == IF bmem.dir = "client" THEN "context" ELSE "executor"

(* A tarball with the checksum of the remote one is up to date: nothing is extracted. *)
(* A checksum that cannot be read counts as different.                                 *)
BootCompare ==
  /\ Is("compare")
  /\ \/ bdisk.tarball[bmem.dir] = "full" /\ Go(AfterTarball)
     \/ Go("wipe")
  /\ UNCHANGED <<bmem, bdisk, bplat, btold, bcut, bboots>>

BootWipe ==
  /\ Is("wipe")
  /\ bdisk' = [bdisk EXCEPT !.tarball[bmem.dir] = "none", !.tree[bmem.dir] = "none",
                            !.saved = IF bmem.dir = "client" THEN {} ELSE @]
  /\ Go("download")
  /\ UNCHANGED <<bmem, bplat, btold, bcut, bboots>>

(* A transfer that ends early without an error is taken for the whole file.  A server that *)
(* serves ranges refuses the rest of a file that is already whole.                          *)
BootDownload ==
  /\ Is("download")
  /\ ~(bplat.ranges /\ bdisk.tarball[bmem.dir] = "full")
  /\ \E got \in {"part", "full"} : bdisk' = [bdisk EXCEPT !.tarball[bmem.dir] = got]
  /\ Go("extract") /\ Keep
  /\ UNCHANGED <<bplat, btold, bcut, bboots>>

(* What a try of a download that raises leaves of the file. *)
LeftOfDownload ==
  IF bplat.ranges /\ bdisk.tarball[bmem.dir] = "full" THEN {"full"}
  ELSE {bdisk.tarball[bmem.dir], "part", "full"}

BootExtract ==
  /\ Is("extract") /\ bdisk.tarball[bmem.dir] = "full"
  /\ bdisk' = [bdisk EXCEPT !.tree[bmem.dir] = "full"]
  /\ bcut' = (bcut /\ bmem.dir # "client")
  /\ Go(AfterTarball)
  /\ UNCHANGED <<bmem, bplat, btold, bboots>>

BootExtractRaises ==
  /\ Is("extract")
  /\ \E left \in {"none", "part"} : bdisk' = [bdisk EXCEPT !.tree[bmem.dir] = left]
  /\ BootRaise

-----------------------------------------------------------------------------
(* Context and configuration go to bin/ and sbin/ of the tree, which must be there. *)
BootPersist ==
  /\ bpc \in {"context", "config"} /\ bdisk.tree["client"] # "none"
  /\ Is("config") /\ bplat.role = "orchestrator" => bplat.module
  /\ bdisk' = [bdisk EXCEPT !.saved = @ \cup {bpc}]
  /\ IF Is("context") THEN Go("config") /\ UNCHANGED bmem
     ELSE /\ Go(IF bplat.role = "orchestrator" /\ ParamikoJobs(bdisk.libs) # << >>
                THEN "job" ELSE "lock")
          /\ bmem' = [bmem EXCEPT !.jobs = IF bplat.role = "orchestrator"
                                           THEN ParamikoJobs(bdisk.libs) ELSE << >>]
  /\ UNCHANGED <<bplat, btold, bcut, bboots>>

(* One command of an installation succeeds; the last one ends it. *)
JobDone ==
  /\ bdisk' = [bdisk EXCEPT !.libs = @ \cup InstalledBy(Head(bmem.jobs)),
                            !.py2 = @ \/ Head(bmem.jobs) = "python"]
  /\ bmem' = [bmem EXCEPT !.jobs = Tail(@), !.tries = 0]
  /\ Go(IF Len(bmem.jobs) > 1 THEN "job" ELSE IF bmem.py = 3 THEN "rerun" ELSE "lock")
  /\ UNCHANGED <<bplat, btold, bcut, bboots>>
BootJob == bpc \in {"job", "pipcert"} /\ JobDone

(* _set_install_command_and_distro: no package manager at all is not tried again. *)
BootNoManager == Is("job") /\ Head(bmem.jobs) = "manager" /\ UNCHANGED bdisk /\ BootRaise

(* _pip_run_cmd: a pip command that cannot check the certificates of the index gets them *)
(* from mkcert.org, once, and is tried anew with them.                                    *)
BootPipNeedsCert ==
  /\ Is("job") /\ Head(bmem.jobs) \in PipJobs /\ bmem.tries + 1 >= CallTries
  /\ Go(IF bmem.cert THEN "pipcert" ELSE "getcert") /\ Keep
  /\ UNCHANGED <<bdisk, bplat, btold, bcut, bboots>>

BootGetCert ==
  /\ Is("getcert")
  /\ bmem' = [bmem EXCEPT !.cert = TRUE, !.tries = 0]
  /\ Go("pipcert")
  /\ UNCHANGED <<bdisk, bplat, btold, bcut, bboots>>

(* Mutant: the lock is not written. *)
MutantBootLock ==
  /\ Is("lock")
  /\ bmem' = [bmem EXCEPT !.dir = "connector"]
  /\ Go(AfterClient)
  /\ UNCHANGED <<bdisk, bplat, btold, bcut, bboots>>

(* _set_setup_done_lock, the last step of the client's installation. *)
BootLock ==
  /\ Is("lock")
  /\ bdisk' = [bdisk EXCEPT !.lock = TRUE]
  /\ bmem' = [bmem EXCEPT !.dir = "connector"]
  /\ Go(AfterClient)
  /\ UNCHANGED <<bplat, btold, bcut, bboots>>

-----------------------------------------------------------------------------
(* get_machine_executor_command: whatever fails, the executor is started directly. *)

FallBack ==
  /\ bmem' = [bmem EXCEPT !.cmd = "direct"]
  /\ Go("start")

BootExecutorConfig ==
  /\ Is("executor")
  /\ \/ /\ ~VersionRaises
        /\ bdisk' = [bdisk EXCEPT !.defaults = IF SupportsInitd THEN "export" ELSE "plain"]
        /\ Go("register") /\ UNCHANGED bmem
     \/ FallBack /\ UNCHANGED bdisk
  /\ UNCHANGED <<bplat, btold, bcut, bboots>>

(* systemd needs the unit file of the tree; a symlink of init.d does not need its target. *)
BootRegister ==
  /\ Is("register")
  /\ \/ /\ SupportsSystemd /\ bdisk.tree["client"] = "full"
        /\ bdisk' = [bdisk EXCEPT !.service = "systemd"]
        /\ bmem' = [bmem EXCEPT !.cmd = "systemd"]
        /\ Go("start")
     \/ /\ ~SupportsSystemd /\ SupportsInitd
        /\ bdisk' = [bdisk EXCEPT !.service = "initd"]
        /\ bmem' = [bmem EXCEPT !.cmd = "initd"]
        /\ Go("start")
     \/ FallBack /\ UNCHANGED bdisk
  /\ UNCHANGED <<bplat, btold, bcut, bboots>>

(* systemctl answers before the executor is up; the other two need its script. *)
BootStartExecutor ==
  /\ Is("start")
  /\ bmem.cmd = "systemd" \/ bdisk.tree["client"] = "full"
  /\ Go("started")
  /\ bmem' = [BootMem0 EXCEPT !.cmd = bmem.cmd]
  /\ UNCHANGED <<bdisk, bplat, btold, bcut, bboots>>

-----------------------------------------------------------------------------
(* AbortPublisher *)

(* The process ends; the parent of a rerun then reports the exit code of its child too. *)
BootFailed ==
  /\ Go(IF bmem.rerun THEN "authn" ELSE "failed")
  /\ bmem' = [bmem EXCEPT !.rerun = FALSE, !.tries = 0]

BootAuthenticate ==
  /\ Is("authn")
  /\ \/ Go("put") /\ Keep
     \/ BootFailed                            \* the credentials are refused
  /\ UNCHANGED <<bdisk, bplat, btold, bcut, bboots>>

BootPut ==
  /\ Is("put")
  /\ btold' \in {btold, TRUE}                 \* a status other than 200 is only logged
  /\ BootFailed
  /\ UNCHANGED <<bdisk, bplat, bcut, bboots>>

BootSteps == {"job", "pipcert", "getcert", "setup", "download", "context", "config",
              "lock", "start", "authn", "put", "rerun"}

(* Mutant: tries are not counted. *)
MutantBootTryFails ==
  /\ bpc \in BootSteps
  /\ Keep
  /\ UNCHANGED <<bpc, bdisk, bplat, btold, bcut, bboots>>

(* A try of the step the script is at raises.  A PUT may have been applied all the same. *)
BootTryFails ==
  /\ bpc \in BootSteps
  /\ bdisk' \in IF Is("download")
                THEN {[bdisk EXCEPT !.tarball[bmem.dir] = left] : left \in LeftOfDownload}
                ELSE {bdisk}
  /\ IF Is("put") THEN btold' \in {btold, TRUE} ELSE UNCHANGED btold
  /\ IF bmem.tries + 1 < TriesOf(bpc)
     THEN /\ bmem' = [bmem EXCEPT !.tries = @ + 1]
          /\ UNCHANGED <<bpc, bplat, bcut, bboots>>
     ELSE /\ IF bpc \in {"authn", "put"} THEN BootFailed ELSE Go("authn") /\ Keep
          /\ bcut' = (bcut \/ Cut')
          /\ UNCHANGED <<bplat, bboots>>

(* The VM is power cycled. *)
BootCrash ==
  /\ bpc # "off" /\ bboots < MaxBoots
  /\ Go("off")
  /\ bmem' = BootMem0
  /\ bdisk' \in IF Is("extract")
                THEN {[bdisk EXCEPT !.tree[bmem.dir] = left] : left \in {"none", "part"}}
                ELSE {bdisk}
  /\ bcut' = (bcut \/ Cut')
  /\ UNCHANGED <<bplat, btold, bboots>>

BootStep ==
  \/ BootRun \/ BootRerun \/ BootSetup \/ BootCompare \/ BootWipe \/ BootDownload
  \/ BootExtract \/ BootExtractRaises \/ BootPersist \/ BootJob \/ BootNoManager
  \/ BootPipNeedsCert \/ BootGetCert \/ BootLock \/ BootExecutorConfig \/ BootRegister \/ BootStartExecutor
  \/ BootAuthenticate \/ BootPut \/ BootTryFails
BootNext == BootStep \/ BootCrash
BootSpec == BootInit /\ [][BootNext]_bootVars /\ WF_bootVars(BootStep)

-----------------------------------------------------------------------------
(* Types of what the script and the disk hold. *)
BootTypeOK ==
  /\ bpc \in BootSteps \cup {"off", "compare", "wipe", "extract", "executor", "register",
                             "started", "failed"}
  /\ bmem \in [py : 2 .. 3, rerun : BOOLEAN, cert : BOOLEAN, dir : Dirs, tries : Nat,
               jobs : Seq({"manager", "dependencies", "python", "python-pip"} \cup PipJobs),
               cmd : {"none", "systemd", "initd", "direct"}]
  /\ bdisk \in [tarball : [Dirs -> {"none", "part", "full"}],
                tree : [Dirs -> {"none", "part", "full"}],
                saved : SUBSET {"context", "config"}, libs : SUBSET Libs, lock : BOOLEAN,
                py2 : BOOLEAN, defaults : {"none", "plain", "export"},
                service : {"none", "systemd", "initd"}]
  /\ bplat \in BootPlatforms
  /\ btold \in BOOLEAN /\ bcut \in BOOLEAN /\ bboots \in 0 .. MaxBoots

(* The lock that says the executor was already configured on the host, and that makes every *)
(* later run of the script skip the installation, is only there next to a client whose       *)
(* context and configuration are written, with the libraries an orchestrator needs, and whose *)
(* tree is whole - unless the last installation stopped between a whole tarball and a whole *)
(* tree, which the checksum of the tarball then hides.                                        *)
LockMeansInstalled ==
  bdisk.lock => /\ bdisk.saved = {"context", "config"}
                /\ bplat.role = "orchestrator" => bdisk.libs = Libs
                /\ bdisk.tree["client"] # "none"
                /\ bdisk.tree["client"] = "full" \/ bcut

(* An executor started by an init system finds its environment in the format of that init  *)
(* system: init.d sources a file of exports, systemd reads a file of bare assignments.     *)
ServiceReadsItsConfig ==
  Is("started") => /\ bmem.cmd = "systemd" => bdisk.defaults = "plain"
                   /\ bmem.cmd = "initd" => bdisk.defaults = "export"

(* The script ends whatever fails, and however often: every call is tried a number of times. *)
BootEnds == <>[](bpc \in {"off", "started", "failed"})
=============================================================================
