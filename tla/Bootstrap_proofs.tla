-------------------------- MODULE Bootstrap_proofs --------------------------
(***************************************************************************)
(* The bootstrap script on any VMs, with any number of tries and of power  *)
(* cycles: what the lock of a done installation says of the disk, and that *)
(* a service finds the environment it can read.                            *)
(***************************************************************************)
EXTENDS Bootstrap, SequenceTheorems, TLAPS

Jobs == {"manager", "dependencies", "python", "python-pip"} \cup PipJobs

(* The orchestrator's libraries are being installed, after the client. *)
Installing == bpc \in {"job", "pipcert", "getcert"} /\ bmem.py = 2
AtClient == bpc \in {"context", "config", "lock"} \/ Installing

(* A whole tarball over a tree that is not, as long as it is not known to bcut. *)
CutKnown == Cut /\ ~bcut => bpc \in {"download", "extract"} /\ bmem.dir = "client"

(* A script that finds the lock, or has set it, leaves the client alone. *)
LockedOut ==
  bdisk.lock => /\ bpc \in {"compare", "wipe", "download", "extract"} => bmem.dir = "connector"
                /\ ~AtClient

(* What is there before the lock is. *)
BeforeLock ==
  /\ AtClient => bdisk.tarball["client"] = "full"
  /\ AtClient /\ bpc # "context" => "context" \in bdisk.saved /\ bdisk.tree["client"] # "none"
  /\ bpc = "lock" \/ Installing => "config" \in bdisk.saved
  /\ bpc = "lock" /\ bplat.role = "orchestrator" => bdisk.libs = Libs

(* What the jobs that are left install is all that is missing. *)
Covered(libs, jobs) ==
  \A l \in Libs \ libs : \E i \in 1 .. Len(jobs) : l \in InstalledBy(jobs[i])
JobsSuffice ==
  /\ bpc \in {"job", "pipcert", "getcert"} => bmem.jobs # << >>
  /\ Installing => Covered(bdisk.libs, bmem.jobs)

ConfigFits ==
  /\ bpc = "register" => bdisk.defaults = IF SupportsInitd THEN "export" ELSE "plain"
  /\ bpc \in {"start", "started"} =>
       /\ bmem.cmd = "systemd" => bdisk.defaults = "plain"
       /\ bmem.cmd = "initd" => bdisk.defaults = "export"

BootInv ==
  /\ BootTypeOK
  /\ CutKnown /\ LockedOut /\ BeforeLock /\ JobsSuffice
  /\ LockMeansInstalled /\ ConfigFits

-----------------------------------------------------------------------------
(* The jobs of an installation are known jobs, and come in parts. *)
LEMMA Parts ==
  /\ Pip \in Seq(Jobs) /\ <<"manager">> \in Seq(Jobs) /\ <<"manager", "dependencies">> \in Seq(Jobs)
  /\ <<"paramiko", "scpclient">> \in Seq(Jobs) /\ <<"scpclient">> \in Seq(Jobs)
BY DEF Pip, Jobs, PipJobs

LEMMA LastPart ==
  ASSUME NEW s \in Seq(Jobs), NEW t \in Seq(Jobs), NEW j \in 1 .. Len(t)
  PROVE  /\ s \o t \in Seq(Jobs) /\ (s \o t)[Len(s) + j] = t[j]
         /\ Len(s) + j \in 1 .. Len(s \o t) /\ s \o t # << >>
<1>1. s \o t \in Seq(Jobs) /\ Len(s \o t) = Len(s) + Len(t)
  BY ConcatProperties
<1>2. Len(s) \in Nat /\ Len(t) \in Nat
  BY LenProperties
<1>3. Len(s) + j \in 1 .. Len(s) + Len(t)
  BY <1>2
<1>4. (s \o t)[Len(s) + j] = t[j]
  BY <1>2, <1>3, ConcatProperties
<1>5. Len(s \o t) # 0
  BY <1>1, <1>2
<1> QED BY <1>1, <1>3, <1>4, <1>5, EmptySeq

LEMMA JobsOf ==
  ASSUME NEW libs
  PROVE  \/ /\ Libs \subseteq libs /\ ParamikoJobs(libs) = << >>
         \/ /\ "scpclient" \notin libs
            /\ \E s \in Seq(Jobs) : \/ ParamikoJobs(libs) = s \o <<"paramiko", "scpclient">>
                                    \/ /\ {"Crypto", "paramiko"} \subseteq libs
                                       /\ ParamikoJobs(libs) = s \o <<"scpclient">>
         \/ \E s \in Seq(Jobs) : ParamikoJobs(libs) = s \o <<"paramiko", "scpclient">>
<1>1. \A s \in Seq(Jobs) : s \o Pip \in Seq(Jobs)
  BY Parts, ConcatProperties
<1> QED BY <1>1, Parts DEF ParamikoJobs, Libs

(* Whatever libraries a VM has, the commands for it bring the others (get_paramiko, *)
(* get_pycrypto and install_scpclient); no command means that none is missing.       *)
LEMMA JobsCover ==
  ASSUME NEW libs \in SUBSET Libs
  PROVE  /\ ParamikoJobs(libs) \in Seq(Jobs)
         /\ ParamikoJobs(libs) # << >> => Covered(libs, ParamikoJobs(libs))
         /\ ParamikoJobs(libs) = << >> => libs = Libs
<1>1. ASSUME NEW s \in Seq(Jobs), ParamikoJobs(libs) = s \o <<"paramiko", "scpclient">>
      PROVE  /\ ParamikoJobs(libs) \in Seq(Jobs) /\ ParamikoJobs(libs) # << >>
             /\ Covered(libs, ParamikoJobs(libs))
  <2> DEFINE jobs == ParamikoJobs(libs)
  <2>1. /\ jobs \in Seq(Jobs) /\ jobs # << >>
        /\ Len(s) + 1 \in 1 .. Len(jobs) /\ jobs[Len(s) + 1] = "paramiko"
        /\ Len(s) + 2 \in 1 .. Len(jobs) /\ jobs[Len(s) + 2] = "scpclient"
    BY <1>1, Parts, LastPart
  <2>2. InstalledBy("paramiko") = {"Crypto", "paramiko"} /\ InstalledBy("scpclient") = {"scpclient"}
    BY DEF InstalledBy
  <2> HIDE DEF jobs
  <2>3. Covered(libs, jobs)
    BY <2>1, <2>2 DEF Covered, Libs
  <2> QED BY <2>1, <2>3 DEF jobs
<1>2. ASSUME NEW s \in Seq(Jobs), ParamikoJobs(libs) = s \o <<"scpclient">>,
             {"Crypto", "paramiko"} \subseteq libs
      PROVE  /\ ParamikoJobs(libs) \in Seq(Jobs) /\ ParamikoJobs(libs) # << >>
             /\ Covered(libs, ParamikoJobs(libs))
  <2> DEFINE jobs == ParamikoJobs(libs)
  <2>1. /\ jobs \in Seq(Jobs) /\ jobs # << >>
        /\ Len(s) + 1 \in 1 .. Len(jobs) /\ jobs[Len(s) + 1] = "scpclient"
    BY <1>2, Parts, LastPart
  <2>2. InstalledBy("scpclient") = {"scpclient"}
    BY DEF InstalledBy
  <2> HIDE DEF jobs
  <2>3. Covered(libs, jobs)
    BY <1>2, <2>1, <2>2 DEF Covered, Libs
  <2> QED BY <2>1, <2>3 DEF jobs
<1>3. << >> \in Seq(Jobs)
  BY EmptySeq
<1> QED BY <1>1, <1>2, <1>3, JobsOf

(* No distribution is taken for one with init.d and for one with systemd (is_initd_supported, *)
(* is_systemd_supported).                                                                      *)
LEMMA OneInitSystem == SupportsInitd => ~SupportsSystemd
<1>1. CASE bplat.dist \in RedHatLike
  BY <1>1 DEF SupportsInitd, SupportsSystemd, InitdMajors, SystemdMajors
<1>2. CASE bplat.dist \notin RedHatLike /\ bplat.dist = "Ubuntu"
  BY <1>2 DEF SupportsInitd, SupportsSystemd, InitdMajors, SystemdMajors
<1>3. CASE bplat.dist \notin RedHatLike /\ bplat.dist = "openSUSE"
  BY <1>3 DEF SupportsInitd, SupportsSystemd, InitdMajors, SystemdMajors, SusesEnterprise
<1>4. CASE bplat.dist \notin RedHatLike /\ bplat.dist \in SusesEnterprise
  <2>1. bplat.dist # "Ubuntu" /\ bplat.dist # "openSUSE"
    BY <1>4 DEF SusesEnterprise
  <2>2. InitdMajors(bplat.dist) = 11 .. 11 /\ SystemdMajors(bplat.dist) = 12 .. 12
    BY <1>4, <2>1 DEF InitdMajors, SystemdMajors
  <2> QED BY <2>2 DEF SupportsInitd, SupportsSystemd
<1>5. CASE bplat.dist \notin RedHatLike \cup SusesEnterprise \cup {"Ubuntu", "openSUSE"}
  BY <1>5 DEF SupportsInitd, SupportsSystemd, InitdMajors, SystemdMajors
<1> QED BY <1>1, <1>2, <1>3, <1>4, <1>5

(* What a process of the script starts with. *)
Memories ==
  [py : 2 .. 3, rerun : BOOLEAN, cert : BOOLEAN, dir : Dirs, tries : Nat, jobs : Seq(Jobs),
   cmd : {"none", "systemd", "initd", "direct"}]
LEMMA StartMemory == BootMem0 \in Memories
<1>1. << >> \in Seq(Jobs) /\ 2 \in 2 .. 3 /\ 0 \in Nat
  BY EmptySeq
<1> QED BY <1>1, Zenon DEF BootMem0, Memories, Dirs
LEMMA Remembers ==
  ASSUME NEW mem \in Memories, NEW py \in 2 .. 3, NEW rerun \in BOOLEAN, NEW jobs \in Seq(Jobs)
  PROVE  [mem EXCEPT !.py = py, !.rerun = rerun, !.jobs = jobs] \in Memories
BY DEF Memories
LEMMA Forgets ==
  ASSUME NEW mem \in Memories, NEW rerun \in BOOLEAN, NEW tries \in Nat
  PROVE  [mem EXCEPT !.rerun = rerun, !.tries = tries] \in Memories
BY DEF Memories
LEMMA Counts ==
  ASSUME NEW mem \in Memories, NEW tries \in Nat
  PROVE  [mem EXCEPT !.tries = tries] \in Memories
BY DEF Memories
LEMMA Works ==
  ASSUME NEW mem \in Memories, NEW jobs \in Seq(Jobs), NEW tries \in Nat
  PROVE  [mem EXCEPT !.jobs = jobs, !.tries = tries] \in Memories
BY DEF Memories
LEMMA Commands ==
  ASSUME NEW mem \in Memories, NEW cmd \in {"none", "systemd", "initd", "direct"}
  PROVE  [mem EXCEPT !.cmd = cmd] \in Memories
BY DEF Memories
LEMMA Processes ==
  ASSUME NEW py \in 2 .. 3, NEW rerun \in BOOLEAN, Process(py, rerun)
  PROVE  bmem' \in Memories /\ bpc' = IF py = 3 THEN "job" ELSE "setup"
<1>1. <<"manager", "python">> \in Seq(Jobs) /\ << >> \in Seq(Jobs)
  BY EmptySeq DEF Jobs
<1>2. (IF py = 3 THEN <<"manager", "python">> ELSE << >>) \in Seq(Jobs)
  BY <1>1
<1>3. bpc' = IF py = 3 THEN "job" ELSE "setup"
  BY DEF Process, Go
<1> QED BY <1>2, <1>3, StartMemory, Remembers, Zenon DEF Process

(* The disk, and what a transfer or an extraction makes of it. *)
Contents == {"none", "part", "full"}
Disks ==
  [tarball : [Dirs -> Contents], tree : [Dirs -> Contents], saved : SUBSET {"context", "config"},
   libs : SUBSET Libs, lock : BOOLEAN, py2 : BOOLEAN, defaults : {"none", "plain", "export"},
   service : {"none", "systemd", "initd"}]
LEMMA TarballKept ==
  ASSUME NEW disk \in Disks, NEW d \in Dirs, NEW got \in Contents
  PROVE  [disk EXCEPT !.tarball[d] = got] \in Disks
BY DEF Disks
LEMMA TreeKept ==
  ASSUME NEW disk \in Disks, NEW d \in Dirs, NEW left \in Contents
  PROVE  [disk EXCEPT !.tree[d] = left] \in Disks
BY DEF Disks

Typed ==
  /\ bpc \in BootSteps \cup {"off", "compare", "wipe", "extract", "executor", "register",
                             "started", "failed"}
  /\ bmem \in Memories /\ bdisk \in Disks /\ bplat \in BootPlatforms
  /\ btold \in BOOLEAN /\ bcut \in BOOLEAN /\ bboots \in 0 .. MaxBoots
LEMMA TypesAre == BootTypeOK <=> Typed
BY DEF BootTypeOK, Typed, Memories, Disks, Jobs, Contents

-----------------------------------------------------------------------------
LEMMA BootTypes == BootInv /\ [BootNext]_bootVars => BootTypeOK'
<1> SUFFICES ASSUME BootInv, [BootNext]_bootVars PROVE Typed'
  BY DEF BootTypeOK, Typed, Memories, Disks, Jobs, Contents
<1>a. Typed /\ JobsSuffice
  BY TypesAre DEF BootInv
<1> USE <1>a, TriesAssumption, BootsAssumption DEF Typed, Is, Go, BootSteps
<1>0. bmem.tries \in Nat /\ bmem.dir \in Dirs /\ 0 \in Nat
  BY DEF Memories
<1>00. Keep => bmem' \in Memories
  BY Counts, <1>0, Zenon DEF Keep
<1>000. BootFailed => bmem' \in Memories
  BY Forgets, <1>0, Zenon DEF BootFailed
<1>1. CASE BootRun
  <2>1. (IF bdisk.py2 THEN 2 ELSE 3) \in 2 .. 3
    BY DEF Disks
  <2>2. bmem' \in Memories /\ bpc' \in {"job", "setup"}
    BY <1>1, <2>1, Processes DEF BootRun
  <2>3. bboots' \in 0 .. MaxBoots
    BY <1>1 DEF BootRun
  <2> QED BY <1>1, <2>2, <2>3 DEF BootRun
<1>2. CASE BootRerun
  <2>1. bmem' \in Memories /\ bpc' \in {"job", "setup", "authn"}
    BY <1>2, <1>00, Processes DEF BootRerun
  <2> QED BY <1>2, <2>1 DEF BootRerun
<1>3. CASE BootSetup
  BY <1>3 DEF BootSetup, AfterClient, Memories, Dirs
<1>4. CASE BootCompare
  BY <1>4 DEF BootCompare, AfterTarball
<1>5. CASE BootWipe
  <2>1. bdisk' \in Disks
    BY <1>5, <1>0 DEF BootWipe, Disks, Contents, Dirs
  <2> QED BY <1>5, <2>1 DEF BootWipe
<1>6. CASE BootDownload
  <2>1. PICK got \in {"part", "full"} : bdisk' = [bdisk EXCEPT !.tarball[bmem.dir] = got]
    BY <1>6 DEF BootDownload
  <2>2. bdisk' \in Disks
    BY <2>1, <1>0, TarballKept DEF Contents
  <2> QED BY <1>6, <1>00, <2>2 DEF BootDownload
<1>7. CASE BootExtract
  BY <1>7 DEF BootExtract, AfterTarball, Disks
<1>8. CASE BootExtractRaises
  <2>1. PICK left \in {"none", "part"} : bdisk' = [bdisk EXCEPT !.tree[bmem.dir] = left]
    BY <1>8 DEF BootExtractRaises
  <2>2. bdisk' \in Disks
    BY <2>1, <1>0, TreeKept DEF Contents
  <2>3. bcut' \in BOOLEAN
    BY <1>8 DEF BootExtractRaises, BootRaise
  <2> QED BY <1>8, <1>00, <2>2, <2>3 DEF BootExtractRaises, BootRaise
<1>9. CASE BootPersist
  <2>1. bdisk' \in Disks
    BY <1>9 DEF BootPersist, Disks
  <2>2. (IF bplat.role = "orchestrator" THEN ParamikoJobs(bdisk.libs) ELSE << >>) \in Seq(Jobs)
    BY JobsCover, EmptySeq DEF Disks
  <2>3. bmem' \in Memories
    BY <1>9, <2>2 DEF BootPersist, Memories
  <2>4. bpc' \in {"config", "job", "lock"}
    BY <1>9 DEF BootPersist
  <2> QED BY <1>9, <2>1, <2>3, <2>4 DEF BootPersist
<1>10. CASE BootJob
  <2>1. bmem.jobs \in Seq(Jobs) /\ bmem.jobs # << >>
    BY <1>10 DEF BootJob, JobsSuffice, Memories
  <2>2. Tail(bmem.jobs) \in Seq(Jobs)
    BY <2>1, HeadTailProperties
  <2>3. bmem' \in Memories
    BY <1>10, <1>0, <2>2, Works, Zenon DEF BootJob, JobDone
  <2>4. InstalledBy(Head(bmem.jobs)) \subseteq Libs
    BY DEF InstalledBy, Libs
  <2>5. bdisk' \in Disks
    BY <1>10, <2>4 DEF BootJob, JobDone, Disks
  <2> QED BY <1>10, <2>3, <2>5 DEF BootJob, JobDone
<1>11. CASE BootNoManager
  BY <1>11 DEF BootNoManager, BootRaise, Keep, Memories
<1>12. CASE BootPipNeedsCert
  BY <1>12 DEF BootPipNeedsCert, Keep, Memories
<1>13. CASE BootGetCert
  BY <1>13 DEF BootGetCert, Memories
<1>14. CASE BootLock
  BY <1>14 DEF BootLock, AfterClient, Memories, Disks, Dirs
<1>15. CASE BootExecutorConfig
  BY <1>15 DEF BootExecutorConfig, FallBack, Memories, Disks
<1>16. CASE BootRegister
  <2>1. bmem' \in Memories
    BY <1>16, Commands, Zenon DEF BootRegister, FallBack
  <2>2. bdisk' \in Disks /\ bpc' = "start" /\ UNCHANGED <<bplat, btold, bcut, bboots>>
    BY <1>16 DEF BootRegister, FallBack, Disks
  <2> QED BY <2>1, <2>2
<1>17. CASE BootStartExecutor
  <2>1. bmem.cmd \in {"none", "systemd", "initd", "direct"}
    BY DEF Memories
  <2>2. bmem' \in Memories
    BY <1>17, <2>1, StartMemory, Commands, Zenon DEF BootStartExecutor
  <2> QED BY <1>17, <2>2 DEF BootStartExecutor
<1>18. CASE BootAuthenticate
  BY <1>18, <1>00, <1>000 DEF BootAuthenticate, BootFailed
<1>19. CASE BootPut
  <2>1. bpc' \in {"authn", "failed"}
    BY <1>19 DEF BootPut, BootFailed
  <2> QED BY <1>19, <1>000, <2>1 DEF BootPut
<1>20. CASE BootTryFails
  <2>1. bmem' \in Memories
    <3>1. bmem.tries + 1 \in Nat
      BY <1>0
    <3>2. ASSUME bmem' = [bmem EXCEPT !.tries = bmem.tries + 1] PROVE bmem' \in Memories
      BY <3>1, <3>2, Counts, Zenon
    <3> QED BY <1>20, <1>00, <1>000, <3>2 DEF BootTryFails
  <2>2. bdisk' \in Disks
    <3>1. ASSUME NEW left \in LeftOfDownload, bdisk' = [bdisk EXCEPT !.tarball[bmem.dir] = left]
          PROVE  bdisk' \in Disks
      <4>1. left \in Contents
        BY <1>0 DEF LeftOfDownload, Disks, Contents
      <4> QED BY <1>0, <3>1, <4>1, TarballKept, Zenon
    <3> QED BY <1>20, <3>1 DEF BootTryFails
  <2>3. btold' \in BOOLEAN /\ bcut' \in BOOLEAN /\ bplat' = bplat /\ bboots' = bboots
    BY <1>20 DEF BootTryFails
  <2>4. bpc' \in BootSteps \cup {"failed"}
    BY <1>20 DEF BootTryFails, BootFailed
  <2> QED BY <2>1, <2>2, <2>3, <2>4
<1>21. CASE BootCrash
  <2>1. bmem' \in Memories
    BY <1>21, StartMemory DEF BootCrash
  <2>2. bdisk' \in Disks
    <3>1. ASSUME NEW left \in {"none", "part"}, bdisk' = [bdisk EXCEPT !.tree[bmem.dir] = left]
          PROVE  bdisk' \in Disks
      BY <1>0, <3>1, TreeKept DEF Contents
    <3> QED BY <1>21, <3>1 DEF BootCrash
  <2>3. bcut' \in BOOLEAN
    BY <1>21 DEF BootCrash
  <2> QED BY <1>21, <2>1, <2>2, <2>3 DEF BootCrash
<1>22. CASE UNCHANGED bootVars
  BY <1>22 DEF bootVars
<1> QED BY <1>1, <1>2, <1>3, <1>4, <1>5, <1>6, <1>7, <1>8, <1>9, <1>10, <1>11, <1>12, <1>13, <1>14, <1>15, <1>16, <1>17, <1>18, <1>19, <1>20, <1>21, <1>22
       DEF BootNext, BootStep

-----------------------------------------------------------------------------
(* Jobs are left as long as the last one is not done. *)
LEMMA MoreJobs ==
  ASSUME NEW jobs \in Seq(Jobs), jobs # << >>, Len(jobs) > 1
  PROVE  Tail(jobs) # << >>
<1>1. Tail(jobs) \in Seq(Jobs) /\ Len(Tail(jobs)) = Len(jobs) - 1
  BY HeadTailProperties
<1>2. Len(Tail(jobs)) # 0
  BY <1>1, LenProperties
<1>3. \A t \in Seq(Jobs) : Len(t) # 0 => t # << >>
  BY EmptySeq
<1> QED BY <1>1, <1>2, <1>3

(* What the rest of a list of jobs still installs, once the first is done. *)
LEMMA JobLeaves ==
  ASSUME NEW libs, NEW jobs \in Seq(Jobs), jobs # << >>, Covered(libs, jobs)
  PROVE  /\ Len(jobs) > 1 => Tail(jobs) # << >>
         /\ Covered(libs \cup InstalledBy(Head(jobs)), Tail(jobs))
         /\ ~(Len(jobs) > 1) => Libs \subseteq libs \cup InstalledBy(Head(jobs))
<1>1. /\ Tail(jobs) \in Seq(Jobs) /\ Len(jobs) \in Nat /\ Len(jobs) # 0 /\ Len(Tail(jobs)) = Len(jobs) - 1
      /\ Head(jobs) = jobs[1] /\ \A i \in 1 .. Len(Tail(jobs)) : Tail(jobs)[i] = jobs[i + 1]
  BY HeadTailProperties, LenProperties, EmptySeq
<1>2. ASSUME NEW l \in Libs \ (libs \cup InstalledBy(Head(jobs)))
      PROVE  Len(jobs) > 1 /\ \E i \in 1 .. Len(Tail(jobs)) : l \in InstalledBy(Tail(jobs)[i])
  <2>1. PICK i \in 1 .. Len(jobs) : l \in InstalledBy(jobs[i])
    BY <1>2 DEF Covered
  <2>2. i # 1
    BY <1>1, <1>2, <2>1
  <2>3. i - 1 \in 1 .. Len(Tail(jobs)) /\ i = (i - 1) + 1
    BY <1>1, <2>1, <2>2
  <2>4. Tail(jobs)[i - 1] = jobs[i]
    BY <1>1, <2>3
  <2> QED BY <1>1, <2>1, <2>2, <2>3, <2>4
<1>3. Len(jobs) > 1 => Tail(jobs) # << >>
  BY MoreJobs
<1> QED BY <1>2, <1>3 DEF Covered

(* A process of python 3 only installs python 2. *)
LEMMA ProcessStarts ==
  ASSUME NEW py \in 2 .. 3, NEW rerun \in BOOLEAN, Process(py, rerun)
  PROVE  \/ bpc' = "setup"
         \/ bpc' = "job" /\ bmem'.py = 3 /\ bmem'.jobs = <<"manager", "python">> /\ bmem'.jobs # << >>
<1>1. CASE py = 3
  <2>1. bpc' = "job"
    BY <1>1 DEF Process, Go
  <2>2. bmem'.py = 3 /\ bmem'.jobs = <<"manager", "python">>
    BY <1>1 DEF Process, BootMem0
  <2> QED BY <2>1, <2>2
<1>2. CASE py # 3
  BY <1>2 DEF Process, Go
<1> QED BY <1>1, <1>2

-----------------------------------------------------------------------------
(* The checksum that hides a torn tree is the one exception of LockMeansInstalled. *)
LEMMA StepCutKnown == BootInv /\ [BootNext]_bootVars => CutKnown'
<1> SUFFICES ASSUME BootInv, [BootNext]_bootVars PROVE CutKnown'
  OBVIOUS
<1>a. Typed
  BY TypesAre DEF BootInv
<1> USE <1>a DEF BootInv, CutKnown, Typed, Is, Go, Cut, Keep, BootSteps
<1>1. CASE BootRun
  BY <1>1 DEF BootRun, Process
<1>2. CASE BootRerun
  BY <1>2 DEF BootRerun, Process, Keep
<1>3. CASE BootSetup
  BY <1>3 DEF BootSetup, AfterClient
<1>4. CASE BootCompare
  BY <1>4 DEF BootCompare, AfterTarball
<1>5. CASE BootWipe
  BY <1>5 DEF BootWipe
<1>6. CASE BootDownload
  BY <1>6 DEF BootDownload, Keep
<1>7. CASE BootExtract
  BY <1>7 DEF BootExtract, AfterTarball, Disks, Dirs
<1>8. CASE BootExtractRaises
  BY <1>8 DEF BootExtractRaises, BootRaise, Keep
<1>9. CASE BootPersist
  BY <1>9 DEF BootPersist
<1>10. CASE BootJob
  BY <1>10 DEF BootJob, JobDone
<1>11. CASE BootNoManager
  BY <1>11 DEF BootNoManager, BootRaise, Keep
<1>12. CASE BootPipNeedsCert
  BY <1>12 DEF BootPipNeedsCert, Keep
<1>13. CASE BootGetCert
  BY <1>13 DEF BootGetCert
<1>14. CASE BootLock
  BY <1>14 DEF BootLock, AfterClient
<1>15. CASE BootExecutorConfig
  BY <1>15 DEF BootExecutorConfig, FallBack, Disks
<1>16. CASE BootRegister
  BY <1>16 DEF BootRegister, FallBack, Disks
<1>17. CASE BootStartExecutor
  BY <1>17 DEF BootStartExecutor
<1>18. CASE BootAuthenticate
  BY <1>18 DEF BootAuthenticate, BootFailed, Keep
<1>19. CASE BootPut
  BY <1>19 DEF BootPut, BootFailed
<1>20. CASE BootTryFails
  <2>1. bmem'.dir = bmem.dir /\ UNCHANGED bplat
    BY <1>20 DEF BootTryFails, BootFailed, Keep, Memories
  <2>2. CASE bmem.tries + 1 < TriesOf(bpc)
    <3>1. bpc' = bpc /\ bcut' = bcut
      BY <1>20, <2>2 DEF BootTryFails
    <3>2. bpc = "download" \/ bdisk' = bdisk
      BY <1>20 DEF BootTryFails
    <3>3. bpc = "download" /\ bmem.dir # "client"
            => bdisk'.tarball["client"] = bdisk.tarball["client"] /\ bdisk'.tree = bdisk.tree
      BY <1>20 DEF BootTryFails, Disks, Dirs
    <3> QED BY <2>1, <3>1, <3>2, <3>3
  <2>3. CASE ~(bmem.tries + 1 < TriesOf(bpc))
    <3>1. bcut' = (bcut \/ Cut')
      BY <1>20, <2>3 DEF BootTryFails
    <3> QED BY <3>1
  <2> QED BY <2>2, <2>3
<1>21. CASE BootCrash
  BY <1>21 DEF BootCrash
<1>22. CASE UNCHANGED bootVars
  BY <1>22 DEF bootVars
<1> QED BY <1>1, <1>2, <1>3, <1>4, <1>5, <1>6, <1>7, <1>8, <1>9, <1>10, <1>11, <1>12, <1>13, <1>14, <1>15, <1>16, <1>17, <1>18, <1>19, <1>20, <1>21, <1>22
       DEF BootNext, BootStep

(* Once the lock is there no step touches the client. *)
LEMMA StepLockedOut == BootInv /\ [BootNext]_bootVars => LockedOut'
<1> SUFFICES ASSUME BootInv, [BootNext]_bootVars PROVE LockedOut'
  OBVIOUS
<1>a. Typed
  BY TypesAre DEF BootInv
<1> USE <1>a DEF BootInv, LockedOut, Typed, Is, Go, AtClient, Installing
<1>1. CASE BootRun
  BY <1>1 DEF BootRun, Process
<1>2. CASE BootRerun
  <2>1. \/ bpc' \in {"setup", "authn"}
        \/ bpc' = "job" /\ bmem'.py = 3 /\ bmem'.jobs # << >>
    BY <1>2, ProcessStarts DEF BootRerun
  <2> QED BY <1>2, <2>1 DEF BootRerun, BootSteps
<1>3. CASE BootSetup
  BY <1>3 DEF BootSetup, AfterClient, Memories
<1>4. CASE BootCompare
  BY <1>4 DEF BootCompare, AfterTarball
<1>5. CASE BootWipe
  BY <1>5 DEF BootWipe
<1>6. CASE BootDownload
  BY <1>6 DEF BootDownload, Keep
<1>7. CASE BootExtract
  BY <1>7 DEF BootExtract, AfterTarball
<1>8. CASE BootExtractRaises
  BY <1>8 DEF BootExtractRaises, BootRaise, Keep
<1>9. CASE BootPersist
  BY <1>9 DEF BootPersist
<1>10. CASE BootJob
  BY <1>10 DEF BootJob, JobDone, Memories
<1>11. CASE BootNoManager
  BY <1>11 DEF BootNoManager, BootRaise, Keep
<1>12. CASE BootPipNeedsCert
  BY <1>12 DEF BootPipNeedsCert, Keep
<1>13. CASE BootGetCert
  BY <1>13 DEF BootGetCert
<1>14. CASE BootLock
  BY <1>14 DEF BootLock, AfterClient
<1>15. CASE BootExecutorConfig
  BY <1>15 DEF BootExecutorConfig, FallBack
<1>16. CASE BootRegister
  BY <1>16 DEF BootRegister, FallBack
<1>17. CASE BootStartExecutor
  BY <1>17 DEF BootStartExecutor
<1>18. CASE BootAuthenticate
  BY <1>18 DEF BootAuthenticate, BootFailed, Keep
<1>19. CASE BootPut
  BY <1>19 DEF BootPut, BootFailed
<1>20. CASE BootTryFails
  BY <1>20 DEF BootTryFails, BootFailed, Keep, Memories, Disks
<1>21. CASE BootCrash
  BY <1>21 DEF BootCrash
<1>22. CASE UNCHANGED bootVars
  BY <1>22 DEF bootVars
<1> QED BY <1>1, <1>2, <1>3, <1>4, <1>5, <1>6, <1>7, <1>8, <1>9, <1>10, <1>11, <1>12, <1>13, <1>14, <1>15, <1>16, <1>17, <1>18, <1>19, <1>20, <1>21, <1>22
       DEF BootNext, BootStep

(* The steps that lead to the lock leave behind what it stands for. *)
LEMMA StepBeforeLock == BootInv /\ [BootNext]_bootVars => BeforeLock'
<1> SUFFICES ASSUME BootInv, [BootNext]_bootVars PROVE BeforeLock'
  OBVIOUS
<1>a. Typed
  BY TypesAre DEF BootInv
<1> USE <1>a DEF BootInv, BeforeLock, Typed, Is, Go, AtClient, Installing, LockedOut
<1>1. CASE BootRun
  BY <1>1 DEF BootRun, Process
<1>2. CASE BootRerun
  <2>1. \/ bpc' \in {"setup", "authn"}
        \/ bpc' = "job" /\ bmem'.py = 3 /\ bmem'.jobs # << >>
    BY <1>2, ProcessStarts DEF BootRerun
  <2> QED BY <1>2, <2>1 DEF BootRerun, BootSteps
<1>3. CASE BootSetup
  BY <1>3 DEF BootSetup, AfterClient
<1>4. CASE BootCompare
  BY <1>4 DEF BootCompare, AfterTarball
<1>5. CASE BootWipe
  BY <1>5 DEF BootWipe
<1>6. CASE BootDownload
  BY <1>6 DEF BootDownload, Keep
<1>7. CASE BootExtract
  BY <1>7 DEF BootExtract, AfterTarball
<1>8. CASE BootExtractRaises
  BY <1>8 DEF BootExtractRaises, BootRaise, Keep
<1>9. CASE BootPersist
  <2>1. /\ bdisk.libs \in SUBSET Libs
        /\ bpc = "config" => bmem'.jobs = IF bplat.role = "orchestrator" THEN ParamikoJobs(bdisk.libs) ELSE << >>
        /\ bmem'.py = bmem.py /\ bmem'.dir = bmem.dir /\ bplat' = bplat
        /\ bdisk'.libs = bdisk.libs /\ bdisk'.lock = bdisk.lock
        /\ bdisk'.tarball = bdisk.tarball /\ bdisk'.tree = bdisk.tree
        /\ bdisk'.saved = bdisk.saved \cup {bpc}
    BY <1>9 DEF BootPersist, Memories, Disks
  <2>2. \/ bpc = "context" /\ bpc' = "config"
        \/ bpc = "config" /\ bpc' = IF bplat.role = "orchestrator" /\ ParamikoJobs(bdisk.libs) # << >>
                                   THEN "job" ELSE "lock"
    BY <1>9 DEF BootPersist
  <2>3. bdisk.tree["client"] # "none"
    BY <1>9 DEF BootPersist
  <2>4. /\ ParamikoJobs(bdisk.libs) # << >> => Covered(bdisk.libs, ParamikoJobs(bdisk.libs))
        /\ ParamikoJobs(bdisk.libs) = << >> => bdisk.libs = Libs
    BY <2>1, JobsCover
  <2> QED BY <2>1, <2>2, <2>3, <2>4 DEF Installing
<1>10. CASE BootJob
  <2>1. bmem.jobs \in Seq(Jobs) /\ bmem.jobs # << >>
    BY <1>10 DEF BootJob, JobsSuffice, Memories
  <2>2. /\ bdisk'.libs = bdisk.libs \cup InstalledBy(Head(bmem.jobs)) /\ bmem'.jobs = Tail(bmem.jobs)
        /\ bmem'.py = bmem.py /\ bmem'.dir = bmem.dir /\ bplat' = bplat
        /\ bdisk'.saved = bdisk.saved /\ bdisk'.lock = bdisk.lock /\ bcut' = bcut
        /\ bdisk'.tarball = bdisk.tarball /\ bdisk'.tree = bdisk.tree
    BY <1>10 DEF BootJob, JobDone, Memories, Disks
  <2>3. /\ bpc \in {"job", "pipcert"}
        /\ bpc' = IF Len(bmem.jobs) > 1 THEN "job" ELSE IF bmem.py = 3 THEN "rerun" ELSE "lock"
    BY <1>10 DEF BootJob, JobDone
  <2>4. bmem.py \in 2 .. 3 /\ bdisk.libs \in SUBSET Libs
    BY DEF Memories, Disks
  <2>5. InstalledBy(Head(bmem.jobs)) \subseteq Libs
    BY DEF InstalledBy, Libs
  <2>6. /\ Len(bmem.jobs) > 1 => Tail(bmem.jobs) # << >>
        /\ Installing => /\ Covered(bdisk'.libs, bmem'.jobs)
                         /\ ~(Len(bmem.jobs) > 1) => bdisk'.libs = Libs
    <3>1. Covered(bdisk.libs, bmem.jobs) \/ ~Installing
      BY DEF JobsSuffice
    <3>2. Len(bmem.jobs) > 1 => Tail(bmem.jobs) # << >>
      BY <2>1, MoreJobs
    <3> QED BY <2>1, <2>2, <2>4, <2>5, <3>1, <3>2, JobLeaves
  <2> QED BY <2>2, <2>3, <2>4, <2>5, <2>6 DEF Installing
<1>11. CASE BootNoManager
  BY <1>11 DEF BootNoManager, BootRaise, Keep
<1>12. CASE BootPipNeedsCert
  BY <1>12 DEF BootPipNeedsCert, Keep
<1>13. CASE BootGetCert
  BY <1>13 DEF BootGetCert
<1>14. CASE BootLock
  BY <1>14 DEF BootLock, AfterClient
<1>15. CASE BootExecutorConfig
  BY <1>15 DEF BootExecutorConfig, FallBack
<1>16. CASE BootRegister
  BY <1>16 DEF BootRegister, FallBack
<1>17. CASE BootStartExecutor
  BY <1>17 DEF BootStartExecutor
<1>18. CASE BootAuthenticate
  BY <1>18 DEF BootAuthenticate, BootFailed, Keep
<1>19. CASE BootPut
  BY <1>19 DEF BootPut, BootFailed
<1>20. CASE BootTryFails
  BY <1>20 DEF BootTryFails, BootFailed, Keep, Memories
<1>21. CASE BootCrash
  BY <1>21 DEF BootCrash
<1>22. CASE UNCHANGED bootVars
  BY <1>22 DEF bootVars
<1> QED BY <1>1, <1>2, <1>3, <1>4, <1>5, <1>6, <1>7, <1>8, <1>9, <1>10, <1>11, <1>12, <1>13, <1>14, <1>15, <1>16, <1>17, <1>18, <1>19, <1>20, <1>21, <1>22
       DEF BootNext, BootStep

(* The commands that are left are enough, whichever of them have failed so far. *)
LEMMA StepJobsSuffice == BootInv /\ [BootNext]_bootVars => JobsSuffice'
<1> SUFFICES ASSUME BootInv, [BootNext]_bootVars PROVE JobsSuffice'
  OBVIOUS
<1>a. Typed
  BY TypesAre DEF BootInv
<1> USE <1>a DEF BootInv, JobsSuffice, Typed, Is, Go, Installing, BeforeLock
<1>1. CASE BootRun
  BY <1>1 DEF BootRun, Process
<1>2. CASE BootRerun
  <2>1. \/ bpc' \in {"setup", "authn"}
        \/ bpc' = "job" /\ bmem'.py = 3 /\ bmem'.jobs # << >>
    BY <1>2, ProcessStarts DEF BootRerun
  <2> QED BY <1>2, <2>1 DEF BootRerun, BootSteps
<1>3. CASE BootSetup
  BY <1>3 DEF BootSetup, AfterClient
<1>4. CASE BootCompare
  BY <1>4 DEF BootCompare, AfterTarball
<1>5. CASE BootWipe
  BY <1>5 DEF BootWipe
<1>6. CASE BootDownload
  BY <1>6 DEF BootDownload, Keep
<1>7. CASE BootExtract
  BY <1>7 DEF BootExtract, AfterTarball
<1>8. CASE BootExtractRaises
  BY <1>8 DEF BootExtractRaises, BootRaise, Keep
<1>9. CASE BootPersist
  <2>1. /\ bdisk.libs \in SUBSET Libs
        /\ bpc = "config" => bmem'.jobs = IF bplat.role = "orchestrator" THEN ParamikoJobs(bdisk.libs) ELSE << >>
        /\ bmem'.py = bmem.py /\ bmem'.dir = bmem.dir /\ bplat' = bplat
        /\ bdisk'.libs = bdisk.libs /\ bdisk'.lock = bdisk.lock
        /\ bdisk'.tarball = bdisk.tarball /\ bdisk'.tree = bdisk.tree
        /\ bdisk'.saved = bdisk.saved \cup {bpc}
    BY <1>9 DEF BootPersist, Memories, Disks
  <2>2. \/ bpc = "context" /\ bpc' = "config"
        \/ bpc = "config" /\ bpc' = IF bplat.role = "orchestrator" /\ ParamikoJobs(bdisk.libs) # << >>
                                   THEN "job" ELSE "lock"
    BY <1>9 DEF BootPersist
  <2>3. bdisk.tree["client"] # "none"
    BY <1>9 DEF BootPersist
  <2>4. /\ ParamikoJobs(bdisk.libs) # << >> => Covered(bdisk.libs, ParamikoJobs(bdisk.libs))
        /\ ParamikoJobs(bdisk.libs) = << >> => bdisk.libs = Libs
    BY <2>1, JobsCover
  <2> QED BY <2>1, <2>2, <2>3, <2>4 DEF Installing
<1>10. CASE BootJob
  <2>1. bmem.jobs \in Seq(Jobs) /\ bmem.jobs # << >>
    BY <1>10 DEF BootJob, JobsSuffice, Memories
  <2>2. /\ bdisk'.libs = bdisk.libs \cup InstalledBy(Head(bmem.jobs)) /\ bmem'.jobs = Tail(bmem.jobs)
        /\ bmem'.py = bmem.py /\ bmem'.dir = bmem.dir /\ bplat' = bplat
        /\ bdisk'.saved = bdisk.saved /\ bdisk'.lock = bdisk.lock /\ bcut' = bcut
        /\ bdisk'.tarball = bdisk.tarball /\ bdisk'.tree = bdisk.tree
    BY <1>10 DEF BootJob, JobDone, Memories, Disks
  <2>3. /\ bpc \in {"job", "pipcert"}
        /\ bpc' = IF Len(bmem.jobs) > 1 THEN "job" ELSE IF bmem.py = 3 THEN "rerun" ELSE "lock"
    BY <1>10 DEF BootJob, JobDone
  <2>4. bmem.py \in 2 .. 3 /\ bdisk.libs \in SUBSET Libs
    BY DEF Memories, Disks
  <2>5. InstalledBy(Head(bmem.jobs)) \subseteq Libs
    BY DEF InstalledBy, Libs
  <2>6. /\ Len(bmem.jobs) > 1 => Tail(bmem.jobs) # << >>
        /\ Installing => /\ Covered(bdisk'.libs, bmem'.jobs)
                         /\ ~(Len(bmem.jobs) > 1) => bdisk'.libs = Libs
    <3>1. Covered(bdisk.libs, bmem.jobs) \/ ~Installing
      BY DEF JobsSuffice
    <3>2. Len(bmem.jobs) > 1 => Tail(bmem.jobs) # << >>
      BY <2>1, MoreJobs
    <3> QED BY <2>1, <2>2, <2>4, <2>5, <3>1, <3>2, JobLeaves
  <2> QED BY <2>2, <2>3, <2>4, <2>5, <2>6 DEF Installing
<1>11. CASE BootNoManager
  BY <1>11 DEF BootNoManager, BootRaise, Keep
<1>12. CASE BootPipNeedsCert
  BY <1>12 DEF BootPipNeedsCert, Keep
<1>13. CASE BootGetCert
  BY <1>13 DEF BootGetCert
<1>14. CASE BootLock
  BY <1>14 DEF BootLock, AfterClient
<1>15. CASE BootExecutorConfig
  BY <1>15 DEF BootExecutorConfig, FallBack
<1>16. CASE BootRegister
  BY <1>16 DEF BootRegister, FallBack
<1>17. CASE BootStartExecutor
  BY <1>17 DEF BootStartExecutor
<1>18. CASE BootAuthenticate
  BY <1>18 DEF BootAuthenticate, BootFailed, Keep
<1>19. CASE BootPut
  BY <1>19 DEF BootPut, BootFailed
<1>20. CASE BootTryFails
  BY <1>20 DEF BootTryFails, BootFailed, Keep, Memories
<1>21. CASE BootCrash
  BY <1>21 DEF BootCrash
<1>22. CASE UNCHANGED bootVars
  BY <1>22 DEF bootVars
<1> QED BY <1>1, <1>2, <1>3, <1>4, <1>5, <1>6, <1>7, <1>8, <1>9, <1>10, <1>11, <1>12, <1>13, <1>14, <1>15, <1>16, <1>17, <1>18, <1>19, <1>20, <1>21, <1>22
       DEF BootNext, BootStep

(* Hence the lock, and what it says stays true under the later runs of the script. *)
LEMMA StepLockMeansInstalled == BootInv /\ [BootNext]_bootVars => LockMeansInstalled'
<1> SUFFICES ASSUME BootInv, [BootNext]_bootVars PROVE LockMeansInstalled'
  OBVIOUS
<1>a. Typed
  BY TypesAre DEF BootInv
<1> USE <1>a DEF BootInv, LockMeansInstalled, Typed, Is, Go, LockedOut, BeforeLock, CutKnown, AtClient, Cut
<1>1. CASE BootRun
  BY <1>1 DEF BootRun, Process
<1>2. CASE BootRerun
  BY <1>2 DEF BootRerun, Process, Keep
<1>3. CASE BootSetup
  BY <1>3 DEF BootSetup, AfterClient
<1>4. CASE BootCompare
  BY <1>4 DEF BootCompare, AfterTarball
<1>5. CASE BootWipe
  BY <1>5 DEF BootWipe
<1>6. CASE BootDownload
  BY <1>6 DEF BootDownload, Keep
<1>7. CASE BootExtract
  BY <1>7 DEF BootExtract, AfterTarball
<1>8. CASE BootExtractRaises
  BY <1>8 DEF BootExtractRaises, BootRaise, Keep
<1>9. CASE BootPersist
  BY <1>9 DEF BootPersist
<1>10. CASE BootJob
  <2>1. bmem.jobs \in Seq(Jobs) /\ bmem.jobs # << >>
    BY <1>10 DEF BootJob, JobsSuffice, Memories
  <2>2. /\ bdisk'.libs = bdisk.libs \cup InstalledBy(Head(bmem.jobs)) /\ bmem'.jobs = Tail(bmem.jobs)
        /\ bmem'.py = bmem.py /\ bmem'.dir = bmem.dir /\ bplat' = bplat
        /\ bdisk'.saved = bdisk.saved /\ bdisk'.lock = bdisk.lock /\ bcut' = bcut
        /\ bdisk'.tarball = bdisk.tarball /\ bdisk'.tree = bdisk.tree
    BY <1>10 DEF BootJob, JobDone, Memories, Disks
  <2>3. /\ bpc \in {"job", "pipcert"}
        /\ bpc' = IF Len(bmem.jobs) > 1 THEN "job" ELSE IF bmem.py = 3 THEN "rerun" ELSE "lock"
    BY <1>10 DEF BootJob, JobDone
  <2>4. bmem.py \in 2 .. 3 /\ bdisk.libs \in SUBSET Libs
    BY DEF Memories, Disks
  <2>5. InstalledBy(Head(bmem.jobs)) \subseteq Libs
    BY DEF InstalledBy, Libs
  <2>6. /\ Len(bmem.jobs) > 1 => Tail(bmem.jobs) # << >>
        /\ Installing => /\ Covered(bdisk'.libs, bmem'.jobs)
                         /\ ~(Len(bmem.jobs) > 1) => bdisk'.libs = Libs
    <3>1. Covered(bdisk.libs, bmem.jobs) \/ ~Installing
      BY DEF JobsSuffice
    <3>2. Len(bmem.jobs) > 1 => Tail(bmem.jobs) # << >>
      BY <2>1, MoreJobs
    <3> QED BY <2>1, <2>2, <2>4, <2>5, <3>1, <3>2, JobLeaves
  <2> QED BY <2>2, <2>3, <2>4, <2>5, <2>6 DEF Installing
<1>11. CASE BootNoManager
  BY <1>11 DEF BootNoManager, BootRaise, Keep
<1>12. CASE BootPipNeedsCert
  BY <1>12 DEF BootPipNeedsCert, Keep
<1>13. CASE BootGetCert
  BY <1>13 DEF BootGetCert
<1>14. CASE BootLock
  BY <1>14 DEF BootLock, AfterClient, Disks
<1>15. CASE BootExecutorConfig
  BY <1>15 DEF BootExecutorConfig, FallBack, Disks
<1>16. CASE BootRegister
  BY <1>16 DEF BootRegister, FallBack, Disks
<1>17. CASE BootStartExecutor
  BY <1>17 DEF BootStartExecutor
<1>18. CASE BootAuthenticate
  BY <1>18 DEF BootAuthenticate, BootFailed, Keep
<1>19. CASE BootPut
  BY <1>19 DEF BootPut, BootFailed
<1>20. CASE BootTryFails
  BY <1>20 DEF BootTryFails, BootFailed, Keep, Disks
<1>21. CASE BootCrash
  BY <1>21 DEF BootCrash, Disks, Dirs
<1>22. CASE UNCHANGED bootVars
  BY <1>22 DEF bootVars
<1> QED BY <1>1, <1>2, <1>3, <1>4, <1>5, <1>6, <1>7, <1>8, <1>9, <1>10, <1>11, <1>12, <1>13, <1>14, <1>15, <1>16, <1>17, <1>18, <1>19, <1>20, <1>21, <1>22
       DEF BootNext, BootStep

(* The defaults are written for the init system that is then registered. *)
LEMMA StepConfigFits == BootInv /\ [BootNext]_bootVars => ConfigFits'
<1> SUFFICES ASSUME BootInv, [BootNext]_bootVars PROVE ConfigFits'
  OBVIOUS
<1>a. Typed
  BY TypesAre DEF BootInv
<1> USE <1>a DEF BootInv, ConfigFits, Typed, Is, Go, BootSteps
<1>1. CASE BootRun
  BY <1>1 DEF BootRun, Process
<1>2. CASE BootRerun
  BY <1>2 DEF BootRerun, Process, Keep
<1>3. CASE BootSetup
  BY <1>3 DEF BootSetup, AfterClient
<1>4. CASE BootCompare
  BY <1>4 DEF BootCompare, AfterTarball
<1>5. CASE BootWipe
  BY <1>5 DEF BootWipe
<1>6. CASE BootDownload
  BY <1>6 DEF BootDownload, Keep
<1>7. CASE BootExtract
  BY <1>7 DEF BootExtract, AfterTarball
<1>8. CASE BootExtractRaises
  BY <1>8 DEF BootExtractRaises, BootRaise, Keep
<1>9. CASE BootPersist
  BY <1>9 DEF BootPersist
<1>10. CASE BootJob
  BY <1>10 DEF BootJob, JobDone
<1>11. CASE BootNoManager
  BY <1>11 DEF BootNoManager, BootRaise, Keep
<1>12. CASE BootPipNeedsCert
  BY <1>12 DEF BootPipNeedsCert, Keep
<1>13. CASE BootGetCert
  BY <1>13 DEF BootGetCert
<1>14. CASE BootLock
  BY <1>14 DEF BootLock, AfterClient
<1>15. CASE BootExecutorConfig
  <2>1. bplat' = bplat /\ (SupportsInitd' <=> SupportsInitd)
    BY <1>15 DEF BootExecutorConfig, SupportsInitd
  <2>2. \/ bpc' = "register" /\ bdisk'.defaults = IF SupportsInitd THEN "export" ELSE "plain"
        \/ bpc' = "start" /\ bmem'.cmd = "direct"
    BY <1>15 DEF BootExecutorConfig, FallBack, Memories, Disks
  <2> QED BY <2>1, <2>2
<1>16. CASE BootRegister
  <2>1. SupportsSystemd => ~SupportsInitd
    BY OneInitSystem
  <2>2. bdisk'.defaults = bdisk.defaults /\ bpc' = "start" /\ bpc = "register"
    BY <1>16 DEF BootRegister, FallBack, Disks
  <2>3. \/ SupportsSystemd /\ bmem'.cmd = "systemd"
        \/ SupportsInitd /\ bmem'.cmd = "initd"
        \/ bmem'.cmd = "direct"
    BY <1>16 DEF BootRegister, FallBack, Memories
  <2> QED BY <2>1, <2>2, <2>3
<1>17. CASE BootStartExecutor
  BY <1>17 DEF BootStartExecutor
<1>18. CASE BootAuthenticate
  BY <1>18 DEF BootAuthenticate, BootFailed, Keep
<1>19. CASE BootPut
  BY <1>19 DEF BootPut, BootFailed
<1>20. CASE BootTryFails
  BY <1>20 DEF BootTryFails, BootFailed, Keep, Memories
<1>21. CASE BootCrash
  BY <1>21 DEF BootCrash
<1>22. CASE UNCHANGED bootVars
  BY <1>22 DEF bootVars, SupportsInitd
<1> QED BY <1>1, <1>2, <1>3, <1>4, <1>5, <1>6, <1>7, <1>8, <1>9, <1>10, <1>11, <1>12, <1>13, <1>14, <1>15, <1>16, <1>17, <1>18, <1>19, <1>20, <1>21, <1>22
       DEF BootNext, BootStep

-----------------------------------------------------------------------------
(* The script starts with the invariant: nothing is installed. *)
LEMMA BootStarts == BootInit => BootInv
<1> SUFFICES ASSUME BootInit PROVE BootInv
  OBVIOUS
<1>1. bpc = "off" /\ bmem = BootMem0 /\ bboots = 0 /\ bcut = FALSE /\ btold = FALSE /\ bplat \in BootPlatforms
  BY DEF BootInit
<1>2. PICK libs \in SUBSET Libs : bdisk = [BootDisk0 EXCEPT !.libs = libs, !.py2 = (bplat.py = 2)]
  BY DEF BootInit, Libs
<1>3. bdisk \in Disks /\ bdisk.lock = FALSE /\ bdisk.tarball["client"] = "none"
  BY <1>2 DEF BootDisk0, Disks, Contents, Dirs
<1>4. 0 \in 0 .. MaxBoots
  BY BootsAssumption
<1>5. Typed
  <2>1. bmem \in Memories /\ btold \in BOOLEAN /\ bcut \in BOOLEAN
    BY <1>1, StartMemory
  <2> QED BY <1>1, <1>3, <1>4, <2>1 DEF Typed
<1> QED BY <1>1, <1>3, <1>5, TypesAre
        DEF BootInv, CutKnown, Cut, LockedOut, BeforeLock, JobsSuffice, LockMeansInstalled, ConfigFits,
            AtClient, Installing

(* The invariant: what the script holds between any two steps, killed or not. *)
THEOREM BootInvariance == BootSpec => []BootInv
<1>1. BootInv /\ [BootNext]_bootVars => BootInv'
  BY BootTypes, StepCutKnown, StepLockedOut, StepBeforeLock, StepJobsSuffice,
     StepLockMeansInstalled, StepConfigFits DEF BootInv
<1> QED BY BootStarts, <1>1, PTL DEF BootSpec

(* Whatever is tried again, killed or run anew, the script and the disk keep their types. *)
THEOREM BootTypeCorrect == BootSpec => []BootTypeOK
<1>1. BootInv => BootTypeOK
  BY DEF BootInv
<1> QED BY BootInvariance, <1>1, PTL

(* get_and_setup_ss and _set_setup_done_lock: a VM with the lock has what the lock stands for. *)
THEOREM LockCorrect == BootSpec => []LockMeansInstalled
<1>1. BootInv => LockMeansInstalled
  BY DEF BootInv
<1> QED BY BootInvariance, <1>1, PTL

(* get_machine_executor_command: no version of a distribution makes an init system read the *)
(* defaults that were written for the other one.                                              *)
THEOREM ServiceCorrect == BootSpec => []ServiceReadsItsConfig
<1>1. BootInv => ServiceReadsItsConfig
  BY DEF BootInv, ConfigFits, ServiceReadsItsConfig, Is
<1> QED BY BootInvariance, <1>1, PTL
=============================================================================
