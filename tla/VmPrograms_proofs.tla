-------------------------- MODULE VmPrograms_proofs --------------------------
(***************************************************************************)
(* The programs that drive a VM over ssh: the start of one instance, with  *)
(* any number of attempts to reach it and whatever its main thread does    *)
(* meanwhile; and the build of an image, for any chain of modules, any     *)
(* cloud, any wishes of the user and any number of faults.                 *)
(***************************************************************************)
EXTENDS StartInstances, ImageBuild, SequenceTheorems, TLAPS

(* A call over ssh, and the VM it is made to. *)
SshPlaces == {"idle", "connect", "copy", "chmod", "run", "atd", "which", "ok", "raised"}
SshCallTypes ==
  [pc : SshPlaces, job : SshJobs \cup {NoJob}, api : BOOLEAN, nohup : BOOLEAN,
   left : Int, auth : Int, copies : Int]
Vms == [at : {"running", "stopped", "none"}, tty : BOOLEAN, ran : [SshJobs -> Nat]]

(* A call that is still trying has a try left. *)
CallBounds(call) ==
  /\ call.left \in 0 .. ConnectTries /\ call.auth \in 0 .. AuthTries /\ call.copies \in 0 .. CopyTries
  /\ call.pc = "connect" => call.left > 0
  /\ call.pc = "copy" => call.copies > 0
SshInv == ssh \in SshCallTypes /\ vm \in Vms /\ CallBounds(ssh)

-----------------------------------------------------------------------------
(* utils/ssh.py: the types of a call, and the bounds of its retries. *)

(* What a call over ssh changes of its record. *)
LEMMA CallGoes ==
  ASSUME NEW c \in SshCallTypes, NEW pc \in SshPlaces PROVE [c EXCEPT !.pc = pc] \in SshCallTypes
BY DEF SshCallTypes

(* ... the copies it may still try. *)
LEMMA CallCopies ==
  ASSUME NEW c \in SshCallTypes, NEW n \in Int PROVE [c EXCEPT !.copies = n] \in SshCallTypes
BY DEF SshCallTypes

(* ... the attempts it has left. *)
LEMMA CallRetries ==
  ASSUME NEW c \in SshCallTypes, NEW pc \in SshPlaces, NEW left \in Int, NEW auth \in Int
  PROVE  [c EXCEPT !.pc = pc, !.left = left, !.auth = auth] \in SshCallTypes
BY DEF SshCallTypes

(* ... its first record when it connects. *)
LEMMA CallConnects ==
  ASSUME NEW c \in SshCallTypes, NEW pc \in SshPlaces, NEW api \in BOOLEAN, NEW left \in Int, NEW auth \in Int
  PROVE  [c EXCEPT !.pc = pc, !.api = api, !.left = left, !.auth = auth] \in SshCallTypes
BY DEF SshCallTypes

(* ... its first record when it runs a script. *)
LEMMA CallRuns ==
  ASSUME NEW c \in SshCallTypes, NEW pc \in SshPlaces, NEW job \in SshJobs, NEW api \in BOOLEAN,
         NEW nohup \in BOOLEAN, NEW n \in Int
  PROVE  [c EXCEPT !.pc = pc, !.job = job, !.api = api, !.nohup = nohup, !.copies = n] \in SshCallTypes
BY DEF SshCallTypes

(* No call has the types of one. *)
LEMMA NoCallIs == NoCall \in SshCallTypes /\ NoCall.pc = "idle"
BY DEF NoCall, SshCallTypes, SshPlaces

(* Calls that begin, with all their tries. *)
LEMMA CallsBegin ==
  ASSUME NEW job \in SshJobs, NEW api \in BOOLEAN, NEW nohup \in BOOLEAN
  PROVE  /\ NoCall \in SshCallTypes /\ CallBounds(NoCall)
         /\ Connect(api) \in SshCallTypes /\ CallBounds(Connect(api))
         /\ RunScript(job, api, nohup) \in SshCallTypes /\ CallBounds(RunScript(job, api, nohup))
         /\ RunCommand(job, api) \in SshCallTypes /\ CallBounds(RunCommand(job, api))
<1>1. /\ "connect" \in SshPlaces /\ "copy" \in SshPlaces /\ "run" \in SshPlaces
      /\ CopyTries = 4 /\ CopyTries \in Int
  BY DEF SshPlaces, CopyTries
<1>2. ConnectTries \in Int /\ ConnectTries > 0 /\ AuthTries \in Int /\ AuthTries >= 0
  BY SshAssumption
<1>3. NoCall \in SshCallTypes /\ CallBounds(NoCall)
  BY <1>1, <1>2, NoCallIs DEF NoCall, CallBounds
<1>4. Connect(api) \in SshCallTypes
  BY <1>1, <1>2, NoCallIs, CallConnects DEF Connect
<1>5. CallBounds(Connect(api))
  BY <1>1, <1>2 DEF Connect, NoCall, CallBounds
<1>6. RunScript(job, api, nohup) \in SshCallTypes
  BY <1>1, NoCallIs, CallRuns DEF RunScript
<1>7. CallBounds(RunScript(job, api, nohup))
  BY <1>1, <1>2 DEF RunScript, NoCall, CallBounds
<1>8. RunCommand(job, api) \in SshCallTypes
  <2>1. \A c \in SshCallTypes : [c EXCEPT !.pc = "run", !.job = job, !.api = api] \in SshCallTypes
    BY <1>1 DEF SshCallTypes
  <2> QED BY <2>1, NoCallIs, Zenon DEF RunCommand
<1>9. CallBounds(RunCommand(job, api))
  BY <1>1, <1>2 DEF RunCommand, NoCall, CallBounds
<1> QED BY <1>3, <1>4, <1>5, <1>6, <1>7, <1>8, <1>9

(* One call over ssh goes on, and the VM with it. *)
LEMMA SshSteps ==
  ASSUME ssh \in SshCallTypes, vm \in Vms, SshStep
  PROVE  ssh' \in SshCallTypes /\ vm' \in Vms /\ ssh.pc # "idle"
<1>1. ssh \in SshCallTypes /\ vm \in Vms
  OBVIOUS
<1>2. ssh.left \in Int /\ ssh.auth \in Int /\ ssh.copies \in Int /\ ssh.pc \in SshPlaces /\ ssh.api \in BOOLEAN
  BY <1>1 DEF SshCallTypes
<1>3. \A pc \in SshPlaces : SshTo(pc) => ssh' \in SshCallTypes
  BY <1>1, CallGoes DEF SshTo
<1>4. {"ok", "raised", "chmod", "run", "atd", "which"} \subseteq SshPlaces
  BY DEF SshPlaces
<1>5. \A n \in Nat : [vm EXCEPT !.ran[ssh.job] = @ + n] \in Vms
  BY <1>1 DEF Vms
<1>6. \A n \in Nat : Ran(n) => vm' \in Vms
  BY <1>5 DEF Ran
<1>7. CASE SshConnect
  <2>1. ASSUME NEW pc \in {"raised", "connect"}, NEW auth \in Int
        PROVE  [ssh EXCEPT !.pc = pc, !.left = ssh.left - 1, !.auth = auth] \in SshCallTypes
    <3>1. pc \in SshPlaces /\ ssh.left - 1 \in Int
      BY <1>2 DEF SshPlaces
    <3> QED BY <1>1, <3>1, CallRetries
  <2>2. PICK outcome \in {"connected", "retry", "auth", "raise"} :
          \/ SshTo("ok") \/ SshTo("raised")
          \/ ssh' = [ssh EXCEPT !.pc = IF ssh.left = 1 THEN "raised" ELSE @, !.left = @ - 1,
                                !.auth = IF outcome = "auth" THEN @ - 1 ELSE @]
    BY <1>7, Zenon DEF SshConnect
  <2>3. /\ (IF ssh.left = 1 THEN "raised" ELSE ssh.pc) \in {"raised", "connect"}
        /\ (IF outcome = "auth" THEN ssh.auth - 1 ELSE ssh.auth) \in Int
    BY <1>2, <1>7 DEF SshConnect, SshAt
  <2>4. ssh' \in SshCallTypes
    <3>1. [ssh EXCEPT !.pc = IF ssh.left = 1 THEN "raised" ELSE ssh.pc, !.left = ssh.left - 1,
                      !.auth = IF outcome = "auth" THEN ssh.auth - 1 ELSE ssh.auth] \in SshCallTypes
      BY <2>1, <2>3, Zenon
    <3> QED BY <1>3, <1>4, <2>2, <3>1, Zenon
  <2> QED BY <1>1, <1>7, <2>4 DEF SshConnect, SshAt
<1>8. CASE SshCopy
  <2>1. [ssh EXCEPT !.copies = ssh.copies - 1] \in SshCallTypes
    BY <1>1, <1>2, CallCopies
  <2> QED BY <1>1, <1>3, <1>4, <1>8, <2>1 DEF SshCopy, SshAt
<1>9. CASE SshChmod
  BY <1>1, <1>3, <1>4, <1>9 DEF SshChmod, SshAt
<1>10. CASE SshRun
  <2>1. Executions \in Nat
    BY DEF Executions
  <2> QED BY <1>3, <1>4, <1>6, <1>10, <2>1 DEF SshRun, SshAt
<1>11. CASE SshQueue
  BY <1>1, <1>3, <1>4, <1>6, <1>11 DEF SshQueue, SshAt
<1>12. CASE SshStartAtd
  <2>1. [vm EXCEPT !.at = "running"] \in Vms /\ [vm EXCEPT !.at = "running"].ran = vm.ran
    BY <1>1 DEF Vms
  <2>2. \A v \in Vms, n \in Nat : [v EXCEPT !.ran[ssh.job] = @ + n] \in Vms
    BY DEF Vms
  <2>3. [vm EXCEPT !.at = "running", !.ran[ssh.job] = @ + 1] \in Vms
    BY <2>1, <2>2, Zenon
  <2> QED BY <1>1, <1>3, <1>4, <1>12, <2>3 DEF SshStartAtd, SshAt
<1>13. CASE SshBackground
  BY <1>1, <1>3, <1>4, <1>6, <1>13 DEF SshBackground, SshAt
<1> QED BY <1>7, <1>8, <1>9, <1>10, <1>11, <1>12, <1>13 DEF SshStep

(* waitUntilSshCanConnectOrTimeout, remoteCopyFile: no more tries than there are. *)
LEMMA SshKeepsBounds == ASSUME SshInv, SshStep PROVE SshInv'
<1>1. ssh' \in SshCallTypes /\ vm' \in Vms
  BY SshSteps DEF SshInv
<1> SUFFICES CallBounds(ssh')
  BY <1>1 DEF SshInv
<1>2. ssh.left \in Int /\ ssh.auth \in Int /\ ssh.copies \in Int /\ ssh.api \in BOOLEAN
  BY DEF SshInv, SshCallTypes
<1>3. ASSUME NEW pc \in {"ok", "raised", "chmod", "run", "atd", "which"}
      PROVE  SshTo(pc) => CallBounds(ssh')
  <2> SUFFICES ASSUME SshTo(pc) PROVE CallBounds(ssh')
    OBVIOUS
  <2>1. /\ ssh'.pc = pc /\ ssh'.left = ssh.left /\ ssh'.auth = ssh.auth
        /\ ssh'.copies = ssh.copies
    BY DEF SshInv, SshTo, SshCallTypes
  <2> QED BY <2>1 DEF SshInv, CallBounds
<1>4. CASE SshConnect
  <2>1. PICK outcome \in {"connected", "retry", "auth", "raise"} :
          \/ SshTo("ok") \/ SshTo("raised")
          \/ /\ ssh' = [ssh EXCEPT !.pc = IF ssh.left = 1 THEN "raised" ELSE @, !.left = @ - 1,
                                   !.auth = IF outcome = "auth" THEN @ - 1 ELSE @]
             /\ outcome = "auth" => ssh.auth # 0
    BY <1>4 DEF SshConnect
  <2>2. CASE /\ ssh' = [ssh EXCEPT !.pc = IF ssh.left = 1 THEN "raised" ELSE @, !.left = @ - 1,
                                   !.auth = IF outcome = "auth" THEN @ - 1 ELSE @]
             /\ outcome = "auth" => ssh.auth # 0
    <3>1. /\ ssh'.left = ssh.left - 1 /\ ssh'.copies = ssh.copies
          /\ ssh'.auth = IF outcome = "auth" THEN ssh.auth - 1 ELSE ssh.auth
          /\ ssh'.pc = IF ssh.left = 1 THEN "raised" ELSE "connect"
      BY <1>4, <2>2 DEF SshInv, SshCallTypes, SshConnect, SshAt
    <3>2. ssh.left > 0
      BY <1>4 DEF SshInv, CallBounds, SshConnect, SshAt
    <3> QED BY <1>2, <2>2, <3>1, <3>2, SshAssumption DEF SshInv, CallBounds
  <2> QED BY <1>3, <2>1, <2>2
<1>5. CASE SshCopy
  <2>1. CASE ssh' = [ssh EXCEPT !.copies = @ - 1] /\ ssh.copies # 1
    <3>1. /\ ssh'.left = ssh.left /\ ssh'.auth = ssh.auth /\ ssh'.copies = ssh.copies - 1
          /\ ssh'.pc = "copy" /\ ssh.copies > 0
      BY <1>5, <2>1 DEF SshInv, SshCallTypes, SshCopy, SshAt, CallBounds
    <3> QED BY <1>2, <2>1, <3>1 DEF SshInv, CallBounds, CopyTries
  <2> QED BY <1>3, <1>5, <2>1 DEF SshCopy
<1>6. CASE SshChmod
  BY <1>3, <1>6 DEF SshChmod
<1>7. CASE SshRun
  BY <1>3, <1>7 DEF SshRun
<1>8. CASE SshQueue
  BY <1>3, <1>8 DEF SshQueue
<1>9. CASE SshStartAtd
  BY <1>3, <1>9 DEF SshStartAtd
<1>10. CASE SshBackground
  BY <1>3, <1>10 DEF SshBackground
<1> QED BY <1>4, <1>5, <1>6, <1>7, <1>8, <1>9, <1>10 DEF SshStep

(* With its bounds a call has the types that are checked. *)
LEMMA SshTyped == SshInv => SshTypeOK
BY DEF SshInv, SshTypeOK, SshCallTypes, Vms, SshPlaces, CallBounds

-----------------------------------------------------------------------------
(* The start of an instance. *)

Early == {"off", "start", "starting"}
CallSteps == {"connect", "secure", "reconnect", "bootstrap"}
Scripted == {"contextualize", "script", "winscript", "winconnect", "winrun", "done"} \cup CallSteps

Mains == [pc : {"args", "wait", "good", "failed", "interrupted"}, exit : -1 .. 2]
Works == [pc : Early \cup {"publish", "address", "failed"} \cup Scripted, left : 0 .. WinrmTries]
Instances ==
  [up : BOOLEAN, ip : BOOLEAN, told : {"nothing", "id", "address"}, booting : BOOLEAN]
StartTypes ==
  /\ sopts \in StartOptions /\ smain \in Mains /\ swork \in Works /\ svm \in Instances
  /\ ssh \in SshCallTypes /\ vm \in Vms

(* What is known of the VM, and was printed of it, at each step of the daemon thread. *)
Phases ==
  /\ swork.pc \in {"off", "start"} => ~svm.up
  /\ swork.pc \in Early => svm.told = "nothing"
  /\ swork.pc \in {"publish", "address"} \cup Scripted => svm.up
  /\ swork.pc = "publish" => svm.told # "address"
  /\ swork.pc = "address" => svm.told = "id"
  /\ swork.pc \in Scripted => svm.told = "address"
  /\ swork.pc = "done" => svm.booting
  /\ svm.booting \/ vm.ran[Bootstrap] > 0 => svm.told = "address"
  /\ svm.up /\ svm.told = "nothing" => swork.pc \in {"starting", "publish", "failed"}

(* How the two threads and the call over ssh are in step. *)
Threads ==
  /\ smain.pc = "args" => swork.pc = "off"
  /\ smain.pc = "good" => swork.pc = "done"
  /\ smain.exit = 0 => smain.pc = "good"
  /\ ssh.pc # "idle" => swork.pc \in CallSteps

StartInv == StartTypes /\ Phases /\ Threads

-----------------------------------------------------------------------------
(* A call over ssh that succeeds leads on to a step that may know the address. *)
LEMMA CallsAre == DOMAIN AfterCall = CallSteps /\ \A pc \in CallSteps : AfterCall[pc] \in Scripted
BY DEF AfterCall, CallSteps, Scripted

(* The calls over ssh run the two scripts of this command. *)
LEMMA SshCallsAre ==
  ASSUME sopts \in StartOptions PROVE \A pc \in CallSteps : SshCalls[pc] \in SshCallTypes
<1>1. SecureSsh \in SshJobs /\ Bootstrap \in SshJobs /\ sopts.password \in BOOLEAN
  BY StartJobsAssumption DEF StartJobs, StartOptions
<1>2. "connect" \in SshPlaces /\ "copy" \in SshPlaces /\ CopyTries \in Int
  BY DEF SshPlaces, CopyTries
<1>3. ASSUME NEW api \in BOOLEAN PROVE Connect(api) \in SshCallTypes
  <2>1. ConnectTries \in Int /\ AuthTries \in Int
    BY SshAssumption
  <2> QED BY <1>2, <2>1, NoCallIs, CallConnects DEF Connect
<1>4. ASSUME NEW job \in SshJobs, NEW api \in BOOLEAN, NEW nohup \in BOOLEAN
      PROVE  RunScript(job, api, nohup) \in SshCallTypes
  BY <1>2, NoCallIs, CallRuns DEF RunScript
<1>5. /\ SshCalls["connect"] = Connect(sopts.password)
      /\ SshCalls["secure"] = RunScript(SecureSsh, sopts.password, FALSE)
      /\ SshCalls["reconnect"] = Connect(FALSE)
      /\ SshCalls["bootstrap"] = RunScript(Bootstrap, FALSE, TRUE)
  BY DEF SshCalls
<1> QED BY <1>1, <1>3, <1>4, <1>5 DEF CallSteps

-----------------------------------------------------------------------------
(* What a thread changes of its own record, and of what is known of the VM. *)
LEMMA Moves ==
  /\ \A m \in Mains, pc \in {"wait", "good", "failed", "interrupted"} :
       [m EXCEPT !.pc = pc] \in Mains /\ [m EXCEPT !.pc = pc].pc = pc
       /\ [m EXCEPT !.pc = pc].exit = m.exit
  /\ \A m \in Mains, code \in 0 .. 2 :
       [m EXCEPT !.exit = code] \in Mains /\ [m EXCEPT !.exit = code].pc = m.pc
       /\ [m EXCEPT !.exit = code].exit = code
  /\ \A w \in Works, pc \in Early \cup {"publish", "address", "failed"} \cup Scripted :
       [w EXCEPT !.pc = pc] \in Works /\ [w EXCEPT !.pc = pc].pc = pc
  /\ \A w \in Works :
       w.left > 0 => [w EXCEPT !.left = @ - 1] \in Works /\ [w EXCEPT !.left = @ - 1].pc = w.pc
BY WinrmAssumption DEF Mains, Works

(* The main thread only looks at the other one. *)
LEMMA MainSteps ==
  ASSUME StartInv, StartMain \/ StartAlarm \/ StartInterrupted PROVE StartInv'
<1>0. /\ sopts' = sopts /\ svm' = svm /\ ssh' = ssh /\ vm' = vm
      /\ swork' = swork \/ (StartBegins /\ WorkTo("start"))
      /\ Running
  BY DEF StartMain, StartBegins, StartWaits, StartExits, StartAlarm, StartInterrupted, sshVars, MainAt
<1>1. /\ smain' \in Mains /\ (smain'.pc # "args" \/ smain'.pc = smain.pc)
      /\ smain'.pc = "good" => swork.pc = "done" /\ swork' = swork
      /\ smain'.exit = 0 => smain'.pc = "good"
  <2>1. smain \in Mains /\ smain.exit = -1 /\ (smain.pc = "good" => swork.pc = "done")
    BY <1>0 DEF StartInv, StartTypes, Threads, Running
  <2>2. ASSUME NEW pc \in {"wait", "good", "failed", "interrupted"}, MainTo(pc)
        PROVE  smain' \in Mains /\ smain'.pc = pc /\ smain'.exit = -1
    BY <2>1, <2>2, Moves DEF MainTo
  <2>3. CASE StartBegins
    BY <2>2, <2>3 DEF StartBegins
  <2>4. CASE StartWaits
    BY <2>2, <2>4 DEF StartWaits
  <2>5. CASE StartAlarm \/ StartInterrupted
    BY <2>2, <2>5 DEF StartAlarm, StartInterrupted
  <2>6. CASE StartExits
    <3>1. PICK code \in ExitCodes[smain.pc] : smain' = [smain EXCEPT !.exit = code]
      BY <2>6 DEF StartExits
    <3>2. code \in 0 .. 2 /\ (code = 0 => smain.pc = "good")
      BY <2>6, <3>1 DEF StartExits, ExitCodes
    <3>3. smain' \in Mains /\ smain'.pc = smain.pc /\ smain'.exit = code
      BY <2>1, <3>1, <3>2, Moves, Zenon
    <3> QED BY <2>1, <2>6, <3>2, <3>3 DEF StartExits
  <2> QED BY <2>3, <2>4, <2>5, <2>6 DEF StartMain
<1>2. /\ swork' \in Works
      /\ swork'.pc = swork.pc \/ (swork.pc = "off" /\ swork'.pc = "start")
      /\ smain'.pc = "args" => swork'.pc = "off"
  <2>1. CASE StartBegins /\ WorkTo("start")
    <3>1. swork.pc = "off" /\ smain'.pc # "args"
      BY <2>1, Moves DEF StartInv, StartTypes, Threads, StartBegins, MainAt, MainTo
    <3> QED BY <2>1, <3>1, Moves DEF StartInv, StartTypes, WorkTo, Early
  <2>2. CASE swork' = swork
    BY <1>1, <2>2 DEF StartInv, StartTypes, Threads
  <2> QED BY <1>0, <2>1, <2>2
<1> QED
  <2>1. StartTypes'
    BY <1>0, <1>1, <1>2 DEF StartInv, StartTypes
  <2>2. Phases'
    BY <1>0, <1>2 DEF StartInv, Phases, Early, Scripted, CallSteps
  <2>3. Threads'
    BY <1>0, <1>1, <1>2 DEF StartInv, Threads, CallSteps
  <2> QED BY <2>1, <2>2, <2>3 DEF StartInv

(* The daemon thread prints before it goes on. *)
LEMMA WorkSteps == ASSUME StartInv, StartWork PROVE StartInv'
<1>1. /\ sopts \in StartOptions /\ swork \in Works /\ svm \in Instances
      /\ ssh \in SshCallTypes /\ vm \in Vms /\ smain \in Mains
  BY DEF StartInv, StartTypes
<1>2. /\ svm.up \in BOOLEAN /\ svm.ip \in BOOLEAN /\ svm.booting \in BOOLEAN
      /\ svm.told \in {"nothing", "id", "address"} /\ sopts.direct \in BOOLEAN /\ sopts.native \in BOOLEAN
      /\ sopts.windows \in BOOLEAN
  BY <1>1 DEF Instances, StartOptions
<1>3. ASSUME NEW pc \in Early \cup {"publish", "address", "failed"} \cup Scripted, WorkTo(pc)
      PROVE  swork' \in Works /\ swork'.pc = pc
  BY <1>1, <1>3, Moves DEF WorkTo
<1>4. ASSUME NEW up \in BOOLEAN, NEW ip \in BOOLEAN
      PROVE  LET v == [svm EXCEPT !.up = up, !.ip = ip] IN
             v \in Instances /\ v.up = up /\ v.told = svm.told /\ v.booting = svm.booting
  BY <1>1 DEF Instances
<1>5. ASSUME NEW up \in BOOLEAN
      PROVE  LET v == [svm EXCEPT !.up = up] IN
             v \in Instances /\ v.up = up /\ v.told = svm.told /\ v.booting = svm.booting
  BY <1>1 DEF Instances
<1>6. ASSUME NEW told \in {"nothing", "id", "address"}
      PROVE  LET v == [svm EXCEPT !.told = told] IN
             v \in Instances /\ v.up = svm.up /\ v.told = told /\ v.booting = svm.booting
  BY <1>1 DEF Instances
<1>7. ASSUME NEW booting \in BOOLEAN
      PROVE  LET v == [svm EXCEPT !.booting = booting] IN
             v \in Instances /\ v.up = svm.up /\ v.told = svm.told /\ v.booting = booting
  BY <1>1 DEF Instances
<1>8. LET v == [svm EXCEPT !.ip = TRUE] IN
      v \in Instances /\ v.up = svm.up /\ v.told = svm.told /\ v.booting = svm.booting
  BY <1>1 DEF Instances
<1> USE DEF StartInv, StartTypes, Phases, Threads, Early, Scripted, CallSteps
<1>s1. CASE StartCloudCall
  <2>1. swork' \in Works /\ swork'.pc = "starting" /\ swork.pc = "start"
    BY <1>s1, <1>3 DEF StartCloudCall, WorkAt
  <2>2. svm' \in Instances /\ svm'.told = svm.told /\ svm'.booting = svm.booting
    BY <1>s1, <1>5 DEF StartCloudCall
  <2> QED BY <1>1, <1>s1, <2>1, <2>2 DEF StartCloudCall, Local, sshVars
<1>s2. CASE StartCloudAnswer
  <2>1. swork.pc = "starting" /\ swork' \in Works
        /\ \/ swork'.pc = "publish" /\ svm' = [svm EXCEPT !.up = TRUE, !.ip = sopts.direct]
           \/ swork'.pc = "failed" /\ svm' = svm
    BY <1>s2, <1>3 DEF StartCloudAnswer, WorkAt
  <2>2. svm' \in Instances /\ svm'.told = svm.told /\ svm'.booting = svm.booting
        /\ (swork'.pc = "publish" => svm'.up)
    <3>1. CASE svm' = svm /\ swork'.pc = "failed"
      BY <1>1, <3>1
    <3>2. CASE svm' = [svm EXCEPT !.up = TRUE, !.ip = sopts.direct]
      BY <1>2, <1>4, <3>2
    <3> QED BY <2>1, <3>1, <3>2
  <2> QED BY <1>1, <1>s2, <2>1, <2>2 DEF StartCloudAnswer, Local, sshVars
<1>s3. CASE StartPublish
  <2>1. /\ swork.pc = "publish" /\ swork' \in Works
        /\ swork'.pc = IF svm.ip THEN "contextualize" ELSE "address"
    BY <1>s3, <1>2, <1>3 DEF StartPublish, WorkAt
  <2>2. svm' \in Instances /\ svm'.told = (IF svm.ip THEN "address" ELSE "id")
        /\ svm'.booting = svm.booting /\ svm'.up = svm.up
    BY <1>s3, <1>6 DEF StartPublish
  <2> QED BY <1>1, <1>s3, <2>1, <2>2 DEF StartPublish, Local, sshVars
<1>s4. CASE StartAddress
  <2>1. swork.pc = "address" /\ swork' \in Works
        /\ \/ swork'.pc = "publish" /\ svm' = [svm EXCEPT !.ip = TRUE]
           \/ swork'.pc = "failed" /\ svm' = svm
    BY <1>s4, <1>3 DEF StartAddress, WorkAt
  <2>2. svm' \in Instances /\ svm'.told = svm.told /\ svm'.booting = svm.booting /\ svm'.up = svm.up
    BY <1>1, <1>8, <2>1
  <2> QED BY <1>1, <1>s4, <2>1, <2>2 DEF StartAddress, Local, sshVars
<1>s5. CASE StartContextualize
  <2>1. /\ swork.pc = "contextualize" /\ swork' \in Works
        /\ swork'.pc \in {"done", "winscript", "connect"} /\ (swork'.pc = "done" => sopts.native)
    BY <1>s5, <1>2, <1>3 DEF StartContextualize, WorkAt
  <2>2. svm' \in Instances /\ svm'.told = svm.told /\ svm'.booting = sopts.native /\ svm'.up = svm.up
    BY <1>s5, <1>2, <1>7 DEF StartContextualize
  <2> QED BY <1>1, <1>s5, <2>1, <2>2 DEF StartContextualize, Local, sshVars
<1>s6. CASE StartSshCall
  <2>1. swork.pc \in CallSteps /\ ssh' \in SshCallTypes
    BY <1>1, <1>s6, CallsAre, SshCallsAre DEF StartSshCall
  <2> QED BY <1>1, <1>s6, <2>1 DEF StartSshCall, startVars
<1>s7. CASE StartSsh
  <2>1. ssh' \in SshCallTypes /\ vm' \in Vms /\ swork.pc \in CallSteps
    BY <1>1, <1>s7, SshSteps DEF StartSsh
  <2> QED BY <1>1, <1>s7, <2>1 DEF StartSsh, startVars
<1>s8. CASE StartSshReturns
  <2>1. swork.pc \in CallSteps
    BY <1>s8 DEF StartSshReturns
  <2>2. swork' \in Works /\ swork'.pc = IF ssh.pc = "ok" THEN AfterCall[swork.pc] ELSE "failed"
    BY <1>s8, <1>3, <2>1, CallsAre DEF StartSshReturns
  <2>3. swork'.pc = "done" => ssh.pc = "ok" /\ swork.pc = "bootstrap"
    BY <2>1, <2>2 DEF AfterCall
  <2>4. /\ svm' \in Instances /\ svm'.told = svm.told /\ svm'.up = svm.up
        /\ svm'.booting = (svm.booting \/ (ssh.pc = "ok" /\ swork.pc = "bootstrap"))
    <3>1. (svm.booting \/ (ssh.pc = "ok" /\ swork.pc = "bootstrap")) \in BOOLEAN
      BY <1>2
    <3> QED BY <1>s8, <1>7, <3>1 DEF StartSshReturns
  <2>5. swork'.pc \in Scripted \cup {"failed"}
    BY <2>1, <2>2, CallsAre
  <2>6. ssh' \in SshCallTypes /\ ssh'.pc = "idle"
    BY <1>s8, NoCallIs DEF StartSshReturns
  <2> QED BY <1>1, <1>s8, <2>1, <2>3, <2>4, <2>5, <2>6, <2>2 DEF StartSshReturns
<1>s9. CASE StartScript
  <2>1. swork.pc \in {"script", "winscript"} /\ swork' \in Works
        /\ swork'.pc \in {"failed", "bootstrap", "winconnect"}
    BY <1>s9, <1>3 DEF StartScript
  <2> QED BY <1>1, <1>s9, <2>1 DEF StartScript, Local, sshVars
<1>s10. CASE StartWinConnect
  <2>1. swork.pc = "winconnect" /\ swork' \in Works
        /\ swork'.pc \in {"winrun", "winconnect", "failed"}
    <3>1. CASE WorkTo("winrun") \/ WorkTo("failed")
      BY <1>s10, <1>3, <3>1 DEF StartWinConnect, WorkAt
    <3>2. CASE swork.left > 0 /\ swork' = [swork EXCEPT !.left = @ - 1]
      BY <1>s10, <1>1, <3>2, Moves DEF StartWinConnect, WorkAt
    <3> QED BY <1>s10, <3>1, <3>2 DEF StartWinConnect
  <2> QED BY <1>1, <1>s10, <2>1 DEF StartWinConnect, Local, sshVars
<1>s11. CASE StartWinRun
  <2>1. swork.pc = "winrun" /\ swork' \in Works
        /\ \/ swork'.pc = "done" /\ svm' = [svm EXCEPT !.booting = TRUE]
           \/ swork'.pc = "failed" /\ svm' = svm
    BY <1>s11, <1>3 DEF StartWinRun, WorkAt
  <2>2. svm' \in Instances /\ svm'.told = svm.told /\ svm'.up = svm.up
        /\ (svm'.booting => svm.booting \/ swork'.pc = "done") /\ (swork'.pc = "done" => svm'.booting)
    BY <1>1, <1>7, <2>1
  <2> QED BY <1>1, <1>s11, <2>1, <2>2 DEF StartWinRun, Local, sshVars
<1> QED
  BY <1>s1, <1>s2, <1>s3, <1>s4, <1>s5, <1>s6, <1>s7, <1>s8, <1>s9, <1>s10, <1>s11 DEF StartWork

-----------------------------------------------------------------------------
(* What the command calls over ssh has its tries as well. *)
LEMMA StartKeepsCalls ==
  ASSUME StartInv, SshInv, StartNext PROVE SshInv'
<1>1. sopts \in StartOptions /\ sopts.password \in BOOLEAN
  BY DEF StartInv, StartTypes, StartOptions
<1>2. SecureSsh \in SshJobs /\ Bootstrap \in SshJobs
  BY StartJobsAssumption DEF StartJobs
<1>3. CASE StartSsh
  BY <1>3, SshKeepsBounds DEF StartSsh
<1>4. CASE StartSshCall
  <2>1. swork.pc \in CallSteps /\ ssh' = SshCalls[swork.pc] /\ vm' = vm
    BY <1>4, CallsAre DEF StartSshCall
  <2>2. /\ SshCalls["connect"] = Connect(sopts.password)
        /\ SshCalls["secure"] = RunScript(SecureSsh, sopts.password, FALSE)
        /\ SshCalls["reconnect"] = Connect(FALSE)
        /\ SshCalls["bootstrap"] = RunScript(Bootstrap, FALSE, TRUE)
    BY DEF SshCalls
  <2>3. \A api \in BOOLEAN : Connect(api) \in SshCallTypes /\ CallBounds(Connect(api))
    BY <1>2, CallsBegin
  <2>4. \A job \in {SecureSsh, Bootstrap}, api, nohup \in BOOLEAN :
          RunScript(job, api, nohup) \in SshCallTypes /\ CallBounds(RunScript(job, api, nohup))
    BY <1>2, CallsBegin
  <2>5. SshCalls[swork.pc] \in SshCallTypes /\ CallBounds(SshCalls[swork.pc])
    BY <1>1, <2>1, <2>2, <2>3, <2>4 DEF CallSteps
  <2> QED BY <2>1, <2>5 DEF SshInv
<1>5. CASE StartSshReturns
  <2>1. ssh' = NoCall /\ vm' = vm
    BY <1>5 DEF StartSshReturns
  <2>2. NoCall \in SshCallTypes /\ CallBounds(NoCall)
    BY <1>2, CallsBegin
  <2> QED BY <2>1, <2>2 DEF SshInv
<1>6. CASE UNCHANGED sshVars
  BY <1>6 DEF SshInv, sshVars
<1>7. StartSsh \/ StartSshCall \/ StartSshReturns \/ UNCHANGED sshVars
  BY DEF StartNext, StartProgress, StartMain, StartWork, StartBegins, StartWaits, StartExits, StartAlarm,
         StartInterrupted, StartCloudCall, StartCloudAnswer, StartPublish, StartAddress, StartContextualize,
         StartScript, StartWinConnect, StartWinRun, Local
<1> QED BY <1>3, <1>4, <1>5, <1>6, <1>7

(* Every step of the command keeps its invariant. *)
LEMMA StartSteps == ASSUME StartInv, StartNext PROVE StartInv'
BY MainSteps, WorkSteps DEF StartNext, StartProgress

(* What the runs check of it follows. *)
LEMMA StartedWell ==
  ASSUME StartInv PROVE StartTypeOK /\ StartedIsTold
<1>1. StartTypeOK
  BY CallsAre DEF StartInv, StartTypes, StartTypeOK, Mains, Works, Instances, Early, Scripted, CallSteps
<1>2. StartedIsTold
  BY DEF StartInv, Phases, Threads, StartedIsTold, Scripted, Running
<1> QED BY <1>1, <1>2

(* The command starts with nothing printed. *)
LEMMA StartStarts == StartInit /\ SshInit => StartInv
<1> SUFFICES ASSUME StartInit, SshInit PROVE StartInv
  OBVIOUS
<1>1. /\ smain = [pc |-> "args", exit |-> -1] /\ swork = [pc |-> "off", left |-> WinrmTries]
      /\ svm = [up |-> FALSE, ip |-> FALSE, told |-> "nothing", booting |-> FALSE]
      /\ sopts \in StartOptions /\ ssh = NoCall
  BY DEF StartInit, StartIdle, SshInit
<1>2. smain \in Mains /\ swork \in Works /\ svm \in Instances
  BY <1>1, WinrmAssumption DEF Mains, Works, Instances, Early
<1>3. vm \in Vms /\ vm.ran[Bootstrap] = 0
  <2>1. Bootstrap \in SshJobs
    BY StartJobsAssumption DEF StartJobs
  <2>2. /\ vm.at \in {"running", "stopped", "none"} /\ vm.tty \in BOOLEAN
        /\ vm = [at |-> vm.at, tty |-> vm.tty, ran |-> vm.ran] /\ vm.ran = [j \in SshJobs |-> 0]
    BY DEF SshInit, NewVms
  <2> QED BY <2>1, <2>2 DEF Vms
<1>4. ssh \in SshCallTypes /\ ssh.pc = "idle"
  BY <1>1, NoCallIs
<1> QED BY <1>1, <1>2, <1>3, <1>4
        DEF StartInv, StartTypes, Phases, Threads, Early, Scripted, CallSteps

(* Whatever the two threads and the VM do, and in whichever order, the invariant is kept. *)
THEOREM StartInvariance == StartSpec => []StartInv
<1>1. StartInv /\ [StartNext]_<<startVars, sshVars>> => StartInv'
  <2> SUFFICES ASSUME StartInv, [StartNext]_<<startVars, sshVars>> PROVE StartInv'
    OBVIOUS
  <2>1. CASE UNCHANGED <<startVars, sshVars>>
    BY <2>1 DEF startVars, sshVars, StartInv, StartTypes, Phases, Threads
  <2> QED BY <2>1, MainSteps, WorkSteps DEF StartNext, StartProgress
<1> QED BY StartStarts, <1>1, PTL DEF StartSpec

(* RunInstancesCommand and _start_node_instance: the address of a VM is printed before its *)
(* bootstrap starts and before the command ends well, for any number of attempts to reach   *)
(* the VM, alarms and interrupts included.                                                   *)
THEOREM StartedCorrect == StartSpec => []StartedIsTold
<1>1. StartInv => StartedIsTold
  BY StartedWell
<1> QED BY StartInvariance, <1>1, PTL

-----------------------------------------------------------------------------
(* The build of an image. *)

States == {"Provisioning", "Executing", "SendingReports", "Ready", "Finalizing", "Done"}
Rank == [Provisioning |-> 1, Executing |-> 2, SendingReports |-> 3, Ready |-> 4,
         Finalizing |-> 5, Done |-> 6]

(* What the orchestrator has to do: steps that run a job of the build, and others. *)
Runs(step) == step.op \in {"script", "command"}
StepNames ==
  BuildOps \cup {"start", "machine", "orch", "check", "send", "creator", "itself", "raise"}
BuildSteps ==
  {step \in [op : StepNames, job : BuildJobs \cup {NoJob}, api : BOOLEAN] :
     IF Runs(step) THEN step.job \in BuildJobs ELSE step.job = NoJob}
JobsIn(todo) == {todo[i].job : i \in {k \in 1 .. Len(todo) : Runs(todo[k])}}
OpsIn(todo) == {todo[i].op : i \in 1 .. Len(todo)}

(* No job twice, nothing done to the image after it is saved, and itself stopped last. *)
Tidy(todo) ==
  \A i, k \in 1 .. Len(todo) : i < k =>
    /\ Runs(todo[i]) /\ Runs(todo[k]) => todo[i].job # todo[k].job
    /\ todo[i].op = "save" => todo[k].op \notin BuildOps
    /\ todo[i].op = "itself" => todo[k].op # "creator"

BuildRuns ==
  [state : States, done : SUBSET {"machine", "orch"}, abort : BOOLEAN, ever : BOOLEAN, saved : BOOLEAN]
Borders == [pc : {"run", "dead"}, in : States, todo : Seq(BuildSteps), guarded : BOOLEAN]
BuildTypes ==
  /\ bopts \in BuildOptions /\ brun \in BuildRuns
  /\ bvms \in [creator : {"none", "up", "down"}, orch : {"up", "down"}]
  /\ border \in Borders /\ Tidy(border.todo)
  /\ bfaults \in 0 .. MaxBuildFaults

(* The jobs of an image with the user's wishes. *)
RecipeJobs == {<<target, m>> : target \in {"prerecipe", "recipe"}, m \in ModuleSet}
ImageJobs ==
  RecipeJobs \cup {PackageInstall} \cup (IF bopts.ctx THEN {} ELSE {Secure})
  \cup (IF bopts.ctx \/ ~bopts.password THEN {} ELSE {Revert})
Wanted == {j \in ImageJobs : ~Skipped(j)}

(* The image is being built, as long as it is still to be saved. *)
Imaging == border.in = "Executing" /\ "save" \in OpsIn(border.todo)
Returned(job) == ssh.pc \in {"ok", "raised"} /\ ssh.job = job

(* What is not left to do was done, once, and nothing else was. *)
Progress ==
  /\ \A j \in BuildJobs :
       /\ vm.ran[j] > 0 => j \in Wanted /\ (j \in JobsIn(border.todo) => Returned(j))
       /\ j \in Wanted => \/ vm.ran[j] > 0
                          \/ j \in JobsIn(border.todo) /\ ~(ssh.pc = "ok" /\ ssh.job = j)
       /\ ~vm.tty => vm.ran[j] <= 1
  /\ JobsIn(border.todo) \subseteq ImageJobs
  /\ bopts.ctx \/ bopts.password \/ "unbound" \in OpsIn(border.todo)

(* A call over ssh is that of the step the orchestrator is at. *)
InCall ==
  ssh.pc # "idle" =>
    /\ bvms.orch = "up" /\ Imaging /\ ssh.job = Doing.job /\ ~Skipped(Doing.job) /\ ~ssh.nohup
    /\ \/ Doing.op = "connect" /\ Doing.job = NoJob /\ ssh.pc \in {"connect", "ok", "raised"}
       \/ Runs(Doing) /\ ssh.pc \in {"copy", "chmod", "run", "ok", "raised"}

NoneRan == \A j \in BuildJobs : vm.ran[j] = 0
ImageInv ==
  /\ InCall
  /\ Imaging => ~brun.saved /\ Progress
  /\ ~Imaging => OpsIn(border.todo) \cap BuildOps = {}
  /\ border.in = "Provisioning" => ~brun.saved /\ NoneRan
  /\ Rank[border.in] <= Rank[brun.state]
  /\ \A j \in SshJobs \ BuildJobs : vm.ran[j] = 0
  /\ ImageIsWhole

(* Why the creator may be left running. *)
Kept == bopts.keep \in KeepOnError /\ brun.ever
CreatorGone == bvms.creator # "up" \/ bopts.shape = "single" \/ Kept
LeaveInv ==
  /\ brun.abort => brun.ever
  /\ "itself" \in OpsIn(border.todo) =>
       "start" \notin OpsIn(border.todo) /\ ("creator" \in OpsIn(border.todo) \/ CreatorGone)
  /\ BuildLeavesNoVm

BuildInv == BuildTypes /\ SshInv /\ ImageInv /\ LeaveInv

-----------------------------------------------------------------------------
(* One step to do. *)
LEMMA OneStep ==
  ASSUME NEW step \in BuildSteps
  PROVE  /\ <<step>> \in Seq(BuildSteps) /\ Tidy(<<step>>) /\ OpsIn(<<step>>) = {step.op}
         /\ JobsIn(<<step>>) = IF Runs(step) THEN {step.job} ELSE {}
<1>1. <<step>> \in Seq(BuildSteps) /\ Len(<<step>>) = 1 /\ <<step>>[1] = step
  OBVIOUS
<1>2. 1 .. Len(<<step>>) = {1}
  BY <1>1
<1>3. Tidy(<<step>>) /\ OpsIn(<<step>>) = {step.op}
  BY <1>1, <1>2 DEF Tidy, OpsIn
<1>4. JobsIn(<<step>>) = IF Runs(step) THEN {step.job} ELSE {}
  BY <1>1, <1>2 DEF JobsIn
<1> QED BY <1>1, <1>3, <1>4

(* Nothing to do. *)
LEMMA NoStep ==
  /\ << >> \in Seq(BuildSteps) /\ Tidy(<< >>) /\ OpsIn(<< >>) = {} /\ JobsIn(<< >>) = {}
BY DEF Tidy, OpsIn, JobsIn

(* A step is done, and the next one is at the head. *)
LEMMA StepDone ==
  ASSUME NEW todo \in Seq(BuildSteps), todo # << >>, Tidy(todo)
  PROVE  /\ Head(todo) \in BuildSteps /\ Tail(todo) \in Seq(BuildSteps) /\ Tidy(Tail(todo))
         /\ OpsIn(todo) = OpsIn(Tail(todo)) \cup {Head(todo).op}
         /\ JobsIn(todo) = JobsIn(Tail(todo)) \cup (IF Runs(Head(todo)) THEN {Head(todo).job} ELSE {})
         /\ Runs(Head(todo)) => Head(todo).job \notin JobsIn(Tail(todo))
         /\ Head(todo).op = "save" => OpsIn(Tail(todo)) \cap BuildOps = {}
         /\ Head(todo).op = "itself" => "creator" \notin OpsIn(Tail(todo))
<1> DEFINE rest == Tail(todo)
<1>1. /\ rest \in Seq(BuildSteps) /\ Len(rest) = Len(todo) - 1
      /\ \A i \in 1 .. Len(rest) : rest[i] = todo[i + 1]
      /\ Len(todo) \in Nat \ {0} /\ Head(todo) = todo[1] /\ Head(todo) \in BuildSteps
  BY HeadTailProperties, EmptySeq
<1> HIDE DEF rest
<1>2. \A i \in 1 .. Len(rest) : i + 1 \in 1 .. Len(todo) /\ 1 < i + 1 /\ i \in Nat
  BY <1>1
<1>3. \A k \in 1 .. Len(todo) : k = 1 \/ (k - 1 \in 1 .. Len(rest) /\ rest[k - 1] = todo[k])
  BY <1>1
<1>4. 1 \in 1 .. Len(todo)
  BY <1>1
<1>5. Tidy(rest)
  <2> SUFFICES ASSUME NEW i \in 1 .. Len(rest), NEW k \in 1 .. Len(rest), i < k
               PROVE  /\ Runs(rest[i]) /\ Runs(rest[k]) => rest[i].job # rest[k].job
                      /\ rest[i].op = "save" => rest[k].op \notin BuildOps
                      /\ rest[i].op = "itself" => rest[k].op # "creator"
    BY DEF Tidy
  <2>1. i + 1 < k + 1 /\ rest[i] = todo[i + 1] /\ rest[k] = todo[k + 1]
    BY <1>1, <1>2
  <2> QED BY <1>2, <2>1 DEF Tidy
<1>6. OpsIn(todo) = OpsIn(rest) \cup {Head(todo).op}
  <2>1. \A i \in 1 .. Len(rest) : rest[i].op \in OpsIn(todo)
    BY <1>1, <1>2 DEF OpsIn
  <2>2. \A k \in 1 .. Len(todo) : todo[k].op \in OpsIn(rest) \cup {Head(todo).op}
    BY <1>1, <1>3 DEF OpsIn
  <2>3. Head(todo).op \in OpsIn(todo)
    BY <1>1, <1>4 DEF OpsIn
  <2> QED BY <2>1, <2>2, <2>3 DEF OpsIn
<1>7. JobsIn(todo) = JobsIn(rest) \cup (IF Runs(Head(todo)) THEN {Head(todo).job} ELSE {})
  <2>1. \A i \in 1 .. Len(rest) : Runs(rest[i]) => rest[i].job \in JobsIn(todo)
    BY <1>1, <1>2 DEF JobsIn
  <2>2. \A k \in 1 .. Len(todo) :
          Runs(todo[k]) => \/ todo[k].job \in JobsIn(rest)
                           \/ Runs(Head(todo)) /\ todo[k].job = Head(todo).job
    BY <1>1, <1>3 DEF JobsIn
  <2>3. Runs(Head(todo)) => Head(todo).job \in JobsIn(todo)
    BY <1>1, <1>4 DEF JobsIn
  <2>4. JobsIn(rest) \subseteq JobsIn(todo)
    BY <2>1 DEF JobsIn
  <2>5. \A j \in JobsIn(todo) : j \in JobsIn(rest) \/ (Runs(Head(todo)) /\ j = Head(todo).job)
    BY <2>2 DEF JobsIn
  <2> QED BY <2>3, <2>4, <2>5
<1>8. \A i \in 1 .. Len(rest) :
        /\ Runs(Head(todo)) /\ Runs(rest[i]) => Head(todo).job # rest[i].job
        /\ Head(todo).op = "save" => rest[i].op \notin BuildOps
        /\ Head(todo).op = "itself" => rest[i].op # "creator"
  BY <1>1, <1>2, <1>4 DEF Tidy
<1>9. /\ Runs(Head(todo)) => Head(todo).job \notin JobsIn(rest)
      /\ Head(todo).op = "save" => OpsIn(rest) \cap BuildOps = {}
      /\ Head(todo).op = "itself" => "creator" \notin OpsIn(rest)
  BY <1>8 DEF JobsIn, OpsIn
<1> QED BY <1>1, <1>5, <1>6, <1>7, <1>9 DEF rest

(* Steps to do after others. *)
LEMMA StepsAfter ==
  ASSUME NEW s \in Seq(BuildSteps), NEW t \in Seq(BuildSteps)
  PROVE  /\ s \o t \in Seq(BuildSteps)
         /\ OpsIn(s \o t) = OpsIn(s) \cup OpsIn(t) /\ JobsIn(s \o t) = JobsIn(s) \cup JobsIn(t)
         /\ /\ Tidy(s) /\ Tidy(t) /\ JobsIn(s) \cap JobsIn(t) = {} /\ "itself" \notin OpsIn(s)
            /\ "save" \notin OpsIn(s) \/ OpsIn(t) \cap BuildOps = {}
            => Tidy(s \o t)
<1> DEFINE st == s \o t
<1>1. /\ st \in Seq(BuildSteps) /\ Len(st) = Len(s) + Len(t) /\ Len(s) \in Nat /\ Len(t) \in Nat
      /\ \A i \in 1 .. Len(st) : st[i] = IF i <= Len(s) THEN s[i] ELSE t[i - Len(s)]
  BY ConcatProperties, LenProperties
<1> HIDE DEF st
<1>2. \A i \in 1 .. Len(s) : i \in 1 .. Len(st) /\ st[i] = s[i]
  BY <1>1
<1>3. \A i \in 1 .. Len(t) : Len(s) + i \in 1 .. Len(st) /\ st[Len(s) + i] = t[i]
  <2> SUFFICES ASSUME NEW i \in 1 .. Len(t)
               PROVE  Len(s) + i \in 1 .. Len(st) /\ st[Len(s) + i] = t[i]
    OBVIOUS
  <2>1. Len(s) + i \in 1 .. Len(st) /\ ~(Len(s) + i <= Len(s)) /\ (Len(s) + i) - Len(s) = i
    BY <1>1
  <2> QED BY <1>1, <2>1
<1>4. \A i \in 1 .. Len(st) :
        \/ i \in 1 .. Len(s) /\ st[i] = s[i]
        \/ i - Len(s) \in 1 .. Len(t) /\ st[i] = t[i - Len(s)] /\ ~(i \in 1 .. Len(s))
  BY <1>1
<1>5. OpsIn(st) = OpsIn(s) \cup OpsIn(t)
  <2>1. \A i \in 1 .. Len(s) : s[i].op \in OpsIn(st)
    BY <1>2 DEF OpsIn
  <2>2. \A i \in 1 .. Len(t) : t[i].op \in OpsIn(st)
    BY <1>3 DEF OpsIn
  <2>3. \A i \in 1 .. Len(st) : st[i].op \in OpsIn(s) \cup OpsIn(t)
    BY <1>4 DEF OpsIn
  <2>4. OpsIn(s) \subseteq OpsIn(st) /\ OpsIn(t) \subseteq OpsIn(st)
    BY <2>1, <2>2 DEF OpsIn
  <2>5. OpsIn(st) \subseteq OpsIn(s) \cup OpsIn(t)
    BY <2>3 DEF OpsIn
  <2> QED BY <2>4, <2>5
<1>6. JobsIn(st) = JobsIn(s) \cup JobsIn(t)
  <2>1. \A i \in 1 .. Len(s) : Runs(s[i]) => s[i].job \in JobsIn(st)
    BY <1>2 DEF JobsIn
  <2>2. \A i \in 1 .. Len(t) : Runs(t[i]) => t[i].job \in JobsIn(st)
    BY <1>3 DEF JobsIn
  <2>3. \A i \in 1 .. Len(st) : Runs(st[i]) => st[i].job \in JobsIn(s) \cup JobsIn(t)
    BY <1>4 DEF JobsIn
  <2>4. JobsIn(s) \subseteq JobsIn(st) /\ JobsIn(t) \subseteq JobsIn(st)
    BY <2>1, <2>2 DEF JobsIn
  <2>5. JobsIn(st) \subseteq JobsIn(s) \cup JobsIn(t)
    BY <2>3 DEF JobsIn
  <2> QED BY <2>4, <2>5
<1>7. ASSUME /\ Tidy(s) /\ Tidy(t) /\ JobsIn(s) \cap JobsIn(t) = {} /\ "itself" \notin OpsIn(s)
             /\ "save" \notin OpsIn(s) \/ OpsIn(t) \cap BuildOps = {},
             NEW i \in 1 .. Len(st), NEW k \in 1 .. Len(st), i < k
      PROVE  /\ Runs(st[i]) /\ Runs(st[k]) => st[i].job # st[k].job
             /\ st[i].op = "save" => st[k].op \notin BuildOps
             /\ st[i].op = "itself" => st[k].op # "creator"
  <2>1. CASE i \in 1 .. Len(s) /\ k \in 1 .. Len(s)
    BY <1>2, <1>7, <2>1 DEF Tidy
  <2>2. CASE i \in 1 .. Len(s) /\ ~(k \in 1 .. Len(s))
    <3>1. st[i] = s[i] /\ s[i].op \in OpsIn(s) /\ (Runs(s[i]) => s[i].job \in JobsIn(s))
      BY <1>2, <2>2 DEF OpsIn, JobsIn
    <3>2. st[k].op \in OpsIn(t) /\ (Runs(st[k]) => st[k].job \in JobsIn(t))
      BY <1>4, <2>2 DEF OpsIn, JobsIn
    <3> QED BY <1>7, <3>1, <3>2
  <2>3. CASE ~(i \in 1 .. Len(s))
    <3>1. /\ i - Len(s) \in 1 .. Len(t) /\ k - Len(s) \in 1 .. Len(t) /\ i - Len(s) < k - Len(s)
          /\ st[i] = t[i - Len(s)] /\ st[k] = t[k - Len(s)]
      BY <1>1, <1>7, <2>3
    <3> QED BY <1>7, <3>1 DEF Tidy
  <2> QED BY <2>1, <2>2, <2>3
<1>8. /\ Tidy(s) /\ Tidy(t) /\ JobsIn(s) \cap JobsIn(t) = {} /\ "itself" \notin OpsIn(s)
      /\ "save" \notin OpsIn(s) \/ OpsIn(t) \cap BuildOps = {}
      => Tidy(st)
  BY <1>7 DEF Tidy
<1> QED BY <1>1, <1>5, <1>6, <1>8 DEF st

-----------------------------------------------------------------------------
(* Steps that run no job, and steps over ssh. *)
LEMMA StepIs ==
  /\ \A op \in StepNames \ {"script", "command"} :
       BOp(op) \in BuildSteps /\ BOp(op).op = op /\ ~Runs(BOp(op))
  /\ \A api \in BOOLEAN :
       Connecting(api) \in BuildSteps /\ Connecting(api).op = "connect" /\ ~Runs(Connecting(api))
BY DEF BOp, Connecting, BuildSteps, Runs, StepNames, BuildOps

(* A state whose steps run nothing on the VM. *)
LEMMA PlainSteps ==
  ASSUME NEW todo \in Seq(BuildSteps),
         \A i \in 1 .. Len(todo) : ~Runs(todo[i]) /\ todo[i].op \notin BuildOps,
         \A i, k \in 1 .. Len(todo) : i < k /\ todo[i].op = "itself" => todo[k].op # "creator"
  PROVE  Tidy(todo) /\ JobsIn(todo) = {} /\ OpsIn(todo) \cap BuildOps = {}
<1>1. Tidy(todo)
  BY DEF Tidy, BuildOps
<1>2. JobsIn(todo) = {}
  BY DEF JobsIn
<1>3. OpsIn(todo) \cap BuildOps = {}
  BY DEF OpsIn
<1> QED BY <1>1, <1>2, <1>3

(* What is carried on with after an error, and the steps of the states that build nothing. *)
LatePlans ==
  {<< >>, <<BOp("machine"), BOp("orch")>>, <<BOp("machine"), BOp("raise")>>,
   <<BOp("send"), BOp("machine")>>, <<BOp("send"), BOp("machine"), BOp("orch")>>,
   <<BOp("start"), BOp("machine"), BOp("orch")>>, <<BOp("raise")>>}
LEMMA LateSteps ==
  ASSUME NEW todo \in LatePlans
  PROVE  /\ todo \in Seq(BuildSteps) /\ Tidy(todo) /\ JobsIn(todo) = {}
         /\ OpsIn(todo) \cap BuildOps = {} /\ "itself" \notin OpsIn(todo)
<1> DEFINE Plain(s) == s \in Seq(BuildSteps)
                       /\ \A i \in 1 .. Len(s) : /\ ~Runs(s[i])
                                                 /\ s[i].op \in {"machine", "orch", "raise", "send", "start"}
<1>1. \A op \in {"machine", "orch", "raise", "send", "start"} :
        BOp(op) \in BuildSteps /\ BOp(op).op = op /\ ~Runs(BOp(op))
  BY StepIs DEF StepNames
<1>2. ASSUME NEW a \in BuildSteps, NEW b \in BuildSteps, NEW c \in BuildSteps
      PROVE  /\ <<a>> \in Seq(BuildSteps) /\ \A i \in 1 .. Len(<<a>>) : <<a>>[i] = a
             /\ <<a, b>> \in Seq(BuildSteps) /\ \A i \in 1 .. Len(<<a, b>>) : <<a, b>>[i] \in {a, b}
             /\ <<a, b, c>> \in Seq(BuildSteps)
             /\ \A i \in 1 .. Len(<<a, b, c>>) : <<a, b, c>>[i] \in {a, b, c}
  <2>1. /\ <<a>> \in Seq(BuildSteps) /\ Len(<<a>>) = 1 /\ <<a>>[1] = a
        /\ <<a, b>> \in Seq(BuildSteps) /\ Len(<<a, b>>) = 2 /\ <<a, b>>[1] = a /\ <<a, b>>[2] = b
        /\ <<a, b, c>> \in Seq(BuildSteps) /\ Len(<<a, b, c>>) = 3
        /\ <<a, b, c>>[1] = a /\ <<a, b, c>>[2] = b /\ <<a, b, c>>[3] = c
    OBVIOUS
  <2>2. 1 .. 1 = {1} /\ 1 .. 2 = {1, 2} /\ 1 .. 3 = {1, 2, 3}
    OBVIOUS
  <2> QED BY <2>1, <2>2
<1>3. ASSUME NEW a \in {"machine", "orch", "raise", "send", "start"},
             NEW b \in {"machine", "orch", "raise", "send", "start"},
             NEW c \in {"machine", "orch", "raise", "send", "start"}
      PROVE  Plain(<<BOp(a)>>) /\ Plain(<<BOp(a), BOp(b)>>) /\ Plain(<<BOp(a), BOp(b), BOp(c)>>)
  BY <1>1, <1>2
<1>4. Plain(<< >>)
  OBVIOUS
<1>5. Plain(todo)
  <2> HIDE DEF Plain
  <2> QED BY <1>3, <1>4 DEF LatePlans
<1>6. \A i \in 1 .. Len(todo) : /\ ~Runs(todo[i]) /\ todo[i].op \notin BuildOps
                                /\ todo[i].op # "itself"
  BY <1>5 DEF BuildOps
<1>7. "itself" \notin OpsIn(todo)
  BY <1>6 DEF OpsIn
<1> QED BY <1>5, <1>6, <1>7, PlainSteps

(* onFinalizing *)
LEMMA FinalSteps ==
  ASSUME NEW todo, todo = <<BOp("creator"), BOp("machine"), BOp("orch"), BOp("itself")>>
  PROVE  /\ todo \in Seq(BuildSteps) /\ Tidy(todo) /\ JobsIn(todo) = {}
         /\ OpsIn(todo) \cap BuildOps = {} /\ "creator" \in OpsIn(todo) /\ "start" \notin OpsIn(todo)
<1>1. \A op \in {"creator", "machine", "orch", "itself"} :
        BOp(op) \in BuildSteps /\ BOp(op).op = op /\ ~Runs(BOp(op))
  BY StepIs DEF StepNames
<1>2. /\ todo \in Seq(BuildSteps) /\ Len(todo) = 4 /\ todo[1] = BOp("creator") /\ todo[2] = BOp("machine")
      /\ todo[3] = BOp("orch") /\ todo[4] = BOp("itself")
  BY <1>1
<1>3. 1 .. Len(todo) = {1, 2, 3, 4}
  BY <1>2
<1>4. /\ \A i \in 1 .. Len(todo) : ~Runs(todo[i]) /\ todo[i].op \notin BuildOps
      /\ \A i, k \in 1 .. Len(todo) : i < k /\ todo[i].op = "itself" => todo[k].op # "creator"
  BY <1>1, <1>2, <1>3 DEF BuildOps
<1>5. "creator" \in OpsIn(todo) /\ "start" \notin OpsIn(todo)
  BY <1>1, <1>2, <1>3 DEF OpsIn
<1> QED BY <1>2, <1>4, <1>5, PlainSteps

(* A part of the build before the image is saved, with the jobs it runs. *)
Segment(s, jobs) ==
  s \in Seq(BuildSteps) /\ Tidy(s) /\ JobsIn(s) = jobs /\ OpsIn(s) \subseteq BuildOps \ {"save"}
LEMMA SegmentsJoin ==
  ASSUME NEW s, NEW t, NEW A, NEW B, Segment(s, A), Segment(t, B), A \cap B = {}
  PROVE  Segment(s \o t, A \cup B) /\ OpsIn(s \o t) = OpsIn(s) \cup OpsIn(t)
<1>1. "itself" \notin OpsIn(s) /\ "save" \notin OpsIn(s)
  BY DEF Segment, BuildOps
<1>2. s \in Seq(BuildSteps) /\ t \in Seq(BuildSteps)
  BY DEF Segment
<1>3. s \o t \in Seq(BuildSteps) /\ OpsIn(s \o t) = OpsIn(s) \cup OpsIn(t)
      /\ JobsIn(s \o t) = JobsIn(s) \cup JobsIn(t)
  BY <1>2, StepsAfter
<1>4. Tidy(s \o t)
  BY <1>1, <1>2, StepsAfter DEF Segment
<1> QED BY <1>3, <1>4 DEF Segment

(* Jobs that are run one after the other. *)
LEMMA EachSegment ==
  ASSUME NEW jobs \in Seq(BuildJobs), NEW api \in BOOLEAN,
         \A i, k \in 1 .. Len(jobs) : i < k => jobs[i] # jobs[k]
  PROVE  Segment(Each(jobs, api), {jobs[i] : i \in 1 .. Len(jobs)})
<1> DEFINE s == Each(jobs, api)
           step(i) == [op |-> "script", job |-> jobs[i], api |-> api]
<1>1. Len(jobs) \in Nat /\ \A i \in 1 .. Len(jobs) : jobs[i] \in BuildJobs
  OBVIOUS
<1>2. \A i \in 1 .. Len(jobs) : step(i) \in BuildSteps /\ Runs(step(i))
  BY <1>1 DEF BuildSteps, Runs, StepNames, BuildOps
<1>3. s \in [1 .. Len(jobs) -> BuildSteps] /\ \A i \in 1 .. Len(jobs) : s[i] = step(i)
  BY <1>2 DEF Each
<1>4. s \in Seq(BuildSteps) /\ Len(s) = Len(jobs)
  BY <1>1, <1>3
<1>5. \A i \in 1 .. Len(s) : Runs(s[i]) /\ s[i].op = "script" /\ s[i].job = jobs[i]
  BY <1>2, <1>3, <1>4
<1> HIDE DEF s
<1>6. Tidy(s)
  BY <1>4, <1>5 DEF Tidy
<1>7. OpsIn(s) \subseteq BuildOps \ {"save"}
  BY <1>5 DEF OpsIn, BuildOps
<1>8. JobsIn(s) = {jobs[i] : i \in 1 .. Len(jobs)}
  BY <1>4, <1>5 DEF JobsIn
<1> QED BY <1>4, <1>6, <1>7, <1>8 DEF Segment, s

(* One step over ssh, and the recipes of a target. *)
LEMMA StepSegments ==
  /\ \A api \in BOOLEAN : Segment(<<Connecting(api)>>, {})
  /\ Segment(<<BOp("unbound")>>, {}) /\ "unbound" \in OpsIn(<<BOp("unbound")>>)
  /\ Segment(<<BOp("snapshot")>>, {}) /\ Segment(<< >>, {})
  /\ \A job \in BuildJobs, api \in BOOLEAN : Segment(Each(<<job>>, api), {job})
  /\ \A api \in BOOLEAN :
       Segment(<<[op |-> "command", job |-> PackageInstall, api |-> api]>>, {PackageInstall})
  /\ \A target \in {"prerecipe", "recipe"}, api \in BOOLEAN :
       Segment(Each(Target(target), api), {<<target, m>> : m \in ModuleSet})
<1>1. \A api \in BOOLEAN : Segment(<<Connecting(api)>>, {})
  BY OneStep, StepIs DEF Segment, BuildOps
<1>2. Segment(<<BOp("unbound")>>, {}) /\ "unbound" \in OpsIn(<<BOp("unbound")>>)
  <2>1. BOp("unbound") \in BuildSteps /\ BOp("unbound").op = "unbound" /\ ~Runs(BOp("unbound"))
    BY StepIs DEF StepNames, BuildOps
  <2> QED BY <2>1, OneStep DEF Segment, BuildOps
<1>3. Segment(<<BOp("snapshot")>>, {})
  <2>1. BOp("snapshot") \in BuildSteps /\ BOp("snapshot").op = "snapshot" /\ ~Runs(BOp("snapshot"))
    BY StepIs DEF StepNames, BuildOps
  <2> QED BY <2>1, OneStep DEF Segment, BuildOps
<1>4. Segment(<< >>, {})
  BY NoStep DEF Segment
<1>5. ASSUME NEW job \in BuildJobs, NEW api \in BOOLEAN PROVE Segment(Each(<<job>>, api), {job})
  <2>1. <<job>> \in Seq(BuildJobs) /\ Len(<<job>>) = 1 /\ <<job>>[1] = job
    OBVIOUS
  <2>2. {<<job>>[i] : i \in 1 .. Len(<<job>>)} = {job}
    BY <2>1
  <2>3. \A i, k \in 1 .. Len(<<job>>) : i < k => <<job>>[i] # <<job>>[k]
    BY <2>1
  <2>4. Segment(Each(<<job>>, api), {<<job>>[i] : i \in 1 .. Len(<<job>>)})
    BY <2>1, <2>3, EachSegment
  <2> QED BY <2>2, <2>4
<1>6. ASSUME NEW api \in BOOLEAN
      PROVE  Segment(<<[op |-> "command", job |-> PackageInstall, api |-> api]>>, {PackageInstall})
  <2> DEFINE step == [op |-> "command", job |-> PackageInstall, api |-> api]
  <2>1. step \in BuildSteps /\ step.op = "command" /\ step.job = PackageInstall /\ Runs(step)
    BY DEF BuildSteps, BuildJobs, Runs, StepNames, BuildOps
  <2> HIDE DEF step
  <2>2. Segment(<<step>>, {PackageInstall})
    BY <2>1, OneStep DEF Segment, BuildOps
  <2> QED BY <2>2 DEF step
<1>7. ASSUME NEW target \in {"prerecipe", "recipe"}, NEW api \in BOOLEAN
      PROVE  Segment(Each(Target(target), api), {<<target, m>> : m \in ModuleSet})
  <2> DEFINE jobs == Target(target)
  <2>1. Len(BuildChain) \in Nat /\ \A i \in 1 .. Len(BuildChain) : BuildChain[i] \in ModuleSet
    BY BuildChainAssumption
  <2>2. \A i \in 1 .. Len(BuildChain) : <<target, BuildChain[i]>> \in BuildJobs
    BY <2>1 DEF BuildJobs
  <2>3. /\ jobs \in Seq(BuildJobs) /\ Len(jobs) = Len(BuildChain)
        /\ \A i \in 1 .. Len(jobs) : jobs[i] = <<target, BuildChain[i]>>
    BY <2>1, <2>2 DEF Target
  <2> HIDE DEF jobs
  <2>4. \A i, k \in 1 .. Len(jobs) : i < k => jobs[i] # jobs[k]
    BY <2>1, <2>3, BuildChainAssumption
  <2>5. Segment(Each(jobs, api), {jobs[i] : i \in 1 .. Len(jobs)})
    BY <2>3, <2>4, EachSegment
  <2>6. {jobs[i] : i \in 1 .. Len(jobs)} = {<<target, m>> : m \in ModuleSet}
    BY <2>3 DEF ModuleSet
  <2> QED BY <2>5, <2>6 DEF jobs
<1> QED BY <1>1, <1>2, <1>3, <1>4, <1>5, <1>6, <1>7

(* The jobs of the build have different names. *)
LEMMA JobsDiffer ==
  /\ {Secure, Revert, PackageInstall} \cap RecipeJobs = {}
  /\ \A m, n \in ModuleSet : <<"prerecipe", m>> # <<"recipe", n>>
  /\ Secure # Revert /\ Secure # PackageInstall /\ Revert # PackageInstall
  /\ BuildJobs = {Secure, Revert, PackageInstall} \cup RecipeJobs /\ NoJob \notin BuildJobs
<1>1. \A j \in RecipeJobs : j[1] \in {"prerecipe", "recipe"}
  BY DEF RecipeJobs
<1> QED BY <1>1 DEF Secure, Revert, PackageInstall, NoJob, BuildJobs, RecipeJobs

(* _secure_ssh_access, _revert_ssh_security: nothing with contextualization. *)
LEMMA AccessSegments ==
  ASSUME bopts \in BuildOptions
  PROVE  /\ Segment(SecureAccess, IF bopts.ctx THEN {} ELSE {Secure})
         /\ Segment(RevertAccess, IF bopts.ctx \/ ~bopts.password THEN {} ELSE {Revert})
         /\ ~bopts.ctx /\ ~bopts.password => "unbound" \in OpsIn(RevertAccess)
<1>1. bopts.ctx \in BOOLEAN /\ bopts.password \in BOOLEAN
  BY DEF BuildOptions
<1>2. Secure \in BuildJobs /\ Revert \in BuildJobs
  BY JobsDiffer
<1>3. ASSUME NEW api \in BOOLEAN, NEW job \in BuildJobs
      PROVE  Segment(<<Connecting(api)>> \o Each(<<job>>, api), {job})
  BY StepSegments, SegmentsJoin
<1>4. Segment(SecureAccess, IF bopts.ctx THEN {} ELSE {Secure})
  BY <1>1, <1>2, <1>3, StepSegments DEF SecureAccess
<1>5. CASE bopts.ctx
  BY <1>1, <1>4, <1>5, StepSegments DEF RevertAccess
<1>6. CASE ~bopts.ctx /\ ~bopts.password
  BY <1>1, <1>4, <1>6, StepSegments DEF RevertAccess
<1>7. CASE ~bopts.ctx /\ bopts.password
  BY <1>1, <1>2, <1>3, <1>4, <1>7 DEF RevertAccess
<1> QED BY <1>1, <1>5, <1>6, <1>7

(* _build_image_increment: the recipes of the chain around its packages. *)
LEMMA IncrementSegment ==
  ASSUME bopts \in BuildOptions
  PROVE  /\ Segment(BuildIncrement, RecipeJobs \cup {PackageInstall}
                      \cup (IF bopts.ctx \/ ~bopts.password THEN {} ELSE {Revert}))
         /\ ~bopts.ctx /\ ~bopts.password => "unbound" \in OpsIn(BuildIncrement)
<1> DEFINE api == bopts.ctx /\ bopts.password
           Pre == {<<"prerecipe", m>> : m \in ModuleSet}
           Rec == {<<"recipe", m>> : m \in ModuleSet}
           Back == IF bopts.ctx \/ ~bopts.password THEN {} ELSE {Revert}
           s1 == <<Connecting(api)>>
           s2 == Each(Target("prerecipe"), api)
           s3 == <<[op |-> "command", job |-> PackageInstall, api |-> api]>>
           s4 == Each(Target("recipe"), api)
<1>1. bopts.ctx \in BOOLEAN /\ bopts.password \in BOOLEAN /\ api \in BOOLEAN
  BY DEF BuildOptions
<1>2. Segment(s1, {}) /\ Segment(s2, Pre) /\ Segment(s3, {PackageInstall}) /\ Segment(s4, Rec)
  BY <1>1, StepSegments
<1>3. Segment(RevertAccess, Back) /\ (~bopts.ctx /\ ~bopts.password => "unbound" \in OpsIn(RevertAccess))
  BY AccessSegments
<1>4. BuildIncrement = ((((s1 \o s2) \o s3) \o s4) \o RevertAccess)
  BY DEF BuildIncrement
<1>5. Pre \cup Rec = RecipeJobs /\ Pre \cap Rec = {}
  BY DEF RecipeJobs
<1>6. PackageInstall \notin Pre /\ PackageInstall \notin Rec /\ Revert \notin Pre \cup Rec \cup {PackageInstall}
  BY <1>5, JobsDiffer
<1> HIDE DEF s1, s2, s3, s4, Pre, Rec
<1>7. Segment(s1 \o s2, Pre)
  <2>1. Segment(s1 \o s2, {} \cup Pre)
    BY <1>2, SegmentsJoin
  <2>2. {} \cup Pre = Pre
    OBVIOUS
  <2> QED BY <2>1, <2>2
<1>8. Segment((s1 \o s2) \o s3, Pre \cup {PackageInstall})
  BY <1>2, <1>6, <1>7, SegmentsJoin
<1>9. Segment(((s1 \o s2) \o s3) \o s4, (Pre \cup {PackageInstall}) \cup Rec)
  <2>1. (Pre \cup {PackageInstall}) \cap Rec = {}
    BY <1>5, <1>6
  <2> QED BY <1>2, <1>8, <2>1, SegmentsJoin
<1>10. /\ Segment(BuildIncrement, ((Pre \cup {PackageInstall}) \cup Rec) \cup Back)
       /\ OpsIn(RevertAccess) \subseteq OpsIn(BuildIncrement)
  <2>1. ((Pre \cup {PackageInstall}) \cup Rec) \cap Back = {}
    BY <1>6
  <2> QED BY <1>3, <1>4, <1>9, <2>1, SegmentsJoin
<1>11. ((Pre \cup {PackageInstall}) \cup Rec) \cup Back = RecipeJobs \cup {PackageInstall} \cup Back
  BY <1>5
<1> QED BY <1>3, <1>10, <1>11

(* onExecuting: all the jobs of the image, each of them once, before it is saved. *)
LEMMA ImageSteps ==
  ASSUME bopts \in BuildOptions
  PROVE  LET todo == StateOps("Executing") IN
         /\ todo \in Seq(BuildSteps) /\ Tidy(todo) /\ JobsIn(todo) = ImageJobs
         /\ "save" \in OpsIn(todo) /\ "itself" \notin OpsIn(todo) /\ "start" \notin OpsIn(todo)
         /\ ~bopts.ctx /\ ~bopts.password => "unbound" \in OpsIn(todo)
<1> DEFINE Sec == IF bopts.ctx THEN {} ELSE {Secure}
           Inc == RecipeJobs \cup {PackageInstall}
                    \cup (IF bopts.ctx \/ ~bopts.password THEN {} ELSE {Revert})
           check == <<BOp("check")>>
           last == <<BOp("snapshot"), BOp("save")>>
           ends == <<BOp("machine"), BOp("orch")>>
           work == SecureAccess \o BuildIncrement
<1>1. Segment(work, Sec \cup Inc) /\ OpsIn(work) = OpsIn(SecureAccess) \cup OpsIn(BuildIncrement)
  <2>1. Sec \cap Inc = {}
    BY JobsDiffer
  <2>2. Segment(SecureAccess, Sec) /\ Segment(BuildIncrement, Inc)
    BY AccessSegments, IncrementSegment
  <2> HIDE DEF Sec, Inc
  <2> QED BY <2>1, <2>2, SegmentsJoin
<1>2. Sec \cup Inc = ImageJobs
  BY DEF ImageJobs
<1>3. /\ last \in Seq(BuildSteps) /\ Tidy(last) /\ JobsIn(last) = {} /\ OpsIn(last) = {"snapshot", "save"}
  <2>1. /\ BOp("snapshot") \in BuildSteps /\ BOp("snapshot").op = "snapshot" /\ ~Runs(BOp("snapshot"))
        /\ BOp("save") \in BuildSteps /\ BOp("save").op = "save" /\ ~Runs(BOp("save"))
    BY StepIs DEF StepNames, BuildOps
  <2>2. /\ last \in Seq(BuildSteps) /\ Len(last) = 2 /\ last[1] = BOp("snapshot") /\ last[2] = BOp("save")
    BY <2>1
  <2>3. 1 .. Len(last) = {1, 2}
    BY <2>2
  <2> HIDE DEF last
  <2>4. Tidy(last)
    BY <2>1, <2>2, <2>3 DEF Tidy
  <2>5. JobsIn(last) = {}
    BY <2>1, <2>2, <2>3 DEF JobsIn
  <2>6. OpsIn(last) = {"snapshot", "save"}
    BY <2>1, <2>2, <2>3 DEF OpsIn
  <2> QED BY <2>2, <2>4, <2>5, <2>6
<1>4. /\ ends \in Seq(BuildSteps) /\ Tidy(ends) /\ JobsIn(ends) = {} /\ OpsIn(ends) = {"machine", "orch"}
  <2>1. ends \in Seq(BuildSteps) /\ Tidy(ends) /\ JobsIn(ends) = {}
    BY LateSteps DEF LatePlans
  <2>2. /\ BOp("machine") \in BuildSteps /\ BOp("machine").op = "machine"
        /\ BOp("orch") \in BuildSteps /\ BOp("orch").op = "orch"
    BY StepIs DEF StepNames
  <2>3. Len(ends) = 2 /\ ends[1] = BOp("machine") /\ ends[2] = BOp("orch") /\ 1 .. 2 = {1, 2}
    OBVIOUS
  <2> HIDE DEF ends
  <2> QED BY <2>1, <2>2, <2>3 DEF OpsIn
<1>5. check \in Seq(BuildSteps) /\ Tidy(check) /\ JobsIn(check) = {} /\ OpsIn(check) = {"check"}
  <2>1. BOp("check") \in BuildSteps /\ BOp("check").op = "check" /\ ~Runs(BOp("check"))
    BY StepIs DEF StepNames
  <2> QED BY <2>1, OneStep
<1>6. StateOps("Executing") = (check \o (work \o last)) \o ends
  BY DEF StateOps, BuildImage
<1> HIDE DEF check, last, ends, work, Sec, Inc
<1>7. ASSUME NEW s \in Seq(BuildSteps), NEW t \in Seq(BuildSteps), Tidy(s), Tidy(t),
             JobsIn(s) = {} \/ JobsIn(t) = {}, "itself" \notin OpsIn(s),
             "save" \notin OpsIn(s) \/ OpsIn(t) \cap BuildOps = {}
      PROVE  /\ s \o t \in Seq(BuildSteps) /\ Tidy(s \o t)
             /\ JobsIn(s \o t) = JobsIn(s) \cup JobsIn(t) /\ OpsIn(s \o t) = OpsIn(s) \cup OpsIn(t)
  <2>1. JobsIn(s) \cap JobsIn(t) = {}
    BY <1>7
  <2> QED BY <1>7, <2>1, StepsAfter
<1>8. /\ work \in Seq(BuildSteps) /\ Tidy(work) /\ JobsIn(work) = ImageJobs
      /\ OpsIn(work) \subseteq BuildOps \ {"save"}
  BY <1>1, <1>2 DEF Segment
<1>9. LET s == work \o last IN
      /\ s \in Seq(BuildSteps) /\ Tidy(s) /\ JobsIn(s) = ImageJobs
      /\ "save" \in OpsIn(s) /\ OpsIn(s) \subseteq BuildOps /\ OpsIn(work) \subseteq OpsIn(s)
  <2>1. "save" \notin OpsIn(work) /\ "itself" \notin OpsIn(work) /\ {"snapshot", "save"} \subseteq BuildOps
    BY <1>8 DEF BuildOps
  <2>2. /\ work \o last \in Seq(BuildSteps) /\ Tidy(work \o last)
        /\ JobsIn(work \o last) = ImageJobs \cup {}
        /\ OpsIn(work \o last) = OpsIn(work) \cup {"snapshot", "save"}
    BY <1>3, <1>7, <1>8, <2>1
  <2> QED BY <1>8, <2>1, <2>2
<1>10. LET s == (check \o (work \o last)) \o ends IN
       /\ s \in Seq(BuildSteps) /\ Tidy(s) /\ JobsIn(s) = ImageJobs
       /\ "save" \in OpsIn(s) /\ OpsIn(s) \subseteq BuildOps \cup {"check", "machine", "orch"}
       /\ OpsIn(work) \subseteq OpsIn(s)
  <2> DEFINE ci == check \o (work \o last)
  <2>1. /\ ci \in Seq(BuildSteps) /\ Tidy(ci) /\ JobsIn(ci) = {} \cup ImageJobs
        /\ OpsIn(ci) = {"check"} \cup OpsIn(work \o last)
    BY <1>5, <1>7, <1>9
  <2>2. "itself" \notin OpsIn(ci) /\ OpsIn(ends) \cap BuildOps = {}
    BY <1>4, <1>9, <2>1 DEF BuildOps
  <2> HIDE DEF ci
  <2>3. /\ ci \o ends \in Seq(BuildSteps) /\ Tidy(ci \o ends)
        /\ JobsIn(ci \o ends) = ({} \cup ImageJobs) \cup {}
        /\ OpsIn(ci \o ends) = ({"check"} \cup OpsIn(work \o last)) \cup {"machine", "orch"}
    <3>1. /\ ci \in Seq(BuildSteps) /\ ends \in Seq(BuildSteps) /\ Tidy(ci) /\ Tidy(ends)
          /\ JobsIn(ci) \cap JobsIn(ends) = {}
          /\ "save" \notin OpsIn(ci) \/ OpsIn(ends) \cap BuildOps = {}
      BY <1>4, <2>1, <2>2
    <3>2. /\ ci \o ends \in Seq(BuildSteps) /\ Tidy(ci \o ends)
          /\ JobsIn(ci \o ends) = JobsIn(ci) \cup JobsIn(ends)
          /\ OpsIn(ci \o ends) = OpsIn(ci) \cup OpsIn(ends)
      BY <2>2, <3>1, StepsAfter
    <3> QED BY <1>4, <2>1, <3>2
  <2>4. ({} \cup ImageJobs) \cup {} = ImageJobs
    OBVIOUS
  <2>5. ({"check"} \cup OpsIn(work \o last)) \cup {"machine", "orch"} \subseteq BuildOps \cup {"check", "machine", "orch"}
    BY <1>9
  <2> QED BY <1>9, <2>3, <2>4, <2>5 DEF ci
<1>11. ~bopts.ctx /\ ~bopts.password => "unbound" \in OpsIn(work)
  BY <1>1, IncrementSegment
<1>12. "itself" \notin BuildOps \cup {"check", "machine", "orch"}
       /\ "start" \notin BuildOps \cup {"check", "machine", "orch"}
  BY DEF BuildOps
<1> QED BY <1>6, <1>10, <1>11, <1>12

(* The steps of the other states build nothing. *)
LEMMA OtherSteps ==
  ASSUME NEW state \in States, state # "Executing"
  PROVE  LET todo == StateOps(state) IN
         /\ todo \in Seq(BuildSteps) /\ Tidy(todo) /\ JobsIn(todo) = {} /\ OpsIn(todo) \cap BuildOps = {}
         /\ "itself" \in OpsIn(todo) => "start" \notin OpsIn(todo) /\ "creator" \in OpsIn(todo)
<1>1. CASE state = "Finalizing"
  BY <1>1, FinalSteps DEF StateOps
<1>2. CASE state # "Finalizing"
  <2>1. StateOps(state) \in LatePlans
    BY <1>2 DEF StateOps, LatePlans, States
  <2> QED BY <2>1, LateSteps
<1> QED BY <1>1, <1>2

-----------------------------------------------------------------------------
(* What the steps of the build keep. *)

(* The record of the executor and its run. *)
LEMMA BuildRecords ==
  ASSUME BuildTypes
  PROVE  /\ border.pc \in {"run", "dead"} /\ border.in \in States /\ border.todo \in Seq(BuildSteps)
         /\ border.guarded \in BOOLEAN /\ brun.state \in States /\ brun.done \subseteq {"machine", "orch"}
         /\ brun.abort \in BOOLEAN /\ brun.ever \in BOOLEAN /\ brun.saved \in BOOLEAN
         /\ bopts.ctx \in BOOLEAN /\ bopts.password \in BOOLEAN
         /\ bvms.creator \in {"none", "up", "down"} /\ bvms.orch \in {"up", "down"}
BY DEF BuildTypes, BuildRuns, Borders, BuildOptions

(* The executor goes on with something else to do. *)
LEMMA CarryTo ==
  ASSUME BuildTypes, NEW todo \in Seq(BuildSteps), Carry(todo)
  PROVE  /\ border' \in Borders /\ border'.todo = todo /\ border'.pc = border.pc
         /\ border'.in = border.in /\ border'.guarded = border.guarded
BY DEF BuildTypes, Carry, Borders

(* ... with what is left. *)
LEMMA CarriedTo ==
  ASSUME BuildTypes, border.todo # << >>, Carried
  PROVE  /\ border' \in Borders /\ border'.todo = Tail(border.todo) /\ Tidy(border'.todo)
         /\ border'.pc = border.pc /\ border'.in = border.in /\ border'.guarded = border.guarded
<1>1. border.todo \in Seq(BuildSteps) /\ Tidy(border.todo)
  BY BuildRecords DEF BuildTypes
<1>2. Tail(border.todo) \in Seq(BuildSteps) /\ Tidy(Tail(border.todo))
  BY <1>1, StepDone
<1> QED BY <1>2, CarryTo DEF Carried

(* ... with one of the short plans. *)
LEMMA CarryLate ==
  ASSUME BuildTypes, NEW todo \in LatePlans, Carry(todo)
  PROVE  /\ border' \in Borders /\ border'.todo = todo /\ Tidy(border'.todo)
         /\ border'.pc = border.pc /\ border'.in = border.in
BY LateSteps, CarryTo

(* An error in a handler. *)
LEMMA ErrorTo ==
  ASSUME BuildTypes, HandleError
  PROVE  /\ border' \in Borders /\ border'.todo \in LatePlans /\ Tidy(border'.todo)
         /\ border'.in = border.in
<1>1. ASSUME NEW todo \in LatePlans, NEW pc \in {"run", "dead"}, NEW guarded \in BOOLEAN,
             border' = [border EXCEPT !.pc = pc, !.guarded = guarded, !.todo = todo]
      PROVE  border' \in Borders /\ border'.todo = todo /\ border'.in = border.in
  <2>1. todo \in Seq(BuildSteps)
    BY LateSteps
  <2> QED BY <1>1, <2>1 DEF BuildTypes, Borders
<1>2. border \in Borders /\ border.pc \in {"run", "dead"} /\ border.guarded \in BOOLEAN
  BY BuildRecords DEF BuildTypes
<1>3. PICK todo \in LatePlans, pc \in {"run", "dead"}, guarded \in BOOLEAN :
        border' = [border EXCEPT !.pc = pc, !.guarded = guarded, !.todo = todo]
  <2>1. CASE ~Guarded
    <3>1. border' = [border EXCEPT !.pc = "dead", !.guarded = border.guarded, !.todo = << >>]
      BY <1>2, <2>1 DEF HandleError, Borders
    <3> QED BY <1>2, <3>1 DEF LatePlans
  <2>2. CASE Guarded /\ border.in \in Final
    <3>1. <<BOp("send"), BOp("machine")>> \o << >> = <<BOp("send"), BOp("machine")>>
      OBVIOUS
    <3>2. border' = [border EXCEPT !.pc = border.pc, !.guarded = FALSE, !.todo = <<BOp("send"), BOp("machine")>>]
      BY <1>2, <2>2, <3>1 DEF HandleError, Borders
    <3> QED BY <1>2, <3>2 DEF LatePlans
  <2>3. CASE Guarded /\ border.in \notin Final
    <3>1. <<BOp("send"), BOp("machine")>> \o <<BOp("orch")>> = <<BOp("send"), BOp("machine"), BOp("orch")>>
      <4>1. ASSUME NEW a, NEW b, NEW c PROVE <<a, b>> \o <<c>> = <<a, b, c>>
        <5> DEFINE S == {a, b, c}
        <5>1. <<a, b>> \in Seq(S) /\ <<c>> \in Seq(S) /\ <<a, b, c>> \in Seq(S)
          OBVIOUS
        <5>2. Len(<<a, b>>) = 2 /\ Len(<<c>>) = 1 /\ Len(<<a, b, c>>) = 3
          OBVIOUS
        <5>3. /\ <<a, b>> \o <<c>> \in Seq(S) /\ Len(<<a, b>> \o <<c>>) = 3
              /\ \A i \in 1 .. 3 : (<<a, b>> \o <<c>>)[i] = IF i <= 2 THEN <<a, b>>[i] ELSE <<c>>[i - 2]
          BY <5>1, <5>2, ConcatProperties
        <5>4. \A i \in 1 .. 3 : (<<a, b>> \o <<c>>)[i] = <<a, b, c>>[i]
          BY <5>3
        <5> QED BY <5>1, <5>2, <5>3, <5>4, SeqEqual
      <4> QED BY <4>1
    <3>2. border' = [border EXCEPT !.pc = border.pc, !.guarded = FALSE,
                                   !.todo = <<BOp("send"), BOp("machine"), BOp("orch")>>]
      BY <1>2, <2>3, <3>1 DEF HandleError, Borders
    <3> QED BY <1>2, <3>2 DEF LatePlans
  <2> QED BY <2>1, <2>2, <2>3
<1>4. border' \in Borders /\ border'.todo = todo /\ border'.in = border.in
  BY <1>1, <1>3
<1> QED BY <1>4, LateSteps

(* No call is under way, unless the step to do makes one. *)
LEMMA IdleUnlessCalling ==
  ASSUME InCall, Doing.op \notin {"connect", "script", "command"} \/ border.todo = << >>
  PROVE  ssh.pc = "idle"
<1>1. CASE border.todo = << >>
  <2>1. OpsIn(border.todo) = {}
    BY <1>1 DEF OpsIn
  <2> QED BY <2>1 DEF InCall, Imaging
<1>2. CASE Doing.op \notin {"connect", "script", "command"}
  BY <1>2 DEF InCall, Runs
<1> QED BY <1>1, <1>2

(* The build is given up or over: what was done to the VM stays, and the image is not saved. *)
LEMMA LateImage ==
  ASSUME BuildTypes, ImageInv, ssh'.pc = "idle", vm' = vm, bopts' = bopts,
         border'.todo \in LatePlans, border'.in = border.in,
         brun'.state = brun.state, brun'.saved = brun.saved
  PROVE  ImageInv'
<1>1. OpsIn(border.todo)' \cap BuildOps = {} /\ "save" \notin OpsIn(border.todo)'
  <2>1. OpsIn(border'.todo) \cap BuildOps = {}
    BY LateSteps
  <2> QED BY <2>1 DEF OpsIn, BuildOps
<1>2. ~Imaging'
  BY <1>1 DEF Imaging
<1>3. ImageIsWhole' /\ (border.in = "Provisioning" => ~brun.saved /\ NoneRan)'
  BY DEF ImageInv, ImageIsWhole, NeedsStep, NoneRan
<1>4. (Rank[border.in] <= Rank[brun.state])' /\ (\A j \in SshJobs \ BuildJobs : vm.ran[j] = 0)'
  BY DEF ImageInv
<1> QED BY <1>1, <1>2, <1>3, <1>4 DEF ImageInv, InCall

(* A step of the build is done, or left out as it should be. *)
LEMMA CarriedImage ==
  ASSUME BuildTypes, ImageInv, border.todo # << >>, Carried, ssh'.pc = "idle", vm' = vm, bopts' = bopts,
         brun'.state = brun.state, brun'.saved = brun.saved \/ Doing.op = "save",
         Doing.op # "unbound",
         Runs(Doing) => Skipped(Doing.job) \/ (ssh.pc = "ok" /\ ssh.job = Doing.job),
         ImageIsWhole'
  PROVE  ImageInv'
<1> DEFINE rest == Tail(border.todo)
<1>1. /\ border'.todo = rest /\ border'.in = border.in
      /\ OpsIn(border.todo) = OpsIn(rest) \cup {Doing.op}
      /\ JobsIn(border.todo) = JobsIn(rest) \cup (IF Runs(Doing) THEN {Doing.job} ELSE {})
      /\ Runs(Doing) => Doing.job \notin JobsIn(rest)
      /\ Doing.op = "save" => OpsIn(rest) \cap BuildOps = {}
  <2>1. border.todo \in Seq(BuildSteps) /\ Tidy(border.todo)
    BY BuildRecords DEF BuildTypes
  <2>2. border'.todo = rest /\ border'.in = border.in
    BY CarriedTo
  <2> HIDE DEF rest
  <2> QED BY <2>1, <2>2, StepDone DEF rest, Doing
<1>2. OpsIn(border.todo)' = OpsIn(rest) /\ JobsIn(border.todo)' = JobsIn(rest)
  BY <1>1 DEF OpsIn, JobsIn
<1> HIDE DEF rest
<1>3. Imaging' => Imaging /\ Doing.op # "save"
  BY <1>1, <1>2 DEF Imaging, BuildOps
<1>4. ~Imaging' => OpsIn(rest) \cap BuildOps = {}
  BY <1>1, <1>2 DEF Imaging, ImageInv, BuildOps
<1>5. Imaging' => ~brun'.saved
  BY <1>3 DEF ImageInv
<1>6. /\ ImageJobs' = ImageJobs
      /\ \A j : Skipped(j)' <=> Skipped(j)
      /\ Wanted' = Wanted
  BY DEF ImageJobs, Skipped, NeedsStep, Wanted
<1>7. Imaging' => Progress'
  <2> SUFFICES ASSUME Imaging' PROVE Progress'
    OBVIOUS
  <2>1. Progress /\ Imaging
    BY <1>3 DEF ImageInv
  <2>2. ASSUME NEW j \in BuildJobs, Returned(j), j \in JobsIn(rest) PROVE FALSE
    <3>1. ssh.pc # "idle" /\ ssh.job = j
      BY <2>2 DEF Returned
    <3>2. Runs(Doing) /\ Doing.job = j
      BY <3>1, JobsDiffer DEF ImageInv, InCall
    <3> QED BY <1>1, <2>2, <3>2
  <2>3. ASSUME NEW j \in BuildJobs
        PROVE  /\ vm.ran[j] > 0 => j \in Wanted /\ j \notin JobsIn(rest)
               /\ j \in Wanted => vm.ran[j] > 0 \/ j \in JobsIn(rest)
               /\ ~vm.tty => vm.ran[j] <= 1
    <3>1. vm.ran[j] > 0 => j \in Wanted /\ j \notin JobsIn(rest)
      BY <1>1, <2>1, <2>2 DEF Progress
    <3>2. j \in Wanted => ~Skipped(j)
      BY DEF Wanted
    <3>3. j \in Wanted => vm.ran[j] > 0 \/ j \in JobsIn(rest)
      BY <1>1, <2>1, <3>2 DEF Progress
    <3> QED BY <2>1, <3>1, <3>3 DEF Progress
  <2>4. \A j \in BuildJobs : ~Returned(j)' /\ ~(ssh.pc = "ok" /\ ssh.job = j)'
    BY DEF Returned
  <2>5. (bopts.ctx \/ bopts.password \/ "unbound" \in OpsIn(border.todo))'
    BY <1>1, <1>2, <2>1 DEF Progress
  <2>6. JobsIn(rest) \subseteq ImageJobs
    BY <1>1, <2>1 DEF Progress
  <2>7. vm' = vm
    OBVIOUS
  <2> QED BY <1>2, <1>6, <2>3, <2>4, <2>5, <2>6, <2>7 DEF Progress
<1>8. (border.in = "Provisioning" => ~brun.saved /\ NoneRan)'
  <2>1. border.in = "Provisioning" => Doing.op # "save"
    BY <1>1 DEF ImageInv, Imaging, BuildOps
  <2> QED BY <1>1, <2>1 DEF ImageInv, NoneRan
<1>9. (Rank[border.in] <= Rank[brun.state])' /\ (\A j \in SshJobs \ BuildJobs : vm.ran[j] = 0)'
  BY <1>1 DEF ImageInv
<1> QED BY <1>2, <1>4, <1>5, <1>7, <1>8, <1>9 DEF ImageInv, InCall

-----------------------------------------------------------------------------
(* When the image is saved, nothing is left to do to it: it is whole. *)
LEMMA SavedIsWhole ==
  ASSUME BuildTypes, ImageInv, border.todo # << >>, Doing.op = "save"
  PROVE  (\A target \in {"prerecipe", "recipe"}, i \in 1 .. Len(BuildChain) :
             (vm.ran[<<target, BuildChain[i]>>] > 0) <=> NeedsStep(i))
         /\ vm.ran[PackageInstall] > 0
         /\ (vm.ran[Secure] > 0 <=> vm.ran[Revert] > 0)
         /\ (~vm.tty => \A j \in BuildJobs : vm.ran[j] <= 1)
<1> DEFINE rest == Tail(border.todo)
<1>1. border.todo \in Seq(BuildSteps) /\ Tidy(border.todo)
  BY BuildRecords DEF BuildTypes
<1>2. /\ rest \in Seq(BuildSteps) /\ OpsIn(border.todo) = OpsIn(rest) \cup {"save"}
      /\ JobsIn(border.todo) = JobsIn(rest) /\ OpsIn(rest) \cap BuildOps = {}
  <2>1. ~Runs(Head(border.todo)) /\ Head(border.todo).op = "save"
    BY DEF Runs, Doing
  <2> HIDE DEF rest
  <2>2. /\ rest \in Seq(BuildSteps) /\ OpsIn(border.todo) = OpsIn(rest) \cup {Head(border.todo).op}
        /\ JobsIn(border.todo)
             = JobsIn(rest) \cup (IF Runs(Head(border.todo)) THEN {Head(border.todo).job} ELSE {})
        /\ Head(border.todo).op = "save" => OpsIn(rest) \cap BuildOps = {}
    BY <1>1, StepDone DEF rest
  <2> QED BY <2>1, <2>2
<1> HIDE DEF rest
<1>3. JobsIn(border.todo) = {}
  <2>1. \A i \in 1 .. Len(rest) : rest[i].op \in OpsIn(rest)
    BY DEF OpsIn
  <2>2. \A i \in 1 .. Len(rest) : rest[i].op \notin {"script", "command"}
    BY <1>2, <2>1 DEF BuildOps
  <2>3. JobsIn(rest) = {}
    BY <2>2 DEF JobsIn, Runs
  <2> QED BY <1>2, <2>3
<1>4. Imaging /\ Progress
  <2>1. "save" \in OpsIn(border.todo) /\ "save" \in BuildOps
    BY <1>2 DEF BuildOps
  <2> QED BY <2>1 DEF ImageInv, Imaging
<1>5. bopts.ctx \/ bopts.password
  <2>1. "unbound" \notin OpsIn(border.todo)
    BY <1>2 DEF BuildOps
  <2> QED BY <1>4, <2>1 DEF Progress
<1>6. \A j \in BuildJobs : (vm.ran[j] > 0 <=> j \in Wanted) /\ (~vm.tty => vm.ran[j] <= 1)
  BY <1>3, <1>4 DEF Progress
<1>7. ASSUME NEW target \in {"prerecipe", "recipe"}, NEW i \in 1 .. Len(BuildChain)
      PROVE  (vm.ran[<<target, BuildChain[i]>>] > 0) <=> NeedsStep(i)
  <2>1. BuildChain[i] \in ModuleSet
    BY DEF ModuleSet
  <2>2. <<target, BuildChain[i]>> \in RecipeJobs
    BY <2>1 DEF RecipeJobs
  <2>3. <<target, BuildChain[i]>> \in BuildJobs /\ <<target, BuildChain[i]>> \in ImageJobs
    BY <2>2, JobsDiffer DEF ImageJobs
  <2>4. Skipped(<<target, BuildChain[i]>>) <=> ~NeedsStep(i)
    <3>1. ASSUME NEW k \in 1 .. Len(BuildChain), NEW other \in {"prerecipe", "recipe"},
                 <<target, BuildChain[i]>> = <<other, BuildChain[k]>>
          PROVE  k = i
      BY <3>1, BuildChainAssumption
    <3> QED BY <3>1 DEF Skipped
  <2> QED BY <1>6, <2>3, <2>4 DEF Wanted
<1>8. \A j \in {PackageInstall, Secure, Revert} : j \in BuildJobs /\ ~Skipped(j)
  <2>1. \A i \in 1 .. Len(BuildChain), target \in {"prerecipe", "recipe"} :
          <<target, BuildChain[i]>> \in RecipeJobs
    BY DEF RecipeJobs, ModuleSet
  <2> QED BY <2>1, JobsDiffer DEF Skipped
<1>9. PackageInstall \in Wanted
  BY <1>8 DEF Wanted, ImageJobs
<1>10. Secure \in Wanted <=> ~bopts.ctx
  BY <1>8, JobsDiffer DEF Wanted, ImageJobs
<1>11. Revert \in Wanted <=> ~bopts.ctx
  BY <1>5, <1>8, JobsDiffer DEF Wanted, ImageJobs
<1> QED BY <1>6, <1>7, <1>8, <1>9, <1>10, <1>11

(* A call in the foreground goes on: it runs its job, if at all, as its last step. *)
LEMMA SshMoves ==
  ASSUME SshInv, SshStep, ~ssh.nohup, ssh.pc \notin {"atd", "which"}
  PROVE  /\ ssh'.job = ssh.job /\ ssh'.nohup = ssh.nohup
         /\ ssh.pc \in {"connect", "copy", "chmod", "run"}
         /\ ssh.pc = "connect" => ssh'.pc \in {"connect", "ok", "raised"} /\ vm' = vm
         /\ ssh.pc \in {"copy", "chmod"} => ssh'.pc \in {"copy", "chmod", "run", "raised"} /\ vm' = vm
         /\ ssh.pc = "run" =>
              \E n \in Nat : /\ vm' = [vm EXCEPT !.ran[ssh.job] = @ + n]
                             /\ ssh'.pc \in {"ok", "raised"} /\ (ssh'.pc = "ok" => n > 0)
                             /\ ~vm.tty => n <= 1
<1>1. \A pc : SshTo(pc) => ssh'.pc = pc /\ ssh'.job = ssh.job /\ ssh'.nohup = ssh.nohup
  BY DEF SshTo, SshInv, SshCallTypes
<1>2. ssh \in SshCallTypes
  BY DEF SshInv
<1>3. CASE SshConnect
  <2>1. \/ SshTo("ok") \/ SshTo("raised")
        \/ \E pc \in {"raised", "connect"}, left, auth \in Int :
             ssh' = [ssh EXCEPT !.pc = pc, !.left = left, !.auth = auth]
    <3>1. ssh.pc = "connect"
      BY <1>3 DEF SshConnect, SshAt
    <3>2. PICK outcome \in {"connected", "retry", "auth", "raise"} :
          \/ SshTo("ok") \/ SshTo("raised")
          \/ ssh' = [ssh EXCEPT !.pc = IF ssh.left = 1 THEN "raised" ELSE @, !.left = @ - 1,
                                !.auth = IF outcome = "auth" THEN @ - 1 ELSE @]
      BY <1>3, Zenon DEF SshConnect
    <3>3. /\ (IF ssh.left = 1 THEN "raised" ELSE ssh.pc) \in {"raised", "connect"}
          /\ ssh.left - 1 \in Int /\ (IF outcome = "auth" THEN ssh.auth - 1 ELSE ssh.auth) \in Int
      BY <1>2, <3>1 DEF SshCallTypes
    <3> QED BY <3>2, <3>3
  <2>2. \A pc \in {"raised", "connect"}, left, auth \in Int :
          ssh' = [ssh EXCEPT !.pc = pc, !.left = left, !.auth = auth]
            => ssh'.pc = pc /\ ssh'.job = ssh.job /\ ssh'.nohup = ssh.nohup
    BY <1>2 DEF SshCallTypes
  <2>3. vm' = vm /\ ssh.pc = "connect"
    BY <1>3 DEF SshConnect, SshAt
  <2> QED BY <1>1, <2>1, <2>2, <2>3
<1>4. CASE SshCopy
  <2>1. ASSUME ssh' = [ssh EXCEPT !.copies = @ - 1]
        PROVE  ssh'.pc = ssh.pc /\ ssh'.job = ssh.job /\ ssh'.nohup = ssh.nohup
    BY <1>2, <2>1 DEF SshCallTypes
  <2> QED BY <1>1, <1>4, <2>1 DEF SshCopy, SshAt
<1>5. CASE SshChmod
  BY <1>1, <1>5 DEF SshChmod, SshAt
<1>6. CASE SshRun
  <2>1. Executions \in Nat /\ Executions > 0 /\ (~vm.tty => Executions <= 1)
    BY DEF Executions
  <2>2. ssh.pc = "run"
    BY <1>6 DEF SshRun, SshAt
  <2>3. PICK n \in Nat :
          Ran(n) /\ (~vm.tty => n <= 1) /\ ((SshTo("ok") /\ n > 0) \/ SshTo("raised"))
    BY <1>6, <2>1 DEF SshRun
  <2> QED BY <1>1, <2>2, <2>3 DEF Ran
<1>7. ~SshQueue
  BY DEF SshQueue
<1>8. ~SshStartAtd /\ ~SshBackground
  BY DEF SshStartAtd, SshBackground, SshAt
<1> QED BY <1>3, <1>4, <1>5, <1>6, <1>7, <1>8 DEF SshStep

(* An abort of the run. *)
RunKept(run) ==
  /\ run \in BuildRuns /\ run.state = brun.state /\ run.saved = brun.saved
  /\ (brun.ever => run.ever) /\ (run.abort => run.ever)
LEMMA RunsKept ==
  ASSUME BuildTypes, LeaveInv
  PROVE  /\ RunKept(brun) /\ RunKept(Aborted(brun)) /\ RunKept(RunToStop)
         /\ \A done \in SUBSET {"machine", "orch"} :
              /\ RunKept([brun EXCEPT !.done = done])
              /\ RunKept(Aborted([brun EXCEPT !.done = done]))
         /\ RunKept([brun EXCEPT !.abort = FALSE])
         /\ LET run == [brun EXCEPT !.saved = TRUE] IN
              /\ run \in BuildRuns /\ run.state = brun.state /\ (brun.ever => run.ever)
              /\ run.abort => run.ever
<1>1. brun \in BuildRuns /\ (brun.abort => brun.ever)
  BY DEF BuildTypes, LeaveInv
<1>2. RunKept(brun) /\ RunKept(Aborted(brun))
  BY <1>1 DEF RunKept, Aborted, BuildRuns
<1>3. RunKept(RunToStop)
  BY <1>2 DEF RunToStop
<1>4. ASSUME NEW done \in SUBSET {"machine", "orch"}
      PROVE  RunKept([brun EXCEPT !.done = done]) /\ RunKept(Aborted([brun EXCEPT !.done = done]))
  BY <1>1 DEF RunKept, Aborted, BuildRuns
<1>5. RunKept([brun EXCEPT !.abort = FALSE])
  BY <1>1 DEF RunKept, BuildRuns
<1>6. LET run == [brun EXCEPT !.saved = TRUE] IN
        /\ run \in BuildRuns /\ run.state = brun.state /\ (brun.ever => run.ever)
        /\ run.abort => run.ever
  BY <1>1 DEF BuildRuns
<1> QED BY <1>2, <1>3, <1>4, <1>5, <1>6

(* The executor does one thing, or gives up what it was at. *)
LEMMA DoneLeave ==
  ASSUME BuildTypes, LeaveInv, bvms.orch = "up", border.todo # << >>, Carried, bopts' = bopts,
         brun.ever => brun'.ever, brun'.abort => brun'.ever,
         bvms'.orch = "up",
         bvms'.creator = bvms.creator \/ Doing.op = "start" \/ bvms'.creator = "down",
         Doing.op = "creator" => CreatorGone'
  PROVE  LeaveInv'
<1> DEFINE rest == Tail(border.todo)
<1>1. border'.todo = rest /\ OpsIn(border.todo) = OpsIn(rest) \cup {Doing.op}
  <2>1. border.todo \in Seq(BuildSteps) /\ Tidy(border.todo)
    BY BuildRecords DEF BuildTypes
  <2>2. border'.todo = rest
    BY CarriedTo
  <2> HIDE DEF rest
  <2> QED BY <2>1, <2>2, StepDone DEF rest, Doing
<1>2. OpsIn(border.todo)' = OpsIn(rest)
  BY <1>1 DEF OpsIn
<1> HIDE DEF rest
<1>3. ("itself" \in OpsIn(border.todo) =>
         "start" \notin OpsIn(border.todo) /\ ("creator" \in OpsIn(border.todo) \/ CreatorGone))'
  <2> SUFFICES ASSUME "itself" \in OpsIn(rest)
               PROVE  "start" \notin OpsIn(rest) /\ ("creator" \in OpsIn(rest) \/ CreatorGone')
    BY <1>2
  <2>1. "start" \notin OpsIn(border.todo) /\ ("creator" \in OpsIn(border.todo) \/ CreatorGone)
    BY <1>1 DEF LeaveInv
  <2>2. CreatorGone => CreatorGone'
    BY <1>1, <2>1 DEF CreatorGone, Kept
  <2> QED BY <1>1, <2>1, <2>2
<1>4. BuildLeavesNoVm'
  BY DEF BuildLeavesNoVm
<1> QED BY <1>3, <1>4 DEF LeaveInv

LEMMA LateLeave ==
  ASSUME LeaveInv, border'.todo \in LatePlans, bopts' = bopts, bvms'.orch = bvms.orch,
         brun.ever => brun'.ever, brun'.abort => brun'.ever,
         bvms' = bvms \/ bvms.orch = "up"
  PROVE  LeaveInv'
<1>1. "itself" \notin OpsIn(border.todo)'
  <2>1. "itself" \notin OpsIn(border'.todo)
    BY LateSteps
  <2> QED BY <2>1 DEF OpsIn
<1>2. BuildLeavesNoVm'
  BY DEF BuildLeavesNoVm, LeaveInv
<1> QED BY <1>1, <1>2 DEF LeaveInv

LEMMA SameLeave ==
  ASSUME LeaveInv, border' = border, bopts' = bopts, bvms' = bvms,
         brun.ever => brun'.ever, brun'.abort => brun'.ever
  PROVE  LeaveInv'
BY DEF LeaveInv, OpsIn, BuildLeavesNoVm, CreatorGone, Kept

(* Both at once. *)
LEMMA GivenUp ==
  ASSUME BuildInv, ssh'.pc = "idle", SshInv', vm' = vm, bopts' = bopts,
         border' \in Borders, Tidy(border'.todo), border'.todo \in LatePlans, border'.in = border.in,
         RunKept(brun'), bvms' \in [creator : {"none", "up", "down"}, orch : {"up", "down"}],
         bvms'.orch = bvms.orch, bvms' = bvms \/ bvms.orch = "up", bfaults' \in 0 .. MaxBuildFaults
  PROVE  BuildInv'
<1>1. BuildTypes'
  <2>1. Tidy(border.todo)'
    BY DEF Tidy
  <2> QED BY <2>1 DEF BuildInv, BuildTypes, RunKept
<1>2. ImageInv'
  BY LateImage DEF BuildInv, RunKept
<1>3. LeaveInv'
  BY LateLeave DEF BuildInv, RunKept
<1> QED BY <1>1, <1>2, <1>3 DEF BuildInv

LEMMA WentOn ==
  ASSUME BuildInv, ssh'.pc = "idle", SshInv', vm' = vm, bopts' = bopts,
         bvms.orch = "up", border.todo # << >>, Carried, RunKept(brun'),
         Doing.op # "unbound",
         Runs(Doing) => Skipped(Doing.job) \/ (ssh.pc = "ok" /\ ssh.job = Doing.job),
         bvms' \in [creator : {"none", "up", "down"}, orch : {"up", "down"}], bvms'.orch = "up",
         bvms'.creator = bvms.creator \/ Doing.op = "start" \/ bvms'.creator = "down",
         Doing.op = "creator" => CreatorGone',
         bfaults' \in 0 .. MaxBuildFaults
  PROVE  BuildInv'
<1>1. BuildTypes'
  <2>1. border' \in Borders /\ Tidy(border'.todo)
    BY CarriedTo DEF BuildInv
  <2>2. Tidy(border.todo)'
    BY <2>1 DEF Tidy
  <2> QED BY <2>1, <2>2 DEF BuildInv, BuildTypes, RunKept
<1>2. ImageIsWhole'
  BY DEF BuildInv, ImageInv, ImageIsWhole, NeedsStep, RunKept
<1>3. ImageInv'
  BY <1>2, CarriedImage DEF BuildInv, RunKept
<1>4. LeaveInv'
  BY DoneLeave DEF BuildInv, RunKept
<1> QED BY <1>1, <1>3, <1>4 DEF BuildInv

-----------------------------------------------------------------------------
(* The steps of the executor. *)

(* What an action that is no call over ssh starts from. *)
LEMMA NotCalling ==
  ASSUME BuildInv, border.todo # << >>, Doing.op \notin {"connect", "script", "command"}, UNCHANGED sshVars
  PROVE  ssh.pc = "idle" /\ ssh'.pc = "idle" /\ SshInv' /\ vm' = vm /\ ~Runs(Doing)
<1>1. ssh.pc = "idle"
  BY IdleUnlessCalling DEF BuildInv, ImageInv
<1> QED BY <1>1 DEF BuildInv, SshInv, CallBounds, sshVars, Runs

LEMMA FaultsCount ==
  ASSUME BuildInv PROVE (BuildFault \/ bfaults' = bfaults) => bfaults' \in 0 .. MaxBuildFaults
BY BuildAssumption DEF BuildInv, BuildTypes, BuildFault

(* An error is handled out of any call. *)
LEMMA HandledKeeps ==
  ASSUME BuildInv, HandleError, RunKept(brun'), UNCHANGED <<bopts, bvms, sshVars>>, ssh.pc = "idle",
         BuildFault \/ bfaults' = bfaults
  PROVE  BuildInv'
<1>1. BuildTypes
  BY DEF BuildInv
<1>2. border' \in Borders /\ border'.todo \in LatePlans /\ Tidy(border'.todo) /\ border'.in = border.in
  BY <1>1, ErrorTo
<1>3. SshInv' /\ vm' = vm /\ ssh'.pc = "idle" /\ bfaults' \in 0 .. MaxBuildFaults
  BY FaultsCount DEF BuildInv, SshInv, CallBounds, sshVars
<1>4. bvms' = bvms /\ bvms \in [creator : {"none", "up", "down"}, orch : {"up", "down"}]
  BY <1>1 DEF BuildTypes
<1> QED BY <1>2, <1>3, <1>4, GivenUp

(* The build breaks off, and the state of the run is completed. *)
LEMMA BreaksKeeps ==
  ASSUME BuildInv, BuildBreaks, UNCHANGED <<bopts, bvms, vm>>, SshInv', ssh'.pc = "idle",
         BuildFault \/ bfaults' = bfaults
  PROVE  BuildInv'
<1>1. BuildTypes /\ LeaveInv
  BY DEF BuildInv
<1>2. <<BOp("machine"), BOp("orch")>> \in LatePlans
  BY DEF LatePlans
<1>3. /\ border' \in Borders /\ border'.todo \in LatePlans /\ Tidy(border'.todo)
      /\ border'.in = border.in
  BY <1>1, <1>2, CarryLate DEF BuildBreaks
<1>4. RunKept(brun')
  BY <1>1, RunsKept DEF BuildBreaks
<1>5. bfaults' \in 0 .. MaxBuildFaults
  BY FaultsCount
<1>6. bvms' = bvms /\ bvms \in [creator : {"none", "up", "down"}, orch : {"up", "down"}]
  BY <1>1 DEF BuildTypes
<1> QED BY <1>3, <1>4, <1>5, <1>6, GivenUp

(* A step other than a call over ssh, or the end of one, with the VMs as they were. *)
LEMMA StepKeeps ==
  ASSUME BuildInv, bvms.orch = "up", border.todo # << >>, Carried, RunKept(brun'),
         Doing.op \notin {"connect", "script", "command", "unbound", "creator"},
         UNCHANGED <<bopts, bvms, sshVars>>, BuildFault \/ bfaults' = bfaults
  PROVE  BuildInv'
<1>1. ssh'.pc = "idle" /\ SshInv' /\ vm' = vm /\ ~Runs(Doing)
  BY NotCalling
<1>2. bfaults' \in 0 .. MaxBuildFaults /\ bopts' = bopts
  BY FaultsCount
<1>3. /\ bvms' \in [creator : {"none", "up", "down"}, orch : {"up", "down"}]
      /\ bvms'.orch = "up" /\ bvms'.creator = bvms.creator
  BY DEF BuildInv, BuildTypes
<1> QED BY <1>1, <1>2, <1>3, WentOn

LEMMA StartKeeps == ASSUME BuildInv, BuildStart PROVE BuildInv'
<1>1. /\ bvms.orch = "up" /\ border.todo # << >> /\ Doing.op = "start"
      /\ bopts' = bopts /\ brun' = brun /\ UNCHANGED sshVars
  BY DEF BuildStart, Does
<1>2. ssh'.pc = "idle" /\ SshInv' /\ vm' = vm /\ ~Runs(Doing)
  BY <1>1, NotCalling
<1>3. BuildTypes /\ RunKept(brun')
  BY <1>1, RunsKept DEF BuildInv
<1>4. \A creator \in {"none", "up"} :
        LET vms == [bvms EXCEPT !.creator = creator] IN
        vms \in [creator : {"none", "up", "down"}, orch : {"up", "down"}] /\ vms.orch = "up"
  BY <1>1, <1>3 DEF BuildTypes
<1>5. CASE bvms' = [bvms EXCEPT !.creator = "up"] /\ Carried /\ UNCHANGED bfaults
  <2>1. bfaults' \in 0 .. MaxBuildFaults
    BY <1>5, FaultsCount
  <2>2. bvms' \in [creator : {"none", "up", "down"}, orch : {"up", "down"}] /\ bvms'.orch = "up"
    BY <1>4, <1>5
  <2> QED BY <1>1, <1>2, <1>3, <1>5, <2>1, <2>2, WentOn
<1>6. CASE /\ \E creator \in {"none", "up"} : bvms' = [bvms EXCEPT !.creator = creator]
           /\ Carry(<<BOp("machine"), BOp("raise")>>) /\ BuildFault
  <2>1. bvms' \in [creator : {"none", "up", "down"}, orch : {"up", "down"}] /\ bvms'.orch = bvms.orch
    BY <1>1, <1>4, <1>6
  <2>2. <<BOp("machine"), BOp("raise")>> \in LatePlans
    BY DEF LatePlans
  <2>3. /\ border' \in Borders /\ border'.todo \in LatePlans /\ Tidy(border'.todo)
        /\ border'.in = border.in
    BY <1>3, <1>6, <2>2, CarryLate
  <2>4. bfaults' \in 0 .. MaxBuildFaults
    BY <1>6, FaultsCount
  <2> QED BY <1>1, <1>2, <1>3, <2>1, <2>3, <2>4, GivenUp
<1> QED BY <1>5, <1>6 DEF BuildStart

LEMMA RaisesKeeps == ASSUME BuildInv, BuildRaises PROVE BuildInv'
<1>1. /\ border.todo # << >> /\ Doing.op = "raise" /\ HandleError /\ brun' = Aborted(brun)
      /\ UNCHANGED <<bopts, bvms, sshVars>> /\ bfaults' = bfaults
  BY DEF BuildRaises, Does, Handled
<1>2. ssh.pc = "idle"
  BY <1>1, NotCalling
<1>3. RunKept(brun')
  BY <1>1, RunsKept DEF BuildInv
<1> QED BY <1>1, <1>2, <1>3, HandledKeeps

LEMMA CheckKeeps == ASSUME BuildInv, BuildCheck PROVE BuildInv'
<1>1. /\ bvms.orch = "up" /\ border.todo # << >> /\ Doing.op = "check" /\ brun' = brun
      /\ UNCHANGED <<bopts, bvms, sshVars>> /\ bfaults' = bfaults
  BY DEF BuildCheck, Does
<1>2. RunKept(brun') /\ BuildTypes
  BY <1>1, RunsKept DEF BuildInv
<1>3. CASE ~brun.abort
  BY <1>1, <1>2, <1>3, StepKeeps DEF BuildCheck
<1>4. CASE brun.abort
  <2>1. Carry(<<BOp("machine"), BOp("orch")>>)
    BY <1>4 DEF BuildCheck
  <2>2. <<BOp("machine"), BOp("orch")>> \in LatePlans
    BY DEF LatePlans
  <2>3. /\ border' \in Borders /\ border'.todo \in LatePlans /\ Tidy(border'.todo)
        /\ border'.in = border.in
    BY <1>2, <2>1, <2>2, CarryLate
  <2>4. ssh'.pc = "idle" /\ SshInv' /\ vm' = vm
    BY <1>1, NotCalling
  <2>5. bfaults' \in 0 .. MaxBuildFaults
    BY <1>1, FaultsCount
  <2>6. bvms' = bvms /\ bvms \in [creator : {"none", "up", "down"}, orch : {"up", "down"}]
    BY <1>1, <1>2 DEF BuildTypes
  <2> QED BY <1>1, <1>2, <2>3, <2>4, <2>5, <2>6, GivenUp
<1> QED BY <1>3, <1>4

LEMMA UnboundKeeps == ASSUME BuildInv, BuildUnbound PROVE BuildInv'
<1>1. /\ border.todo # << >> /\ Doing.op = "unbound" /\ BuildBreaks
      /\ UNCHANGED <<bopts, bvms, sshVars>> /\ bfaults' = bfaults
  BY DEF BuildUnbound, Does
<1>2. ssh'.pc = "idle" /\ SshInv' /\ vm' = vm
  BY <1>1, NotCalling
<1> QED BY <1>1, <1>2, BreaksKeeps

LEMMA SkipsKeeps == ASSUME BuildInv, BuildSkips PROVE BuildInv'
<1>1. /\ bvms.orch = "up" /\ border.todo # << >> /\ Doing.op = "script" /\ Carried
      /\ ssh.pc = "idle" /\ Skipped(Doing.job)
      /\ UNCHANGED <<brun, bvms, bopts, sshVars>> /\ bfaults' = bfaults
  BY DEF BuildSkips, Does
<1>2. SshInv' /\ vm' = vm /\ ssh'.pc = "idle"
  BY <1>1 DEF BuildInv, SshInv, CallBounds, sshVars
<1>3. RunKept(brun')
  BY <1>1, RunsKept DEF BuildInv
<1>4. bfaults' \in 0 .. MaxBuildFaults
  BY <1>1, FaultsCount
<1>5. bvms' \in [creator : {"none", "up", "down"}, orch : {"up", "down"}] /\ bvms'.orch = "up"
  BY <1>1 DEF BuildInv, BuildTypes
<1> QED BY <1>1, <1>2, <1>3, <1>4, <1>5, WentOn

LEMMA ReturnsKeeps == ASSUME BuildInv, BuildReturns PROVE BuildInv'
<1>1. /\ ssh.pc \in {"ok", "raised"} /\ ssh' = NoCall /\ vm' = vm /\ bvms' = bvms /\ bopts' = bopts
      /\ bfaults' = bfaults
  BY DEF BuildReturns
<1>2. ssh'.pc = "idle" /\ SshInv'
  <2>1. NoCall \in SshCallTypes /\ NoCall.pc = "idle" /\ vm' \in Vms
    BY <1>1, NoCallIs DEF BuildInv, SshInv
  <2>2. CallBounds(NoCall)
    BY SshAssumption DEF CallBounds, NoCall, CopyTries
  <2> QED BY <1>1, <2>1, <2>2 DEF SshInv, CallBounds
<1>3. InCall /\ ssh.pc # "idle"
  BY <1>1 DEF BuildInv, ImageInv
<1>4. /\ border.todo # << >> /\ Doing.op \in {"connect", "script", "command"} /\ ssh.job = Doing.job
      /\ bvms.orch = "up"
  BY <1>3, IdleUnlessCalling DEF InCall
<1>5. CASE ssh.pc = "ok"
  <2>1. Carried /\ brun' = brun
    BY <1>5 DEF BuildReturns
  <2>2. RunKept(brun')
    BY <2>1, RunsKept DEF BuildInv
  <2>3. bfaults' \in 0 .. MaxBuildFaults
    BY <1>1, FaultsCount
  <2>4. bvms' \in [creator : {"none", "up", "down"}, orch : {"up", "down"}] /\ bvms'.orch = "up"
    BY <1>1, <1>4 DEF BuildInv, BuildTypes
  <2> QED BY <1>1, <1>2, <1>4, <1>5, <2>1, <2>2, <2>3, <2>4, WentOn
<1>6. CASE ssh.pc # "ok"
  <2>1. BuildBreaks
    BY <1>6 DEF BuildReturns
  <2> QED BY <1>1, <1>2, <2>1, BreaksKeeps
<1> QED BY <1>5, <1>6

LEMMA SnapshotKeeps == ASSUME BuildInv, BuildSnapshot PROVE BuildInv'
<1>1. /\ bvms.orch = "up" /\ border.todo # << >> /\ Doing.op = "snapshot"
      /\ UNCHANGED <<bvms, bopts, sshVars>>
  BY DEF BuildSnapshot, Does
<1>2. CASE Carried /\ UNCHANGED <<brun, bfaults>>
  <2>1. RunKept(brun')
    BY <1>2, RunsKept DEF BuildInv
  <2> QED BY <1>1, <1>2, <2>1, StepKeeps
<1>3. CASE BuildFault /\ BuildBreaks
  <2>1. ssh'.pc = "idle" /\ SshInv' /\ vm' = vm
    BY <1>1, NotCalling
  <2> QED BY <1>1, <1>3, <2>1, BreaksKeeps
<1> QED BY <1>2, <1>3 DEF BuildSnapshot

LEMMA SaveKeeps == ASSUME BuildInv, BuildSave PROVE BuildInv'
<1>1. /\ bvms.orch = "up" /\ border.todo # << >> /\ Doing.op = "save"
      /\ UNCHANGED <<bvms, bopts, sshVars>>
  BY DEF BuildSave, Does
<1>2. ssh'.pc = "idle" /\ SshInv' /\ vm' = vm /\ ~Runs(Doing)
  BY <1>1, NotCalling
<1>3. CASE brun' = [brun EXCEPT !.saved = TRUE] /\ Carried /\ UNCHANGED bfaults
  <2>1. /\ brun' \in BuildRuns /\ brun'.state = brun.state /\ (brun.ever => brun'.ever)
        /\ brun'.abort => brun'.ever
    BY <1>3, RunsKept DEF BuildInv
  <2>2. BuildTypes'
    <3>1. border' \in Borders /\ Tidy(border'.todo)
      BY <1>1, <1>3, CarriedTo DEF BuildInv
    <3>2. Tidy(border.todo)'
      BY <3>1 DEF Tidy
    <3> QED BY <1>1, <1>3, <2>1, <3>1, <3>2 DEF BuildInv, BuildTypes
  <2>3. ImageIsWhole'
    BY <1>1, <1>2, SavedIsWhole DEF BuildInv, ImageIsWhole, NeedsStep
  <2>4. ImageInv'
    BY <1>1, <1>2, <1>3, <2>1, <2>3, CarriedImage DEF BuildInv
  <2>5. LeaveInv'
    BY <1>1, <1>3, <2>1, DoneLeave DEF BuildInv
  <2> QED BY <1>2, <2>2, <2>4, <2>5 DEF BuildInv
<1>4. CASE BuildFault /\ BuildBreaks
  BY <1>1, <1>2, <1>4, BreaksKeeps
<1> QED BY <1>3, <1>4 DEF BuildSave

LEMMA SendKeeps == ASSUME BuildInv, BuildSend PROVE BuildInv'
<1>1. /\ bvms.orch = "up" /\ border.todo # << >> /\ Doing.op = "send"
      /\ UNCHANGED <<bvms, bopts, sshVars>>
  BY DEF BuildSend, Does
<1>2. RunKept(brun) /\ RunKept(Aborted(brun))
  BY RunsKept DEF BuildInv
<1>3. CASE Carried /\ UNCHANGED <<brun, bfaults>>
  BY <1>1, <1>2, <1>3, StepKeeps
<1>4. CASE BuildFault /\ Handled
  <2>1. ssh.pc = "idle"
    BY <1>1, NotCalling
  <2> QED BY <1>1, <1>2, <1>4, <2>1, HandledKeeps DEF Handled
<1> QED BY <1>3, <1>4 DEF BuildSend

LEMMA CompleteKeeps == ASSUME BuildInv, BuildComplete PROVE BuildInv'
<1>1. /\ bvms.orch = "up" /\ border.todo # << >> /\ Doing.op \in {"machine", "orch"}
      /\ UNCHANGED <<bvms, bopts, sshVars>>
  BY DEF BuildComplete, Does
<1> DEFINE done == IF border.in = brun.state THEN brun.done \cup {Doing.op} ELSE brun.done
           counted == [brun EXCEPT !.done = done]
<1>2. done \in SUBSET {"machine", "orch"}
  BY <1>1, BuildRecords DEF BuildInv
<1>3. RunKept(counted) /\ RunKept(Aborted(counted)) /\ RunKept(Aborted(brun))
  <2> HIDE DEF done
  <2> QED BY <1>2, RunsKept DEF BuildInv
<1>4. \/ brun' = counted /\ Carried /\ UNCHANGED bfaults
      \/ BuildFault /\ HandleError /\ brun' \in {Aborted(brun), Aborted(counted)}
  BY DEF BuildComplete
<1> HIDE DEF counted
<1>5. CASE brun' = counted /\ Carried /\ UNCHANGED bfaults
  BY <1>1, <1>3, <1>5, StepKeeps
<1>6. CASE BuildFault /\ HandleError /\ brun' \in {Aborted(brun), Aborted(counted)}
  <2>1. ssh.pc = "idle"
    BY <1>1, NotCalling
  <2> QED BY <1>1, <1>3, <1>6, <2>1, HandledKeeps
<1> QED BY <1>4, <1>5, <1>6

(* A creator that is left running is one the user wants to keep. *)
LEMMA StopCreatorKeeps == ASSUME BuildInv, BuildStopCreator PROVE BuildInv'
<1>1. /\ bvms.orch = "up" /\ border.todo # << >> /\ Doing.op = "creator"
      /\ UNCHANGED <<bopts, sshVars>>
  BY DEF BuildStopCreator, Does
<1>2. ssh.pc = "idle" /\ ssh'.pc = "idle" /\ SshInv' /\ vm' = vm /\ ~Runs(Doing)
  BY <1>1, NotCalling
<1>3. RunKept(RunToStop) /\ RunKept(Aborted(brun)) /\ BuildTypes
  BY RunsKept DEF BuildInv
<1>4. ASSUME Carried, brun' = RunToStop, bfaults' = bfaults, CreatorGone',
             bvms' = bvms \/ bvms' = [bvms EXCEPT !.creator = "down"]
      PROVE  BuildInv'
  <2>1. bfaults' \in 0 .. MaxBuildFaults
    BY <1>4, FaultsCount
  <2>2. /\ bvms' \in [creator : {"none", "up", "down"}, orch : {"up", "down"}] /\ bvms'.orch = "up"
        /\ bvms'.creator = bvms.creator \/ bvms'.creator = "down"
    BY <1>1, <1>3, <1>4 DEF BuildTypes
  <2>3. RunKept(brun')
    BY <1>3, <1>4
  <2> QED BY <1>1, <1>2, <1>4, <2>1, <2>2, <2>3, WentOn
<1>5. CASE ~NeedToStop
  <2>1. Carried /\ brun' = RunToStop /\ bvms' = bvms /\ bfaults' = bfaults
    BY <1>5 DEF BuildStopCreator
  <2>2. CreatorGone'
    <3>1. RunToStop.abort /\ bopts.keep \in KeepOnError
      BY <1>5 DEF NeedToStop
    <3>2. brun'.ever
      BY <1>3, <2>1, <3>1 DEF RunKept
    <3> QED BY <1>1, <3>1, <3>2 DEF CreatorGone, Kept
  <2> QED BY <1>4, <2>1, <2>2
<1>6. CASE NeedToStop
  <2>1. \/ Handled /\ bvms' = bvms /\ (BuildFault \/ bfaults' = bfaults)
        \/ /\ bvms.creator = "up" /\ Carried /\ brun' = RunToStop
           /\ bvms' = IF bopts.shape = "single" THEN bvms ELSE [bvms EXCEPT !.creator = "down"]
           /\ bfaults' = bfaults
    BY <1>6 DEF BuildStopCreator
  <2>2. CASE Handled /\ bvms' = bvms /\ (BuildFault \/ bfaults' = bfaults)
    BY <1>1, <1>2, <1>3, <2>2, HandledKeeps DEF Handled
  <2>3. CASE /\ bvms.creator = "up" /\ Carried /\ brun' = RunToStop
             /\ bvms' = IF bopts.shape = "single" THEN bvms ELSE [bvms EXCEPT !.creator = "down"]
             /\ bfaults' = bfaults
    <3>1. CreatorGone'
      BY <1>1, <1>3, <2>3 DEF CreatorGone, BuildTypes
    <3> QED BY <1>4, <2>3, <3>1
  <2> QED BY <2>1, <2>2, <2>3
<1> QED BY <1>5, <1>6

(* It stops itself after the creator, or with it. *)
LEMMA StopItselfKeeps == ASSUME BuildInv, BuildStopItself PROVE BuildInv'
<1>1. /\ bvms.orch = "up" /\ border.todo # << >> /\ Doing.op = "itself"
      /\ UNCHANGED <<bopts, sshVars>>
  BY DEF BuildStopItself, Does
<1>2. ssh.pc = "idle" /\ ssh'.pc = "idle" /\ SshInv' /\ vm' = vm /\ ~Runs(Doing)
  BY <1>1, NotCalling
<1>3. RunKept(RunToStop) /\ RunKept(Aborted(brun)) /\ BuildTypes
  BY RunsKept DEF BuildInv
<1>4. CASE Carried /\ brun' = RunToStop /\ UNCHANGED <<bvms, bfaults>>
  BY <1>1, <1>3, <1>4, StepKeeps
<1>5. CASE BuildFault /\ Handled /\ UNCHANGED bvms
  BY <1>1, <1>2, <1>3, <1>5, HandledKeeps DEF Handled
<1>6. CASE /\ bvms' = [orch |-> "down",
                       creator |-> IF (~bopts.self \/ bopts.shape = "single") /\ bvms.creator = "up"
                                   THEN "down" ELSE bvms.creator]
           /\ Carried /\ brun' = RunToStop /\ UNCHANGED bfaults
  <2> DEFINE rest == Tail(border.todo)
  <2>1. border.todo \in Seq(BuildSteps) /\ Tidy(border.todo)
    BY <1>3, BuildRecords DEF BuildTypes
  <2>2. border' \in Borders /\ border'.todo = rest /\ Tidy(border'.todo)
    BY <1>1, <1>3, <1>6, CarriedTo
  <2> HIDE DEF rest
  <2>3. OpsIn(border.todo) = OpsIn(rest) \cup {"itself"} /\ "creator" \notin OpsIn(rest)
    BY <1>1, <2>1, StepDone DEF Doing, rest
  <2>4. "start" \notin OpsIn(border.todo) /\ CreatorGone
    BY <2>3 DEF BuildInv, LeaveInv
  <2>5. RunKept(brun')
    BY <1>3, <1>6
  <2>6. bfaults' \in 0 .. MaxBuildFaults
    BY <1>6, FaultsCount
  <2>7. BuildTypes'
    <3>1. Tidy(border.todo)'
      BY <2>2 DEF Tidy
    <3>2. bvms' \in [creator : {"none", "up", "down"}, orch : {"up", "down"}]
      BY <1>3, <1>6 DEF BuildTypes
    <3> QED BY <1>1, <1>3, <2>2, <2>5, <2>6, <3>1, <3>2 DEF BuildTypes, RunKept
  <2>8. ImageIsWhole'
    BY <1>1, <1>2, <2>5 DEF BuildInv, ImageInv, ImageIsWhole, NeedsStep, RunKept
  <2>9. ImageInv'
    BY <1>1, <1>2, <1>6, <2>5, <2>8, CarriedImage DEF BuildInv, RunKept
  <2>10. CreatorGone'
    BY <1>1, <1>6, <2>4, <2>5 DEF CreatorGone, Kept, RunKept
  <2>11. LeaveInv'
    <3>1. OpsIn(border.todo)' = OpsIn(rest)
      BY <2>2 DEF OpsIn
    <3>2. "start" \notin OpsIn(rest)
      BY <2>3, <2>4
    <3>3. BuildLeavesNoVm'
      BY <1>1, <1>6, <2>4, <2>5, <2>10 DEF BuildLeavesNoVm, CreatorGone, Kept, RunKept
    <3> QED BY <2>5, <2>10, <3>1, <3>2, <3>3 DEF LeaveInv, RunKept
  <2> QED BY <1>2, <2>7, <2>9, <2>11 DEF BuildInv
<1> QED BY <1>4, <1>5, <1>6 DEF BuildStopItself

LEMMA BuildCallsKeeps == ASSUME BuildInv, BuildCalls PROVE BuildInv'
<1>1. /\ bvms.orch = "up" /\ border.todo # << >> /\ Doing.op \in {"connect", "script", "command"}
      /\ ssh.pc = "idle" /\ ~Skipped(Doing.job) /\ UNCHANGED <<vm, buildVars>>
  BY DEF BuildCalls, Does
<1>2. BuildTypes /\ ImageInv /\ LeaveInv /\ SshInv
  BY DEF BuildInv
<1>3. border.todo \in Seq(BuildSteps) /\ Tidy(border.todo)
  BY <1>2, BuildRecords DEF BuildTypes
<1>4. /\ Doing \in BuildSteps /\ Doing.op \in OpsIn(border.todo)
      /\ Runs(Doing) => Doing.job \in JobsIn(border.todo)
  BY <1>1, <1>3, StepDone DEF Doing
<1>5. Doing.api \in BOOLEAN /\ (Runs(Doing) => Doing.job \in BuildJobs)
  BY <1>4 DEF BuildSteps
<1>6. Imaging
  BY <1>1, <1>2, <1>4 DEF ImageInv, Imaging, BuildOps
<1>7. /\ ssh' \in SshCallTypes /\ CallBounds(ssh') /\ ~ssh'.nohup
      /\ \/ Doing.op = "connect" /\ ssh'.pc = "connect" /\ ssh'.job = NoJob
         \/ Runs(Doing) /\ ssh'.pc \in {"copy", "run"} /\ ssh'.job = Doing.job
  <2>1. CASE Doing.op = "connect"
    <3>1. ssh' = Connect(Doing.api)
      BY <2>1 DEF BuildCalls
    <3>2. PackageInstall \in SshJobs
      BY BuildJobsAssumption DEF BuildJobs
    <3>3. ssh' \in SshCallTypes /\ CallBounds(ssh')
      BY <1>5, <3>1, <3>2, CallsBegin
    <3>4. ssh'.pc = "connect" /\ ssh'.job = NoJob /\ ~ssh'.nohup
      BY <3>1 DEF Connect, NoCall
    <3> QED BY <2>1, <3>3, <3>4
  <2>2. CASE Doing.op = "script"
    <3>1. ssh' = RunScript(Doing.job, Doing.api, FALSE) /\ Runs(Doing)
      BY <2>2 DEF BuildCalls, Runs
    <3>2. Doing.job \in SshJobs
      BY <1>5, <3>1, BuildJobsAssumption
    <3>3. ssh' \in SshCallTypes /\ CallBounds(ssh')
      BY <1>5, <3>1, <3>2, CallsBegin
    <3>4. ssh'.pc = "copy" /\ ssh'.job = Doing.job /\ ~ssh'.nohup
      BY <3>1 DEF RunScript, NoCall
    <3> QED BY <3>1, <3>3, <3>4
  <2>3. CASE Doing.op = "command"
    <3>1. ssh' = RunCommand(Doing.job, Doing.api) /\ Runs(Doing)
      BY <2>3 DEF BuildCalls, Runs
    <3>2. Doing.job \in SshJobs
      BY <1>5, <3>1, BuildJobsAssumption
    <3>3. ssh' \in SshCallTypes /\ CallBounds(ssh')
      BY <1>5, <3>1, <3>2, CallsBegin
    <3>4. ssh'.pc = "run" /\ ssh'.job = Doing.job /\ ~ssh'.nohup
      BY <3>1 DEF RunCommand, NoCall
    <3> QED BY <3>1, <3>3, <3>4
  <2> QED BY <1>1, <2>1, <2>2, <2>3
<1>8. SshInv' /\ BuildTypes' /\ LeaveInv'
  <2>1. SshInv'
    BY <1>1, <1>2, <1>7 DEF SshInv
  <2>2. BuildTypes' /\ LeaveInv'
    BY <1>1, <1>2 DEF BuildTypes, LeaveInv, Tidy, OpsIn, BuildLeavesNoVm, CreatorGone, Kept, buildVars
  <2> QED BY <2>1, <2>2
<1>9. InCall'
  <2>1. Imaging' /\ Doing' = Doing /\ (Skipped(Doing.job)' <=> Skipped(Doing.job))
    BY <1>1, <1>6 DEF Imaging, OpsIn, Skipped, NeedsStep, Doing, buildVars
  <2>2. Doing.op = "connect" => Doing.job = NoJob
    BY <1>4 DEF BuildSteps, Runs
  <2> QED BY <1>1, <1>7, <2>1, <2>2 DEF InCall, Runs, buildVars
<1>10. Progress'
  <2>1. /\ OpsIn(border.todo)' = OpsIn(border.todo) /\ JobsIn(border.todo)' = JobsIn(border.todo)
        /\ ImageJobs' = ImageJobs /\ Wanted' = Wanted /\ bopts' = bopts /\ vm' = vm
    BY <1>1 DEF OpsIn, JobsIn, ImageJobs, Wanted, Skipped, NeedsStep, buildVars
  <2>2. \A j : ~Returned(j) /\ ~Returned(j)' /\ ~(ssh.pc = "ok" /\ ssh.job = j)'
    BY <1>1, <1>7 DEF Returned
  <2>3. Progress
    BY <1>2, <1>6 DEF ImageInv
  <2> QED BY <2>1, <2>2, <2>3 DEF Progress
<1>11. ImageInv'
  <2>1. Imaging' /\ brun' = brun /\ border' = border
    BY <1>1, <1>6 DEF Imaging, OpsIn, buildVars
  <2>2. ~brun.saved
    BY <1>2, <1>6 DEF ImageInv
  <2>3. ~brun'.saved /\ border'.in # "Provisioning"
    BY <1>6, <2>1, <2>2 DEF Imaging
  <2> QED BY <1>1, <1>2, <1>9, <1>10, <2>1, <2>3 DEF ImageInv, ImageIsWhole
<1> QED BY <1>8, <1>11 DEF BuildInv

(* A call goes on; what it runs is the job of the step, once. *)
LEMMA BuildSshKeeps == ASSUME BuildInv, BuildSsh PROVE BuildInv'
<1>1. SshStep /\ bopts' = bopts /\ brun' = brun /\ bvms' = bvms /\ border' = border /\ bfaults' = bfaults
  BY DEF BuildSsh, buildVars
<1>2. BuildTypes /\ ImageInv /\ LeaveInv /\ SshInv
  BY DEF BuildInv
<1>3. SshInv'
  BY <1>1, <1>2, SshKeepsBounds
<1>4. ssh.pc # "idle"
  BY <1>1, <1>2, SshSteps DEF SshInv
<1>5. /\ bvms.orch = "up" /\ Imaging /\ ssh.job = Doing.job /\ ~Skipped(Doing.job) /\ ~ssh.nohup
      /\ \/ Doing.op = "connect" /\ Doing.job = NoJob /\ ssh.pc \in {"connect", "ok", "raised"}
         \/ Runs(Doing) /\ ssh.pc \in {"copy", "chmod", "run", "ok", "raised"}
  BY <1>2, <1>4 DEF ImageInv, InCall
<1>6. /\ ssh'.job = ssh.job /\ ssh'.nohup = ssh.nohup
      /\ ssh.pc \in {"connect", "copy", "chmod", "run"}
      /\ ssh.pc = "connect" => ssh'.pc \in {"connect", "ok", "raised"} /\ vm' = vm
      /\ ssh.pc \in {"copy", "chmod"} => ssh'.pc \in {"copy", "chmod", "run", "raised"} /\ vm' = vm
      /\ ssh.pc = "run" =>
           \E n \in Nat : /\ vm' = [vm EXCEPT !.ran[ssh.job] = @ + n]
                          /\ ssh'.pc \in {"ok", "raised"} /\ (ssh'.pc = "ok" => n > 0)
                          /\ ~vm.tty => n <= 1
  BY <1>1, <1>2, <1>5, SshMoves
<1>7. BuildTypes' /\ LeaveInv'
  BY <1>1, <1>2 DEF BuildTypes, LeaveInv, Tidy, OpsIn, BuildLeavesNoVm, CreatorGone, Kept
<1>8. /\ Imaging' /\ Doing' = Doing /\ (Skipped(Doing.job)' <=> Skipped(Doing.job))
      /\ OpsIn(border.todo)' = OpsIn(border.todo) /\ JobsIn(border.todo)' = JobsIn(border.todo)
      /\ ImageJobs' = ImageJobs /\ Wanted' = Wanted
  BY <1>1, <1>5 DEF Imaging, OpsIn, JobsIn, ImageJobs, Wanted, Skipped, NeedsStep, Doing
<1>9. InCall'
  BY <1>1, <1>5, <1>6, <1>8 DEF InCall, Runs
<1>10. Progress /\ ~brun.saved /\ border.in = "Executing"
  BY <1>2, <1>5 DEF ImageInv, Imaging
<1>11. border.todo \in Seq(BuildSteps) /\ Tidy(border.todo) /\ border.todo # << >>
  <2>1. border.todo # << >>
    BY <1>2, <1>4, IdleUnlessCalling DEF ImageInv
  <2> QED BY <1>2, <2>1, BuildRecords DEF BuildTypes
<1>12. Runs(Doing) => Doing.job \in BuildJobs /\ Doing.job \in JobsIn(border.todo)
  BY <1>11, StepDone DEF Doing, BuildSteps
<1>13. vm.ran \in [SshJobs -> Nat]
  BY <1>2 DEF SshInv, Vms
<1>14. ASSUME vm' = vm, Runs(Doing) => ssh'.pc # "ok"
       PROVE  ImageInv'
  <2>1. \A j \in BuildJobs : ~Returned(j) /\ ~(ssh.pc = "ok" /\ ssh.job = j)'
    BY <1>5, <1>6, <1>14, JobsDiffer DEF Returned
  <2>2. Progress'
    BY <1>1, <1>8, <1>10, <1>14, <2>1 DEF Progress
  <2> QED BY <1>1, <1>2, <1>8, <1>9, <1>10, <1>14, <2>2 DEF ImageInv, ImageIsWhole
<1>15. CASE ssh.pc # "run"
  <2>1. vm' = vm /\ (Runs(Doing) => ssh'.pc # "ok")
    BY <1>5, <1>6, <1>15 DEF Runs
  <2> QED BY <1>3, <1>7, <1>14, <2>1 DEF BuildInv
<1>16. CASE ssh.pc = "run"
  <2> DEFINE job == ssh.job
  <2>1. PICK n \in Nat : /\ vm' = [vm EXCEPT !.ran[job] = @ + n]
                         /\ ssh'.pc \in {"ok", "raised"} /\ (ssh'.pc = "ok" => n > 0)
                         /\ ~vm.tty => n <= 1
    BY <1>6, <1>16
  <2>2. /\ Runs(Doing) /\ job = Doing.job /\ job \in BuildJobs /\ job \in JobsIn(border.todo)
        /\ job \in Wanted
    BY <1>5, <1>10, <1>12, <1>16 DEF Wanted, Progress
  <2>3. \A j \in BuildJobs : ~Returned(j) /\ (Returned(j)' <=> j = job)
    BY <1>6, <1>16, <2>1 DEF Returned
  <2>4. vm.ran[job] = 0
    BY <1>10, <1>13, <2>2, <2>3, BuildJobsAssumption DEF Progress
  <2>5. /\ vm'.ran[job] = n /\ vm'.tty = vm.tty
        /\ \A j \in SshJobs \ {job} : vm'.ran[j] = vm.ran[j]
    BY <1>2, <1>13, <2>1, <2>2, <2>4, BuildJobsAssumption DEF SshInv, Vms
  <2>6. ASSUME NEW j \in BuildJobs
        PROVE  /\ vm'.ran[j] > 0 => j \in Wanted /\ (j \in JobsIn(border.todo) => Returned(j)')
               /\ j \in Wanted => \/ vm'.ran[j] > 0
                                  \/ j \in JobsIn(border.todo) /\ ~(ssh'.pc = "ok" /\ ssh'.job = j)
               /\ ~vm'.tty => vm'.ran[j] <= 1
    <3>1. CASE j = job
      BY <2>1, <2>2, <2>3, <2>5, <3>1
    <3>2. CASE j # job
      <4>1. vm'.ran[j] = vm.ran[j] /\ ~(ssh'.pc = "ok" /\ ssh'.job = j) /\ ~Returned(j)
        BY <1>6, <2>3, <2>5, <3>2, BuildJobsAssumption
      <4>2. j \in Wanted => vm.ran[j] > 0 \/ j \in JobsIn(border.todo)
        BY <1>10 DEF Progress
      <4>3. (vm.ran[j] > 0 => j \in Wanted /\ j \notin JobsIn(border.todo)) /\ (~vm.tty => vm.ran[j] <= 1)
        BY <1>10, <4>1 DEF Progress
      <4> QED BY <2>5, <4>1, <4>2, <4>3
    <3> QED BY <3>1, <3>2
  <2>7. Progress'
    BY <1>1, <1>8, <1>10, <2>6 DEF Progress
  <2>8. \A j \in SshJobs \ BuildJobs : vm'.ran[j] = 0
    BY <1>2, <2>2, <2>5 DEF ImageInv
  <2>9. ImageInv'
    BY <1>1, <1>2, <1>8, <1>9, <1>10, <2>7, <2>8 DEF ImageInv, ImageIsWhole
  <2> QED BY <1>3, <1>7, <2>9 DEF BuildInv
<1> QED BY <1>15, <1>16

(* The next state of the run: its steps are the ones to do. *)
LEMMA NextStateKeeps == ASSUME BuildInv, BuildNextState PROVE BuildInv'
<1>1. /\ border.todo = << >> /\ border.in # brun.state /\ bvms.orch = "up"
      /\ border' = [border EXCEPT !.in = brun.state, !.todo = StateOps(brun.state), !.guarded = TRUE]
      /\ brun' = brun /\ bvms' = bvms /\ bopts' = bopts /\ bfaults' = bfaults /\ ssh' = ssh /\ vm' = vm
  BY DEF BuildNextState, sshVars
<1>2. BuildTypes /\ ImageInv /\ LeaveInv /\ SshInv
  BY DEF BuildInv
<1>3. ssh.pc = "idle"
  BY <1>1, <1>2, IdleUnlessCalling DEF ImageInv
<1>4. border.in \in States /\ brun.state \in States /\ bopts \in BuildOptions
  BY <1>2, BuildRecords DEF BuildTypes
<1>5. Rank[border.in] < Rank[brun.state]
  BY <1>1, <1>2, <1>4 DEF ImageInv, Rank, States
<1> DEFINE todo == StateOps(brun.state)
<1>6. todo \in Seq(BuildSteps) /\ Tidy(todo)
  BY <1>4, ImageSteps, OtherSteps
<1>7. /\ "itself" \in OpsIn(todo) => "start" \notin OpsIn(todo) /\ "creator" \in OpsIn(todo)
      /\ brun.state # "Executing" => OpsIn(todo) \cap BuildOps = {}
      /\ brun.state = "Executing" =>
           /\ JobsIn(todo) = ImageJobs
           /\ ~bopts.ctx /\ ~bopts.password => "unbound" \in OpsIn(todo)
  <2>1. CASE brun.state = "Executing"
    BY <1>4, <2>1, ImageSteps
  <2>2. CASE brun.state # "Executing"
    BY <1>4, <2>2, OtherSteps
  <2> QED BY <2>1, <2>2
<1> HIDE DEF todo
<1>8. border' \in Borders /\ border'.todo = todo /\ border'.in = brun.state
  BY <1>1, <1>2, <1>4, <1>6 DEF BuildTypes, Borders, todo
<1>9. BuildTypes'
  <2>1. Tidy(border.todo)'
    BY <1>6, <1>8 DEF Tidy
  <2> QED BY <1>1, <1>2, <1>8, <2>1 DEF BuildTypes
<1>10. OpsIn(border.todo)' = OpsIn(todo) /\ JobsIn(border.todo)' = JobsIn(todo)
  BY <1>8 DEF OpsIn, JobsIn
<1>11. LeaveInv'
  <2>1. BuildLeavesNoVm' /\ (brun.abort => brun.ever)'
    BY <1>1, <1>2 DEF LeaveInv, BuildLeavesNoVm
  <2> QED BY <1>7, <1>10, <2>1 DEF LeaveInv
<1>12. ImageIsWhole' /\ (\A j \in SshJobs \ BuildJobs : vm.ran[j] = 0)'
  BY <1>1, <1>2 DEF ImageInv, ImageIsWhole, NeedsStep
<1>13. border'.in # "Provisioning"
  BY <1>4, <1>5, <1>8 DEF Rank, States
<1>14. (Rank[border.in] <= Rank[brun.state])'
  BY <1>1, <1>4, <1>8 DEF Rank, States
<1>15. CASE brun.state # "Executing"
  <2>1. ~Imaging'
    BY <1>8, <1>15 DEF Imaging
  <2>2. (OpsIn(border.todo) \cap BuildOps = {})'
    BY <1>7, <1>10, <1>15 DEF BuildOps
  <2>3. InCall'
    BY <1>1, <1>3 DEF InCall
  <2> QED BY <1>1, <1>2, <1>9, <1>11, <1>12, <1>13, <1>14, <2>1, <2>2, <2>3 DEF BuildInv, ImageInv, SshInv
<1>16. CASE brun.state = "Executing"
  <2>1. border.in = "Provisioning"
    BY <1>4, <1>5, <1>16 DEF Rank, States
  <2>2. ~brun.saved /\ NoneRan
    BY <1>2, <2>1 DEF ImageInv
  <2>3. Progress'
    <3>1. ImageJobs' = ImageJobs /\ Wanted' = Wanted /\ Wanted \subseteq ImageJobs
      BY <1>1 DEF ImageJobs, Wanted, Skipped, NeedsStep
    <3>2. \A j \in BuildJobs : vm'.ran[j] = 0 /\ ~(ssh.pc = "ok" /\ ssh.job = j)'
      BY <1>1, <1>3, <2>2 DEF NoneRan
    <3>3. (bopts.ctx \/ bopts.password \/ "unbound" \in OpsIn(border.todo))'
      BY <1>1, <1>7, <1>10, <1>16
    <3> QED BY <1>7, <1>10, <1>16, <3>1, <3>2, <3>3 DEF Progress
  <2>4. InCall' /\ brun'.saved = FALSE
    BY <1>1, <1>2, <1>3, <2>2, BuildRecords DEF InCall
  <2>5. ~Imaging' => (OpsIn(border.todo) \cap BuildOps = {})'
    <3>1. "save" \in OpsIn(todo)
      BY <1>4, <1>16, ImageSteps DEF todo
    <3> QED BY <1>8, <1>10, <1>16, <3>1 DEF Imaging
  <2> QED BY <1>1, <1>2, <1>9, <1>11, <1>12, <1>13, <1>14, <2>3, <2>4, <2>5 DEF BuildInv, ImageInv, SshInv
<1> QED BY <1>15, <1>16

-----------------------------------------------------------------------------
(* The server and the user. *)
LEMMA ServerKeepsBuild ==
  ASSUME BuildInv, BuildServerAdvances \/ BuildAborted PROVE BuildInv'
<1>1. /\ border' = border /\ bvms' = bvms /\ bopts' = bopts /\ ssh' = ssh /\ vm' = vm
      /\ brun.state # "Done" /\ (BuildFault \/ bfaults' = bfaults)
  BY DEF BuildServerAdvances, BuildAborted, sshVars
<1>2. BuildTypes /\ ImageInv /\ LeaveInv /\ SshInv
  BY DEF BuildInv
<1>3. bfaults' \in 0 .. MaxBuildFaults
  BY <1>1, FaultsCount
<1>4. brun \in BuildRuns /\ brun.state \in States /\ border.in \in States
  BY <1>2, BuildRecords DEF BuildTypes
<1>5. /\ brun' \in BuildRuns /\ (brun.ever => brun'.ever) /\ (brun'.abort => brun'.ever)
      /\ brun'.saved = brun.saved /\ Rank[brun.state] <= Rank[brun'.state]
  <2>1. CASE BuildServerAdvances
    <3>1. brun' = [brun EXCEPT !.state = NextBuildState[brun.state], !.done = {}]
      BY <2>1 DEF BuildServerAdvances
    <3>2. NextBuildState[brun.state] \in States /\ Rank[brun.state] <= Rank[NextBuildState[brun.state]]
      BY <1>1, <1>4 DEF NextBuildState, States, Rank
    <3> QED BY <1>2, <1>4, <3>1, <3>2 DEF BuildRuns, LeaveInv
  <2>2. CASE BuildAborted
    <3>1. brun' = Aborted(brun) \/ brun' = [brun EXCEPT !.abort = FALSE]
      BY <2>2 DEF BuildAborted
    <3>2. RunKept(brun')
      BY <1>2, <3>1, RunsKept
    <3>3. Rank[brun.state] <= Rank[brun.state]
      BY <1>4 DEF Rank, States
    <3> QED BY <3>2, <3>3 DEF RunKept
  <2> QED BY <2>1, <2>2
<1>6. BuildTypes'
  BY <1>1, <1>2, <1>3, <1>5 DEF BuildTypes, Tidy
<1>7. LeaveInv'
  BY <1>1, <1>2, <1>5, SameLeave
<1>8. /\ Imaging' = Imaging /\ Doing' = Doing /\ (InCall => InCall') /\ (Progress => Progress')
      /\ OpsIn(border.todo)' = OpsIn(border.todo)
  BY <1>1 DEF Imaging, InCall, Progress, Doing, OpsIn, JobsIn, ImageJobs, Wanted, Skipped, NeedsStep,
              Returned, Runs
<1>9. (Rank[border.in] <= Rank[brun.state])'
  <2>1. Rank[border.in] <= Rank[brun.state]
    BY <1>2 DEF ImageInv
  <2>2. Rank[border.in] \in Int /\ Rank[brun.state] \in Int /\ Rank[brun'.state] \in Int
    BY <1>4, <1>5 DEF Rank, States, BuildRuns
  <2> QED BY <1>1, <1>5, <2>1, <2>2
<1>10. ImageInv'
  BY <1>1, <1>2, <1>5, <1>8, <1>9 DEF ImageInv, NoneRan, ImageIsWhole, NeedsStep
<1> QED BY <1>1, <1>2, <1>6, <1>7, <1>10 DEF BuildInv, SshInv

(* The build starts with nothing done. *)
LEMMA BuildStarts == ASSUME BuildInit, SshInit PROVE BuildInv
<1>1. /\ bopts \in BuildOptions
      /\ brun = [state |-> "Provisioning", done |-> {}, abort |-> FALSE, ever |-> FALSE, saved |-> FALSE]
      /\ bvms = [creator |-> "none", orch |-> "up"] /\ bfaults = 0
      /\ border = [pc |-> "run", in |-> "Provisioning", todo |-> StateOps("Provisioning"), guarded |-> TRUE]
  BY DEF BuildInit, BuildIdle
<1>2. /\ StateOps("Provisioning") \in Seq(BuildSteps) /\ Tidy(StateOps("Provisioning"))
      /\ OpsIn(StateOps("Provisioning")) \cap BuildOps = {} /\ "itself" \notin OpsIn(StateOps("Provisioning"))
  BY LateSteps DEF StateOps, LatePlans
<1>3. BuildTypes
  BY <1>1, <1>2, BuildAssumption DEF BuildTypes, BuildRuns, Borders, States
<1>4. SshInv /\ ssh.pc = "idle" /\ \A j \in SshJobs : vm.ran[j] = 0
  BY NoCallIs, SshAssumption DEF SshInit, NewVms, SshInv, Vms, CallBounds, NoCall, CopyTries
<1>5. ImageInv
  BY <1>1, <1>2, <1>4, BuildJobsAssumption DEF ImageInv, InCall, Imaging, NoneRan, ImageIsWhole, Rank
<1>6. LeaveInv
  BY <1>1, <1>2 DEF LeaveInv, BuildLeavesNoVm
<1> QED BY <1>3, <1>4, <1>5, <1>6 DEF BuildInv

(* Every step of a build keeps its invariant. *)
LEMMA BuildKeeps == ASSUME BuildInv, BuildProgress \/ BuildAborted PROVE BuildInv'
BY StartKeeps, RaisesKeeps, CheckKeeps, UnboundKeeps, SkipsKeeps, BuildCallsKeeps, BuildSshKeeps,
   ReturnsKeeps, SnapshotKeeps, SaveKeeps, SendKeeps, CompleteKeeps, StopCreatorKeeps, StopItselfKeeps,
   NextStateKeeps, ServerKeepsBuild DEF BuildProgress

(* What the runs check follows from it. *)
LEMMA BuiltWell ==
  ASSUME BuildInv
  PROVE  /\ BuildTypeOK /\ SshTypeOK /\ ImageIsWhole /\ BuildLeavesNoVm
         /\ \A j \in SshJobs \ BuildJobs : vm.ran[j] = 0
<1>1. BuildTypeOK
  BY BuildRecords DEF BuildInv, BuildTypes, BuildTypeOK, States, NextBuildState
<1> QED BY <1>1, SshTyped DEF BuildInv, ImageInv, LeaveInv
=============================================================================
