--------------------------- MODULE Machine_proofs ---------------------------
(***************************************************************************)
(* One VM with any chain of modules, any image, any number of boots and of *)
(* faults: what the bootstrap script keeps while the executor runs, which  *)
(* scripts stand behind a completed deployment, and that none of them runs *)
(* a second time.                                                          *)
(***************************************************************************)
EXTENDS Machine, Bootstrap_proofs, WellFoundedInduction

Targets == Scripts \cup {"created", "send", "operational", "raise"}
Steps == [target : Targets, module : STRING \cup {""}]
Left == ToSet(xproc.todo)
Called(name) == \E s \in Left : s.target = name
InState == xproc.pc \in {"run", "wait", "term"}
Places == {"off", "create", "run", "wait", "term", "complete", "poll", "dead"}

(* The executor's process: what it has still to do is a sequence of steps, none of them *)
(* twice; and it waits for a script when it waits.                                       *)
ProcInv ==
  /\ xproc \in [pc : Places, state : RunStates \cup {""}, todo : Seq(Steps), send : BOOLEAN,
                guarded : BOOLEAN]
  /\ IsInjective(xproc.todo)
  /\ xproc.pc \in {"wait", "term"} => xproc.todo # << >> /\ Todo.target \in Scripts
  /\ xproc.pc = "complete" => xproc.todo = << >>

(* Why a VM may count as deployed. *)
Excused ==
  xserver.abort \/ xserver.recovery \/ xcut \/ ToSet(DeploymentSteps) \subseteq xever

(* A VM that is, or is about to be, told deployed or operational has a reason; while it is *)
(* being deployed all that did not run is still to be done.                                 *)
HonestInv ==
  /\ Deployed \/ xserver.scale = "operational" \/ xserver.adding => Excused
  /\ Called("operational") => Excused
  /\ xproc.state = "Executing" /\ xproc.pc = "complete" => Excused
  /\ xproc.state = "Executing" /\ InState =>
       \/ Excused
       \/ /\ xproc.guarded
          /\ ToSet(DeploymentSteps) \subseteq xever \cup Left /\ Left \subseteq ToSet(DeploymentSteps)

(* An executor is never to deploy its VM again. *)
Settled == xserver.scale = "operational" \/ xserver.recovery
Later == {"SendingReports", "Ready", "Finalizing", "Done"}
ScaledInv ==
  /\ xserver.adding => Settled
  /\ xserver.state = "Ready" \/ (xserver.state = "SendingReports" /\ xserver.done) =>
       Settled \/ xserver.abort
ReportingInv ==
  xproc.state = "SendingReports" /\ (InState \/ xproc.pc = "complete") =>
    Settled \/ xserver.abort \/ Called("operational") \/ Called("raise")
CreatingStepInv == Called("created") => xserver.scale = "creating" /\ Left = {Call("created")}
ReachedInv ==
  xproc.state = "Executing" /\ Alive => Settled \/ xserver.state \in Later \cup {"Executing"}
RanInv ==
  Alive /\ (\E s \in xran : s.target \in AbortsOnError) =>
    \/ Settled \/ xserver.state \in Later
    \/ xserver.state = "Executing" /\ xproc.state = "Executing"
FreshInv == \A s \in Left : s.target \in AbortsOnError => s \notin xran /\ xproc.state = "Executing"
NewInv == xproc.pc = "create" => xran = {}
OnceInv ==
  ScaledInv /\ ReportingInv /\ CreatingStepInv /\ ReachedInv /\ RanInv /\ FreshInv /\ NewInv

-----------------------------------------------------------------------------
(* A set of numbers up to n has a largest one. *)
LEMMA Largest ==
  ASSUME NEW n \in Nat, NEW T \in SUBSET (1 .. n), T # {}
  PROVE  \E m \in T : \A i \in T : m >= i
<1> DEFINE U == {n - i : i \in T}
           Less == {ss \in Nat \X Nat : ss[1] < ss[2]}
<1>1. IsWellFoundedOn(Less, Nat)
  BY NatLessThanWellFounded DEF OpToRel
<1>2. U \in SUBSET Nat /\ U # {}
  <2>1. \A i \in T : n - i \in Nat
    OBVIOUS
  <2>2. PICK i \in T : TRUE
    OBVIOUS
  <2>3. n - i \in U
    BY <2>2
  <2> QED BY <2>1, <2>3
<1>3. PICK u \in U : \A v \in U : ~(<<v, u>> \in Less)
  BY <1>1, <1>2, WFMin
<1>4. \A v \in U : ~(v < u)
  BY <1>2, <1>3
<1>5. PICK m \in T : u = n - m
  BY <1>3
<1>6. ASSUME NEW i \in T PROVE m >= i
  <2>1. n - i \in U
    OBVIOUS
  <2>2. ~(n - i < n - m)
    BY <1>4, <1>5, <2>1
  <2> QED BY <2>2
<1> QED BY <1>6

-----------------------------------------------------------------------------
(* Sequences of steps *)

(* The empty sequence has no element, once or twice. *)
LEMMA Emptied == ASSUME NEW S PROVE << >> \in Seq(S) /\ ToSet(<< >>) = {} /\ IsInjective(<< >>)
BY DEF ToSet, IsInjective

(* A sequence of one step. *)
LEMMA Single ==
  ASSUME NEW S, NEW a \in S
  PROVE  <<a>> \in Seq(S) /\ ToSet(<<a>>) = {a} /\ IsInjective(<<a>>)
BY DEF ToSet, IsInjective

(* Two sequences without a common element make one without a repetition. *)
LEMMA Joined ==
  ASSUME NEW S, NEW s \in Seq(S), NEW t \in Seq(S)
  PROVE  /\ s \o t \in Seq(S)
         /\ ToSet(s \o t) = ToSet(s) \cup ToSet(t)
         /\ IsInjective(s) /\ IsInjective(t) /\ ToSet(s) \cap ToSet(t) = {} => IsInjective(s \o t)
<1>1. /\ s \o t \in Seq(S) /\ Len(s \o t) = Len(s) + Len(t)
      /\ \A i \in 1 .. Len(s) + Len(t) :
           (s \o t)[i] = IF i <= Len(s) THEN s[i] ELSE t[i - Len(s)]
  BY ConcatProperties
<1>2. Len(s) \in Nat /\ Len(t) \in Nat /\ DOMAIN s = 1 .. Len(s) /\ DOMAIN t = 1 .. Len(t)
      /\ DOMAIN (s \o t) = 1 .. Len(s) + Len(t)
  BY <1>1, LenProperties
<1>3. \A j \in 1 .. Len(t) : Len(s) + j \in 1 .. Len(s) + Len(t) /\ (s \o t)[Len(s) + j] = t[j]
  BY <1>1, <1>2
<1>4. \A i \in 1 .. Len(s) : i \in 1 .. Len(s) + Len(t) /\ (s \o t)[i] = s[i]
  BY <1>1, <1>2
<1>5. \A i \in 1 .. Len(s) + Len(t) : i \notin 1 .. Len(s) => i - Len(s) \in 1 .. Len(t)
  BY <1>2
<1>6. ToSet(s \o t) = ToSet(s) \cup ToSet(t)
  <2>1. ToSet(s \o t) \subseteq ToSet(s) \cup ToSet(t)
    BY <1>1, <1>2, <1>5 DEF ToSet
  <2>2. ToSet(s) \subseteq ToSet(s \o t)
    BY <1>2, <1>4 DEF ToSet
  <2>3. ToSet(t) \subseteq ToSet(s \o t)
    BY <1>2, <1>3 DEF ToSet
  <2> QED BY <2>1, <2>2, <2>3
<1>7. ASSUME IsInjective(s), IsInjective(t), ToSet(s) \cap ToSet(t) = {},
             NEW i \in 1 .. Len(s) + Len(t), NEW j \in 1 .. Len(s) + Len(t),
             (s \o t)[i] = (s \o t)[j]
      PROVE  i = j
  <2>1. CASE i \in 1 .. Len(s) /\ j \in 1 .. Len(s)
    BY <1>2, <1>4, <1>7, <2>1 DEF IsInjective
  <2>2. CASE i \notin 1 .. Len(s) /\ j \notin 1 .. Len(s)
    <3>1. i - Len(s) \in 1 .. Len(t) /\ j - Len(s) \in 1 .. Len(t)
      BY <1>5, <2>2
    <3>2. t[i - Len(s)] = t[j - Len(s)]
      BY <1>1, <1>2, <1>7, <2>2
    <3>3. i - Len(s) = j - Len(s)
      BY <1>2, <1>7, <3>1, <3>2 DEF IsInjective
    <3> QED BY <1>2, <3>3
  <2>3. ASSUME NEW k \in 1 .. Len(s), NEW l \in 1 .. Len(s) + Len(t), l \notin 1 .. Len(s)
        PROVE  (s \o t)[k] # (s \o t)[l]
    <3>1. (s \o t)[k] \in ToSet(s)
      BY <1>2, <1>4 DEF ToSet
    <3>2. l - Len(s) \in 1 .. Len(t) /\ (s \o t)[l] = t[l - Len(s)]
      BY <1>1, <1>2, <1>5, <2>3
    <3>3. (s \o t)[l] \in ToSet(t)
      BY <1>2, <3>2 DEF ToSet
    <3> QED BY <1>7, <3>1, <3>3
  <2> QED BY <1>7, <2>1, <2>2, <2>3
<1> QED BY <1>1, <1>2, <1>6, <1>7 DEF IsInjective

(* The first of a sequence without repetition is not in the rest. *)
LEMMA Popped ==
  ASSUME NEW S, NEW s \in Seq(S), s # << >>
  PROVE  /\ Head(s) \in S /\ Tail(s) \in Seq(S)
         /\ ToSet(s) = {Head(s)} \cup ToSet(Tail(s))
         /\ IsInjective(s) => IsInjective(Tail(s)) /\ Head(s) \notin ToSet(Tail(s))
<1>1. /\ Head(s) \in S /\ Tail(s) \in Seq(S) /\ Len(s) \in Nat /\ Len(s) > 0
      /\ Len(Tail(s)) = Len(s) - 1 /\ Head(s) = s[1]
      /\ \A i \in 1 .. Len(s) - 1 : Tail(s)[i] = s[i + 1]
  BY HeadTailProperties, EmptySeq, LenProperties
<1>2. DOMAIN s = 1 .. Len(s) /\ DOMAIN Tail(s) = 1 .. Len(s) - 1
  BY <1>1, LenProperties
<1>3. ToSet(s) = {Head(s)} \cup ToSet(Tail(s))
  <2>1. ASSUME NEW i \in 1 .. Len(s), i # 1 PROVE s[i] \in ToSet(Tail(s))
    <3>1. i - 1 \in 1 .. Len(s) - 1 /\ Tail(s)[i - 1] = s[i]
      BY <1>1, <2>1
    <3> QED BY <1>2, <3>1 DEF ToSet
  <2>2. ASSUME NEW i \in 1 .. Len(s) - 1 PROVE Tail(s)[i] \in ToSet(s)
    BY <1>1, <1>2 DEF ToSet
  <2>3. s[1] \in ToSet(s)
    BY <1>1, <1>2 DEF ToSet
  <2> QED BY <1>1, <1>2, <2>1, <2>2, <2>3 DEF ToSet
<1>4. IsInjective(s) => IsInjective(Tail(s))
  BY <1>1, <1>2 DEF IsInjective
<1>5. IsInjective(s) => Head(s) \notin ToSet(Tail(s))
  BY <1>1, <1>2 DEF IsInjective, ToSet
<1> QED BY <1>1, <1>3, <1>4, <1>5
-----------------------------------------------------------------------------
(* The steps of each state *)

(* The scan for a built module ends at a place of the chain, or before the first. *)
LEMMA LastBuiltType == LastBuilt \in 0 .. Len(Chain)
<1> DEFINE I == {i \in 1 .. Len(Chain) : Chain[i] \in ximage}
<1>1. Len(Chain) \in Nat
  BY ChainAssumption, LenProperties
<1>2. LastBuilt = IF I # {} THEN Max(I) ELSE 0
  BY DEF LastBuilt, SelectLastInSeq
<1>3. CASE I = {}
  BY <1>1, <1>2, <1>3
<1>4. CASE I # {}
  <2>1. \E m \in I : \A i \in I : m >= i
    BY <1>1, <1>4, Largest
  <2>2. Max(I) \in I
    BY <2>1 DEF Max
  <2> QED BY <1>1, <1>2, <1>4, <2>2
<1> QED BY <1>3, <1>4

(* A script of a module is a step. *)
LEMMA StepType == ASSUME NEW t \in Targets, NEW m \in STRING PROVE Step(t, m) \in Steps
BY DEF Step, Steps

(* The build steps of a target: one for each module above the last one built. *)
LEMMA BuildStepsAre ==
  ASSUME NEW target \in Targets
  PROVE  /\ BuildSteps(target) \in Seq(Steps) /\ IsInjective(BuildSteps(target))
         /\ \A s \in ToSet(BuildSteps(target)) : s.target = target
<1>1. Chain \in Seq(STRING) /\ IsInjective(Chain) /\ DOMAIN Chain = 1 .. Len(Chain) /\ Len(Chain) \in Nat
  BY ChainAssumption, LenProperties
<1> DEFINE n == Len(Chain) - LastBuilt
<1>2. n \in Nat /\ \A i \in 1 .. n : LastBuilt + i \in 1 .. Len(Chain)
  BY <1>1, LastBuiltType
<1>3. \A i \in 1 .. n : Chain[LastBuilt + i] \in STRING
  BY <1>1, <1>2, ElementOfSeq
<1>4. BuildSteps(target) = [i \in 1 .. n |-> Step(target, Chain[LastBuilt + i])]
  BY DEF BuildSteps
<1>5. BuildSteps(target) \in [1 .. n -> Steps]
  BY <1>3, <1>4, StepType
<1>6. BuildSteps(target) \in Seq(Steps)
  BY <1>2, <1>5, IsASeq
<1>7. \A i, j \in 1 .. n : Step(target, Chain[LastBuilt + i]) = Step(target, Chain[LastBuilt + j]) => i = j
  <2> SUFFICES ASSUME NEW i \in 1 .. n, NEW j \in 1 .. n,
                      Step(target, Chain[LastBuilt + i]) = Step(target, Chain[LastBuilt + j])
               PROVE  i = j
    OBVIOUS
  <2>1. Chain[LastBuilt + i] = Chain[LastBuilt + j]
    BY DEF Step
  <2>2. LastBuilt + i = LastBuilt + j
    BY <1>1, <1>2, <2>1 DEF IsInjective
  <2> QED BY <2>2, LastBuiltType
<1>8. \A s \in ToSet(BuildSteps(target)) : s.target = target
  BY <1>4 DEF ToSet, Step
<1> QED BY <1>4, <1>6, <1>7, <1>8 DEF IsInjective

(* The component is a module of the chain. *)
LEMMA LastModule == Last(Chain) \in STRING
<1>1. Len(Chain) \in 1 .. Len(Chain)
  BY ChainAssumption, EmptySeq, LenProperties
<1> QED BY <1>1, ChainAssumption, ElementOfSeq DEF Last

(* What a deployment consists of: scripts whose failure aborts the run, each of them once. *)
LEMMA DeploymentIs ==
  /\ DeploymentSteps \in Seq(Steps) /\ IsInjective(DeploymentSteps)
  /\ \A s \in ToSet(DeploymentSteps) : s.target \in AbortsOnError
<1> DEFINE Pre == BuildSteps("prerecipe")
           Rec == BuildSteps("recipe")
           Exe == <<Step("execute", Last(Chain))>>
<1>1. Last(Chain) \in STRING
  BY LastModule
<1>2. /\ Pre \in Seq(Steps) /\ IsInjective(Pre) /\ \A s \in ToSet(Pre) : s.target = "prerecipe"
      /\ Rec \in Seq(Steps) /\ IsInjective(Rec) /\ \A s \in ToSet(Rec) : s.target = "recipe"
  <2>1. "prerecipe" \in Targets /\ "recipe" \in Targets
    BY DEF Targets, Scripts
  <2> QED BY <2>1, BuildStepsAre
<1>3. Packages \in Seq(Steps) /\ IsInjective(Packages) /\ \A s \in ToSet(Packages) : s.target = "packages"
  <2>1. Call("packages") \in Steps /\ Call("packages").target = "packages"
    BY DEF Call, Step, Steps, Targets, Scripts
  <2> QED BY <2>1, Single, Emptied DEF Packages
<1>4. Exe \in Seq(Steps) /\ IsInjective(Exe) /\ \A s \in ToSet(Exe) : s.target = "execute"
  <2>1. Step("execute", Last(Chain)) \in Steps /\ Step("execute", Last(Chain)).target = "execute"
    BY <1>1 DEF Step, Steps, Targets, Scripts
  <2> QED BY <2>1, Single
<1> HIDE DEF Pre, Rec, Exe
<1> DEFINE Two == Pre \o Packages
           Three == Two \o Rec
<1>5. Two \in Seq(Steps) /\ IsInjective(Two) /\ ToSet(Two) = ToSet(Pre) \cup ToSet(Packages)
  BY <1>2, <1>3, Joined
<1> HIDE DEF Two
<1>6. Three \in Seq(Steps) /\ IsInjective(Three) /\ ToSet(Three) = ToSet(Two) \cup ToSet(Rec)
  <2>1. ToSet(Two) \cap ToSet(Rec) = {}
    BY <1>2, <1>3, <1>5
  <2> QED BY <1>2, <1>5, <2>1, Joined
<1> HIDE DEF Three
<1>7. /\ Three \o Exe \in Seq(Steps) /\ IsInjective(Three \o Exe)
      /\ ToSet(Three \o Exe) = ToSet(Three) \cup ToSet(Exe)
  <2>1. ToSet(Three) \cap ToSet(Exe) = {}
    BY <1>2, <1>3, <1>4, <1>5, <1>6
  <2> QED BY <1>4, <1>6, <2>1, Joined
<1>8. DeploymentSteps = Three \o Exe
  BY DEF DeploymentSteps, Pre, Rec, Exe, Two, Three
<1> QED BY <1>2, <1>3, <1>4, <1>5, <1>6, <1>7, <1>8 DEF AbortsOnError

(* The image does not change, nor what has to be run on it. *)
LEMMA SameDeployment == ASSUME ximage' = ximage PROVE DeploymentSteps' = DeploymentSteps
BY DEF DeploymentSteps, BuildSteps, Packages, LastBuilt, SelectLastInSeq

(* The pieces of a state, put together. *)
LEMMA JoinedSteps ==
  \A s, t \in Seq(Steps) :
    IsInjective(s) /\ IsInjective(t) /\ ToSet(s) \cap ToSet(t) = {} =>
      /\ s \o t \in Seq(Steps) /\ IsInjective(s \o t)
      /\ ToSet(s \o t) = ToSet(s) \cup ToSet(t)
BY Joined, ZenonT(30)

(* What the reports consist of. *)
LEMMA ReportingIs ==
  ASSUME NEW send \in BOOLEAN
  PROVE  /\ SendingReports(send) \in Seq(Steps) /\ IsInjective(SendingReports(send))
         /\ Call("operational") \in ToSet(SendingReports(send))
         /\ \A s \in ToSet(SendingReports(send)) : s.target \in {"report", "send", "operational"}
<1> DEFINE r == <<Step("report", Last(Chain))>>
           o == <<Call("operational")>>
<1>1. Last(Chain) \in STRING
  BY LastModule
<1>2. /\ Step("report", Last(Chain)) \in Steps /\ Call("send") \in Steps /\ Call("operational") \in Steps
      /\ Step("report", Last(Chain)).target = "report" /\ Call("send").target = "send"
      /\ Call("operational").target = "operational"
  BY <1>1 DEF Call, Step, Steps, Targets, Scripts
<1>3. /\ r \in Seq(Steps) /\ IsInjective(r) /\ ToSet(r) = {Step("report", Last(Chain))}
      /\ SendReport \in Seq(Steps) /\ IsInjective(SendReport) /\ ToSet(SendReport) = {Call("send")}
      /\ o \in Seq(Steps) /\ IsInjective(o) /\ ToSet(o) = {Call("operational")}
  BY <1>2, Single DEF SendReport
<1> DEFINE rs == r \o SendReport
           none == << >>
           either == IF send \/ xserver.scale # "operational" THEN rs ELSE none
<1> HIDE DEF r, o
<1>4. rs \in Seq(Steps) /\ IsInjective(rs) /\ ToSet(rs) = {Step("report", Last(Chain)), Call("send")}
  <2>1. ToSet(r) \cap ToSet(SendReport) = {}
    BY <1>2, <1>3
  <2>2. rs \in Seq(Steps) /\ ToSet(rs) = ToSet(r) \cup ToSet(SendReport) /\ IsInjective(rs)
    BY <1>3, <2>1, JoinedSteps
  <2> QED BY <1>3, <2>2
<1>5. none \in Seq(Steps) /\ IsInjective(none) /\ ToSet(none) = {}
  BY Emptied
<1> HIDE DEF rs, none
<1>6. /\ either \in Seq(Steps) /\ IsInjective(either)
      /\ ToSet(either) \subseteq {Step("report", Last(Chain)), Call("send")}
  BY <1>4, <1>5
<1>7. SendingReports(send) = either \o o
  BY DEF SendingReports, r, o, rs, none
<1> HIDE DEF either
<1>8. /\ either \o o \in Seq(Steps) /\ IsInjective(either \o o)
      /\ ToSet(either \o o) = ToSet(either) \cup ToSet(o)
  <2>1. ToSet(either) \cap ToSet(o) = {}
    BY <1>2, <1>3, <1>6
  <2> QED BY <1>3, <1>6, <2>1, Joined
<1> QED BY <1>2, <1>3, <1>6, <1>7, <1>8

(* What is left of a state whose report script raised. *)
LastReport == SendReport \o <<Call("raise")>>

(* What is left after the report script could not be run. *)
LEMMA LastReportIs ==
  /\ LastReport \in Seq(Steps) /\ IsInjective(LastReport)
  /\ ToSet(LastReport) = {Call("send"), Call("raise")}
<1> DEFINE a == <<Call("raise")>>
<1>1. /\ Call("send") \in Steps /\ Call("raise") \in Steps /\ Call("send") # Call("raise")
  BY DEF Call, Step, Steps, Targets, Scripts
<1>2. /\ SendReport \in Seq(Steps) /\ IsInjective(SendReport) /\ ToSet(SendReport) = {Call("send")}
      /\ a \in Seq(Steps) /\ IsInjective(a) /\ ToSet(a) = {Call("raise")}
  BY <1>1, Single DEF SendReport
<1>3. LastReport = SendReport \o a
  BY DEF LastReport
<1> HIDE DEF a
<1>4. ToSet(SendReport) \cap ToSet(a) = {}
  BY <1>1, <1>2
<1>5. /\ SendReport \o a \in Seq(Steps) /\ IsInjective(SendReport \o a)
      /\ ToSet(SendReport \o a) = ToSet(SendReport) \cup ToSet(a)
  BY <1>2, <1>4, JoinedSteps
<1> QED BY <1>2, <1>3, <1>5

(* What every state consists of, and which steps it has none of. *)
LEMMA StateIs ==
  ASSUME NEW state \in RunStates, NEW send \in BOOLEAN
  PROVE  /\ StepsOf(state, send) \in Seq(Steps) /\ IsInjective(StepsOf(state, send))
         /\ state = "Provisioning" =>
              ToSet(StepsOf(state, send)) =
                IF xserver.scale = "creating" THEN {Call("created")} ELSE {}
         /\ state = "Executing" =>
              IF xserver.recovery \/ xserver.scale = "operational"
              THEN \A s \in ToSet(StepsOf(state, send)) : s.target = "onvmadd"
              ELSE ToSet(StepsOf(state, send)) = ToSet(DeploymentSteps)
         /\ state = "SendingReports" =>
              /\ Call("operational") \in ToSet(StepsOf(state, send))
              /\ \A s \in ToSet(StepsOf(state, send)) : s.target \in {"report", "send", "operational"}
         /\ state \notin {"Provisioning", "Executing", "SendingReports"} =>
              \A s \in ToSet(StepsOf(state, send)) : s.target = "raise"
<1>1. /\ Call("created") \in Steps /\ Call("raise") \in Steps /\ Call("raise").target = "raise"
      /\ Step("onvmadd", Last(Chain)) \in Steps /\ Step("onvmadd", Last(Chain)).target = "onvmadd"
  BY LastModule DEF Call, Step, Steps, Targets, Scripts
<1>2. /\ \A a \in Steps : <<a>> \in Seq(Steps) /\ ToSet(<<a>>) = {a} /\ IsInjective(<<a>>)
      /\ << >> \in Seq(Steps) /\ ToSet(<< >>) = {} /\ IsInjective(<< >>)
  BY Single, Emptied
<1>3. CASE state = "Executing"
  <2>1. StepsOf(state, send) = Executing
    BY <1>3 DEF StepsOf
  <2>2. CASE xserver.recovery
    BY <1>2, <1>3, <2>1, <2>2 DEF Executing
  <2>3. CASE ~xserver.recovery /\ xserver.scale # "operational"
    BY <1>3, <2>1, <2>3, DeploymentIs DEF Executing
  <2>4. CASE ~xserver.recovery /\ xserver.scale = "operational"
    <3>1. Executing = IF xserver.adding THEN <<Step("onvmadd", Last(Chain))>> ELSE << >>
      BY <2>4 DEF Executing
    <3> HIDE DEF Executing
    <3> QED BY <1>1, <1>2, <1>3, <2>1, <2>4, <3>1
  <2> QED BY <2>2, <2>3, <2>4
<1>4. CASE state = "Provisioning"
  <2>1. StepsOf(state, send) = IF xserver.scale = "creating" THEN <<Call("created")>> ELSE << >>
    BY <1>4 DEF StepsOf
  <2> QED BY <1>1, <1>2, <1>4, <2>1
<1>5. CASE state = "SendingReports"
  <2>1. StepsOf(state, send) = SendingReports(send)
    BY <1>5 DEF StepsOf
  <2> QED BY <1>5, <2>1, ReportingIs
<1>6. CASE state \notin {"Provisioning", "Executing", "SendingReports"}
  <2>1. StepsOf(state, send) = IF state = "Done" THEN <<Call("raise")>> ELSE << >>
    BY <1>6 DEF StepsOf
  <2> QED BY <1>1, <1>2, <1>6, <2>1
<1> QED BY <1>3, <1>4, <1>5, <1>6

-----------------------------------------------------------------------------
(* What happens to the executor in a life of its VM: the steps of Executor, a power cycle, *)
(* and the abort that a failed bootstrap tells the server.                                   *)
PowerOff == ExecCrash /\ (Fault \/ UNCHANGED xfaults)
AbortTold ==
  /\ xserver' = Failing
  /\ UNCHANGED <<xproc, xscript, xorphan, xpid, ximage, xran, xever, xcut, xfaults>>
Starts == DaemonStart(TRUE) \/ DaemonStart(FALSE)
ExecAct ==
  Starts \/ ExecProgress \/ ExecFaulty \/ ExecEnvironment \/ PowerOff \/ AbortTold \/ UNCHANGED execVars

(* Faults are counted up to their bound. *)
LEMMA FaultCount == ASSUME xfaults \in 0 .. MaxExecFaults, Fault PROVE xfaults' \in 0 .. MaxExecFaults
BY ExecFaultsAssumption DEF Fault

(* Every step leaves the executor a sequence of steps without repetition. *)
LEMMA ProcSteps == ASSUME ExecTypeOK, ProcInv, ExecAct PROVE ProcInv'
<1> USE DEF ProcInv, ExecTypeOK, At, Places, Todo
<1>a. /\ << >> \in Seq(Steps) /\ IsInjective(<< >>)
  BY Emptied
<1>b. ASSUME xproc.todo # << >>
      PROVE  /\ Todo \in Steps /\ Tail(xproc.todo) \in Seq(Steps) /\ IsInjective(Tail(xproc.todo))
  BY <1>b, Popped
<1>c. /\ \A send \in BOOLEAN : SendingReports(send) \in Seq(Steps) /\ IsInjective(SendingReports(send))
      /\ LastReport \in Seq(Steps) /\ IsInjective(LastReport)
  BY ReportingIs, LastReportIs
<1>d. \A state \in RunStates, send \in BOOLEAN :
        StepsOf(state, send) \in Seq(Steps) /\ IsInjective(StepsOf(state, send))
  BY StateIs
<1>e. ASSUME NEW server, Raise(server) PROVE ProcInv'
  BY <1>a, <1>c, <1>e, ZenonT(30) DEF Raise, Die, NoProc, RunStates
<1>f. ASSUME ScriptRaises, xproc.todo # << >> PROVE ProcInv'
  BY <1>a, <1>b, <1>c, <1>e, <1>f, ZenonT(30) DEF ScriptRaises, NextStep, LastReport
<1>g. ASSUME NEW ended, AfterScript(ended), xproc.todo # << >> PROVE ProcInv'
  BY <1>a, <1>b, <1>g, ZenonT(30) DEF AfterScript, NextStep
<1>1. CASE ExecCreate
  BY <1>1, <1>d DEF ExecCreate, EnterState
<1>2. CASE ExecStateDone
  BY <1>2 DEF ExecStateDone
<1>3. CASE ExecComplete
  BY <1>3 DEF ExecComplete
<1>4. CASE ExecPoll
  BY <1>4, <1>d DEF ExecPoll, EnterState
<1>5. CASE ExecCall
  BY <1>5, <1>b DEF ExecCall, NextStep
<1>6. CASE ExecLaunch
  BY <1>6 DEF ExecLaunch
<1>7. CASE ExecSeeEnd
  BY <1>7, <1>g DEF ExecSeeEnd
<1>8. CASE ExecSeeAbort
  BY <1>8 DEF ExecSeeAbort
<1>9. CASE ExecTerminate
  BY <1>9, <1>g DEF ExecTerminate
<1>10. CASE ExecCallFails
  BY <1>10, <1>a DEF ExecCallFails, Die, NoProc, RunStates
<1>11. CASE ExecCompleteFails
  BY <1>11, <1>a DEF ExecCompleteFails, Die, NoProc, RunStates
<1>12. CASE ExecCallRaises
  BY <1>12, <1>e DEF ExecCallRaises
<1>13. CASE ExecLaunchFails
  BY <1>13, <1>f DEF ExecLaunchFails
<1>14. CASE ExecInterrupted
  BY <1>14, <1>b, <1>c, ZenonT(30) DEF ExecInterrupted, NextStep, LastReport
<1>15. CASE ExecSigterm
  BY <1>15, <1>a, <1>c, ZenonT(30) DEF ExecSigterm, NoProc
<1>16. CASE ScriptEnds
  BY <1>16 DEF ScriptEnds
<1>17. CASE OrphanEnds
  BY <1>17 DEF OrphanEnds
<1>18. CASE ServerAdvances
  BY <1>18 DEF ServerAdvances
<1>19. CASE ServerScales
  BY <1>19 DEF ServerScales
<1>20. CASE RunAborted
  BY <1>20 DEF RunAborted
<1>21. CASE Starts
  BY <1>21, <1>a, ZenonT(30) DEF Starts, DaemonStart, Alive, NoProc, RunStates
<1>22. CASE PowerOff
  BY <1>22, <1>a DEF PowerOff, ExecCrash, NoProc, RunStates
<1>23. CASE AbortTold
  BY <1>23 DEF AbortTold
<1>24. CASE UNCHANGED execVars
  BY <1>24 DEF execVars
<1> QED
  BY <1>1, <1>2, <1>3, <1>4, <1>5, <1>6, <1>7, <1>8, <1>9, <1>10, <1>11, <1>12, <1>13, <1>14, <1>15, <1>16, <1>17, <1>18, <1>19, <1>20, <1>21, <1>22, <1>23, <1>24
  DEF ExecAct, ExecProgress, ExecFaulty, ExecEnvironment

(* The types of everything the executor shares with its service, its scripts and the server. *)
LEMMA ExecTypes == ASSUME ExecTypeOK, ProcInv, ExecAct PROVE ExecTypeOK'
<1>0. ProcInv'
  BY ProcSteps
<1>a. Fault => xfaults' \in 0 .. MaxExecFaults
  BY FaultCount DEF ExecTypeOK
<1> USE DEF ExecTypeOK
<1>b. /\ xproc'.pc \in Places /\ xproc'.state \in RunStates \cup {""}
      /\ xproc'.send \in BOOLEAN /\ xproc'.guarded \in BOOLEAN
  BY <1>0 DEF ProcInv
<1>c. \A name : CallEffect(name) \in [state : RunStates, done : BOOLEAN, abort : BOOLEAN,
            adding : BOOLEAN, scale : {"creating", "created", "operational"}, recovery : BOOLEAN]
  BY DEF CallEffect
<1>d. \A state \in RunStates : NextRunState(state) \subseteq RunStates
  BY DEF NextRunState, RunStates
<1> USE <1>b DEF Places, Die, PidFileRemoved, Raise, Failing
<1>1. CASE ExecCreate
  BY <1>1, ZenonT(30) DEF ExecCreate
<1>2. CASE ExecStateDone
  BY <1>2, ZenonT(30) DEF ExecStateDone
<1>3. CASE ExecComplete
  BY <1>3 DEF ExecComplete
<1>4. CASE ExecPoll
  BY <1>4, ZenonT(30) DEF ExecPoll
<1>5. CASE ExecCall
  BY <1>5, <1>c DEF ExecCall
<1>6. CASE ExecLaunch
  BY <1>6 DEF ExecLaunch
<1>7. CASE ExecSeeEnd
  BY <1>7 DEF ExecSeeEnd, AfterScript
<1>8. CASE ExecSeeAbort
  BY <1>8 DEF ExecSeeAbort
<1>9. CASE ExecTerminate
  BY <1>9 DEF ExecTerminate, AfterScript
<1>10. CASE ExecCallFails
  BY <1>10, <1>a DEF ExecCallFails
<1>11. CASE ExecCompleteFails
  BY <1>11, <1>a DEF ExecCompleteFails
<1>12. CASE ExecCallRaises
  <2>1. PICK server \in {xserver, CallEffect(Todo.target)} : Raise(server)
    BY <1>12 DEF ExecCallRaises
  <2>2. xserver' = [server EXCEPT !.abort = TRUE] \/ xserver' = Failing
    BY <2>1
  <2>5. server \in [state : RunStates, done : BOOLEAN, abort : BOOLEAN, adding : BOOLEAN,
                    scale : {"creating", "created", "operational"}, recovery : BOOLEAN]
    <3>1. CallEffect(Todo.target) \in [state : RunStates, done : BOOLEAN, abort : BOOLEAN, adding : BOOLEAN,
                    scale : {"creating", "created", "operational"}, recovery : BOOLEAN]
      BY DEF CallEffect
    <3> QED BY <2>1, <3>1
  <2>3. xserver' \in [state : RunStates, done : BOOLEAN, abort : BOOLEAN, adding : BOOLEAN,
                      scale : {"creating", "created", "operational"}, recovery : BOOLEAN]
    BY <2>2, <2>5
  <2>4. /\ UNCHANGED <<xscript, xorphan, ximage, xcut>> /\ xpid' \in {xpid, "none"}
        /\ UNCHANGED xfaults \/ Fault
    BY <1>12, <2>1 DEF ExecCallRaises
  <2> HIDE DEF Raise, Failing
  <2> QED BY <1>a, <2>3, <2>4
<1>13. CASE ExecLaunchFails
  BY <1>13, <1>a DEF ExecLaunchFails, ScriptRaises
<1>14. CASE ExecInterrupted
  BY <1>14, <1>a DEF ExecInterrupted
<1>15. CASE ExecSigterm
  BY <1>15, <1>a DEF ExecSigterm
<1>16. CASE ScriptEnds
  BY <1>16, ZenonT(30) DEF ScriptEnds
<1>17. CASE OrphanEnds
  BY <1>17 DEF OrphanEnds
<1>18. CASE ServerAdvances
  BY <1>18, <1>d DEF ServerAdvances
<1>19. CASE ServerScales
  BY <1>19 DEF ServerScales, RunStates
<1>20. CASE RunAborted
  BY <1>20 DEF RunAborted
<1>21. CASE Starts
  BY <1>21 DEF Starts, DaemonStart, Alive
<1>22. CASE PowerOff
  BY <1>22, <1>a DEF PowerOff, ExecCrash
<1>23. CASE AbortTold
  BY <1>23 DEF AbortTold
<1>24. CASE UNCHANGED execVars
  BY <1>24, ZenonT(30) DEF execVars
<1> QED
  BY <1>1, <1>2, <1>3, <1>4, <1>5, <1>6, <1>7, <1>8, <1>9, <1>10, <1>11, <1>12, <1>13, <1>14, <1>15, <1>16, <1>17, <1>18, <1>19, <1>20, <1>21, <1>22, <1>23, <1>24
  DEF ExecAct, ExecProgress, ExecFaulty, ExecEnvironment

-----------------------------------------------------------------------------
(* What is never taken back: the image, the scripts that ran, the abort of the run. *)
Kept ==
  /\ ximage' = ximage /\ xever \subseteq xever' /\ (xcut => xcut')
  /\ (xserver.abort => xserver'.abort) /\ xserver'.recovery = xserver.recovery

(* No step takes anything of that back. *)
LEMMA KeptBySteps == ASSUME ExecTypeOK, ProcInv, ExecAct PROVE Kept
<1> USE DEF ExecTypeOK, Kept, Die, Failing
<1>e. ASSUME NEW server, Raise(server),
             server \in {xserver, [xserver EXCEPT !.scale = "created"], [xserver EXCEPT !.scale = "operational"]}
      PROVE  ximage' = ximage /\ xever' = xever /\ xcut' = xcut
             /\ xserver'.abort /\ xserver'.recovery = xserver.recovery
  BY <1>e DEF Raise
<1>f. ASSUME ScriptRaises
      PROVE  ximage' = ximage /\ xever' = xever /\ xcut' = xcut
             /\ (xserver.abort => xserver'.abort) /\ xserver'.recovery = xserver.recovery
  BY <1>e, <1>f DEF ScriptRaises
<1>1. CASE ExecCreate
  BY <1>1 DEF ExecCreate
<1>2. CASE ExecStateDone
  BY <1>2 DEF ExecStateDone
<1>3. CASE ExecComplete
  BY <1>3 DEF ExecComplete
<1>4. CASE ExecPoll
  BY <1>4 DEF ExecPoll
<1>5. CASE ExecCall
  BY <1>5 DEF ExecCall, CallEffect
<1>6. CASE ExecLaunch
  BY <1>6 DEF ExecLaunch
<1>7. CASE ExecSeeEnd
  BY <1>7 DEF ExecSeeEnd, AfterScript
<1>8. CASE ExecSeeAbort
  BY <1>8 DEF ExecSeeAbort
<1>9. CASE ExecTerminate
  BY <1>9 DEF ExecTerminate, AfterScript
<1>10. CASE ExecCallFails
  BY <1>10 DEF ExecCallFails
<1>11. CASE ExecCompleteFails
  BY <1>11 DEF ExecCompleteFails
<1>12. CASE ExecCallRaises
  BY <1>12, <1>e DEF ExecCallRaises, CallEffect
<1>13. CASE ExecLaunchFails
  BY <1>13, <1>f DEF ExecLaunchFails
<1>14. CASE ExecInterrupted
  BY <1>14 DEF ExecInterrupted
<1>15. CASE ExecSigterm
  BY <1>15 DEF ExecSigterm
<1>16. CASE ScriptEnds
  BY <1>16 DEF ScriptEnds
<1>17. CASE OrphanEnds
  BY <1>17 DEF OrphanEnds
<1>18. CASE ServerAdvances
  BY <1>18 DEF ServerAdvances
<1>19. CASE ServerScales
  BY <1>19 DEF ServerScales
<1>20. CASE RunAborted
  BY <1>20 DEF RunAborted
<1>21. CASE Starts
  BY <1>21 DEF Starts, DaemonStart, Alive
<1>22. CASE PowerOff
  BY <1>22 DEF PowerOff, ExecCrash
<1>23. CASE AbortTold
  BY <1>23 DEF AbortTold
<1>24. CASE UNCHANGED execVars
  BY <1>24 DEF execVars
<1> QED
  BY <1>1, <1>2, <1>3, <1>4, <1>5, <1>6, <1>7, <1>8, <1>9, <1>10, <1>11, <1>12, <1>13, <1>14, <1>15, <1>16, <1>17, <1>18, <1>19, <1>20, <1>21, <1>22, <1>23, <1>24
  DEF ExecAct, ExecProgress, ExecFaulty, ExecEnvironment

(* So a reason to count as deployed stays one. *)
LEMMA ExcusedStays == ASSUME ExecTypeOK, ProcInv, ExecAct, Excused PROVE Excused'
<1>1. Kept
  BY KeptBySteps
<1>2. DeploymentSteps' = DeploymentSteps
  BY <1>1, SameDeployment DEF Kept
<1> QED BY <1>1, <1>2 DEF Kept, Excused

-----------------------------------------------------------------------------
(* The next step is one of those that are left, and the others are left after it. *)
LEMMA LeftPopped ==
  ASSUME ProcInv, xproc.todo # << >>
  PROVE  Todo \in Left /\ ToSet(Tail(xproc.todo)) = Left \ {Todo}
<1> DEFINE todo == xproc.todo
<1>1. todo \in Seq(Steps) /\ IsInjective(todo) /\ todo # << >>
  BY DEF ProcInv
<1>2. ToSet(todo) = {Head(todo)} \cup ToSet(Tail(todo)) /\ Head(todo) \notin ToSet(Tail(todo))
  BY <1>1, Popped
<1> QED BY <1>2 DEF Todo, Left

(* Nothing makes a VM count as deployed without a reason. *)
LEMMA HonestSteps == ASSUME ExecTypeOK, ProcInv, HonestInv, ExecAct PROVE HonestInv'
<1> SUFFICES ASSUME ~Excused' PROVE HonestInv'
  BY DEF HonestInv
<1>1. ExecTypeOK' /\ ProcInv' /\ Kept
  BY ExecTypes, ProcSteps, KeptBySteps
<1>2. ~Excused
  BY ExcusedStays
<1>3. /\ DeploymentSteps' = DeploymentSteps
      /\ \A s \in ToSet(DeploymentSteps) : s.target \in AbortsOnError
  BY <1>1, SameDeployment, DeploymentIs DEF Kept
<1>4. /\ ~xserver'.abort /\ ~xserver.recovery /\ ~xserver'.recovery /\ ~xcut'
      /\ ~(ToSet(DeploymentSteps) \subseteq xever')
  BY <1>1, <1>2, <1>3 DEF Excused, Kept
<1>5. /\ ~Deployed /\ xserver.scale # "operational" /\ ~xserver.adding /\ ~Called("operational")
      /\ ~(xproc.state = "Executing" /\ xproc.pc = "complete")
      /\ xproc.state = "Executing" /\ InState =>
           /\ xproc.guarded /\ ToSet(DeploymentSteps) \subseteq xever \cup Left
           /\ Left \subseteq ToSet(DeploymentSteps)
  BY <1>2 DEF HonestInv
<1> DEFINE Goal == /\ ~Deployed' /\ xserver'.scale # "operational" /\ ~xserver'.adding
                   /\ \A s \in Left' : s.target # "operational"
                   /\ ~(xproc'.state = "Executing" /\ xproc'.pc = "complete")
                   /\ xproc'.state = "Executing" /\ InState' =>
                        /\ xproc'.guarded /\ ToSet(DeploymentSteps) \subseteq xever' \cup Left'
                        /\ Left' \subseteq ToSet(DeploymentSteps)
<1>6. SUFFICES Goal
  BY <1>3 DEF HonestInv, Called
<1>7. ASSUME xproc.todo # << >>
      PROVE  Todo \in Left /\ ToSet(Tail(xproc.todo)) = Left \ {Todo}
  BY <1>7, LeftPopped
<1>8. ToSet(<< >>) = {} /\ ToSet(LastReport) = {Call("send"), Call("raise")}
      /\ Call("send").target = "send" /\ Call("raise").target = "raise"
  BY Emptied, LastReportIs DEF Call, Step
<1>9. xserver.state # "SendingReports"
      /\ \A send \in BOOLEAN :
           /\ xserver.state = "Executing" => ToSet(StepsOf(xserver.state, send)) = ToSet(DeploymentSteps)
           /\ \A s \in ToSet(StepsOf(xserver.state, send)) : s.target # "operational"
  <2>1. xserver.state \in RunStates /\ xserver.state # "SendingReports"
    BY <1>5 DEF Deployed, ExecTypeOK
  <2>2. \A s \in ToSet(DeploymentSteps) : s.target # "operational"
    BY <1>3 DEF AbortsOnError
  <2>3. Call("created").target = "created"
    BY DEF Call, Step
  <2> QED BY <1>4, <1>5, <2>1, <2>2, <2>3, StateIs
<1>10. ASSUME NEW server, Raise(server) PROVE FALSE
  <2>1. CASE xproc.guarded
    <3>1. xserver' = [server EXCEPT !.abort = TRUE]
      BY <1>10, <2>1 DEF Raise
    <3> QED BY <1>1, <1>4, <3>1 DEF ExecTypeOK
  <2>2. CASE ~xproc.guarded
    <3>1. xserver' = Failing
      BY <1>10, <2>2 DEF Raise
    <3> QED BY <1>4, <3>1 DEF Failing, ExecTypeOK
  <2> QED BY <2>1, <2>2
<1>11. xproc.state = "Executing" /\ InState =>
         \A s \in Left : s.target \in AbortsOnError /\ s.target \in Scripts /\ s.target # "report"
  BY <1>3, <1>5 DEF AbortsOnError, Scripts
<1> USE DEF At, InState, Left, Deployed, ProcInv, ExecTypeOK, Called
<1>s1. CASE ExecCreate
  BY <1>s1, <1>4, <1>5, <1>9 DEF ExecCreate, EnterState
<1>s2. CASE ExecStateDone
  BY <1>s2, <1>2, <1>5, <1>8 DEF ExecStateDone, Excused, NeedToComplete
<1>s3. CASE ExecComplete
  BY <1>s3, <1>5 DEF ExecComplete
<1>s4. CASE ExecPoll
  BY <1>s4, <1>4, <1>5, <1>9 DEF ExecPoll, EnterState
<1>s5. CASE ExecCall
  BY <1>s5, <1>5, <1>7, <1>11 DEF ExecCall, CallEffect, NextStep
<1>s6. CASE ExecLaunch
  BY <1>s6, <1>5 DEF ExecLaunch
<1>s7. CASE ExecSeeEnd
  BY <1>s7, <1>4, <1>5, <1>7, <1>11, ZenonT(60) DEF ExecSeeEnd, AfterScript, NextStep, Failing
<1>s8. CASE ExecSeeAbort
  BY <1>s8, <1>5 DEF ExecSeeAbort
<1>s9. CASE ExecTerminate
  BY <1>s9, <1>4, <1>5, <1>7, <1>11, ZenonT(60) DEF ExecTerminate, AfterScript, NextStep, Failing
<1>s10. CASE ExecCallFails
  BY <1>s10, <1>4 DEF ExecCallFails, Failing
<1>s11. CASE ExecCompleteFails
  BY <1>s11, <1>4 DEF ExecCompleteFails, Failing
<1>s12. CASE ExecCallRaises
  BY <1>s12, <1>10 DEF ExecCallRaises
<1>s13. CASE ExecLaunchFails
  BY <1>s13, <1>5, <1>7, <1>8, <1>10, <1>11 DEF ExecLaunchFails, ScriptRaises, NextStep, LastReport
<1>s14. CASE ExecInterrupted
  BY <1>s14, <1>4, <1>5, <1>7, <1>8, <1>11, ZenonT(30) DEF ExecInterrupted, NextStep, LastReport, Failing
<1>s15. CASE ExecSigterm
  BY <1>s15, <1>4, <1>5, <1>8 DEF ExecSigterm, NoProc
<1>s16. CASE ScriptEnds
  BY <1>s16, <1>5 DEF ScriptEnds
<1>s17. CASE OrphanEnds
  BY <1>s17, <1>5 DEF OrphanEnds
<1>s18. CASE ServerAdvances
  BY <1>s18, <1>5 DEF ServerAdvances, NextRunState
<1>s19. CASE ServerScales
  BY <1>s19, <1>5 DEF ServerScales
<1>s20. CASE RunAborted
  BY <1>s20, <1>4 DEF RunAborted, Failing
<1>s21. CASE Starts
  BY <1>s21, <1>5, <1>8, ZenonT(30) DEF Starts, DaemonStart, Alive, NoProc
<1>s22. CASE PowerOff
  BY <1>s22, <1>5, <1>8 DEF PowerOff, ExecCrash, NoProc
<1>s23. CASE AbortTold
  BY <1>s23, <1>4 DEF AbortTold, Failing
<1>s24. CASE UNCHANGED execVars
  BY <1>5, <1>s24 DEF execVars
<1> QED
  BY <1>s1, <1>s2, <1>s3, <1>s4, <1>s5, <1>s6, <1>s7, <1>s8, <1>s9, <1>s10, <1>s11, <1>s12, <1>s13, <1>s14, <1>s15, <1>s16, <1>s17, <1>s18, <1>s19, <1>s20, <1>s21, <1>s22, <1>s23, <1>s24
  DEF ExecAct, ExecProgress, ExecFaulty, ExecEnvironment

-----------------------------------------------------------------------------
(* An instance that is operational stays so: it is created only while it is not. *)
LEMMA SettledStays == ASSUME ExecTypeOK, ProcInv, OnceInv, ExecAct, Settled PROVE Settled'
<1>1. Kept
  BY KeptBySteps
<1>2. CASE xserver.recovery
  BY <1>1, <1>2 DEF Kept, Settled
<1>3. CASE ~xserver.recovery
  <2>1. xserver.scale = "operational" /\ ~Called("created")
    BY <1>3 DEF Settled, OnceInv, CreatingStepInv
  <2>2. xproc.todo # << >> => Todo.target # "created"
    BY <2>1, LeftPopped DEF Called
  <2>3. xproc.todo # << >> => CallEffect(Todo.target).scale = "operational"
    BY <2>1, <2>2 DEF CallEffect, ExecTypeOK
  <2>4. ASSUME NEW server, Raise(server), server.scale = "operational",
               server \in [state : RunStates, done : BOOLEAN, abort : BOOLEAN, adding : BOOLEAN,
                           scale : {"creating", "created", "operational"}, recovery : BOOLEAN]
        PROVE  xserver'.scale = "operational"
    BY <2>1, <2>4 DEF Raise, Failing, ExecTypeOK
  <2>5. xproc.todo # << >> =>
          CallEffect(Todo.target) \in [state : RunStates, done : BOOLEAN, abort : BOOLEAN,
            adding : BOOLEAN, scale : {"creating", "created", "operational"}, recovery : BOOLEAN]
    BY DEF CallEffect, ExecTypeOK
  <2> QED
    <3> USE <2>1 DEF ExecTypeOK, Settled, Failing
    <3>s1. CASE ExecCreate
      BY <3>s1 DEF ExecCreate
    <3>s2. CASE ExecStateDone
      BY <3>s2 DEF ExecStateDone
    <3>s3. CASE ExecComplete
      BY <3>s3 DEF ExecComplete
    <3>s4. CASE ExecPoll
      BY <3>s4 DEF ExecPoll
    <3>s5. CASE ExecCall
      BY <3>s5, <2>3 DEF ExecCall
    <3>s6. CASE ExecLaunch
      BY <3>s6 DEF ExecLaunch
    <3>s7. CASE ExecSeeEnd
      BY <3>s7 DEF ExecSeeEnd, AfterScript
    <3>s8. CASE ExecSeeAbort
      BY <3>s8 DEF ExecSeeAbort
    <3>s9. CASE ExecTerminate
      BY <3>s9 DEF ExecTerminate, AfterScript
    <3>s10. CASE ExecCallFails
      BY <3>s10 DEF ExecCallFails
    <3>s11. CASE ExecCompleteFails
      BY <3>s11 DEF ExecCompleteFails
    <3>s12. CASE ExecCallRaises
      BY <3>s12, <2>3, <2>4, <2>5 DEF ExecCallRaises
    <3>s13. CASE ExecLaunchFails
      BY <3>s13, <2>4 DEF ExecLaunchFails, ScriptRaises
    <3>s14. CASE ExecInterrupted
      BY <3>s14 DEF ExecInterrupted
    <3>s15. CASE ExecSigterm
      BY <3>s15 DEF ExecSigterm
    <3>s16. CASE ScriptEnds
      BY <3>s16 DEF ScriptEnds
    <3>s17. CASE OrphanEnds
      BY <3>s17 DEF OrphanEnds
    <3>s18. CASE ServerAdvances
      BY <3>s18 DEF ServerAdvances
    <3>s19. CASE ServerScales
      BY <3>s19 DEF ServerScales
    <3>s20. CASE RunAborted
      BY <3>s20 DEF RunAborted
    <3>s21. CASE Starts
      BY <3>s21 DEF Starts, DaemonStart, Alive
    <3>s22. CASE PowerOff
      BY <3>s22 DEF PowerOff, ExecCrash
    <3>s23. CASE AbortTold
      BY <3>s23 DEF AbortTold
    <3>s24. CASE UNCHANGED execVars
      BY <2>1, <3>s24 DEF execVars
    <3> QED
      BY <3>s1, <3>s2, <3>s3, <3>s4, <3>s5, <3>s6, <3>s7, <3>s8, <3>s9, <3>s10, <3>s11, <3>s12, <3>s13, <3>s14, <3>s15, <3>s16, <3>s17, <3>s18, <3>s19, <3>s20, <3>s21, <3>s22, <3>s23, <3>s24
      DEF ExecAct, ExecProgress, ExecFaulty, ExecEnvironment
<1> QED BY <1>2, <1>3

(* Most steps leave the run where it is, and stop the executor, take it to its reports or *)
(* leave it in its place.                                                                 *)
SameRun ==
  /\ xserver'.state = xserver.state /\ xserver'.adding = xserver.adding
  /\ xserver'.done => xserver.done \/ xserver'.abort
  /\ xserver.abort => xserver'.abort
Stops == SameRun /\ xproc'.pc \in {"off", "dead"} /\ Left' = {}
Reports ==
  /\ SameRun /\ Alive /\ xproc'.pc = "run" /\ xproc'.state = xproc.state /\ xran' = xran
  /\ \A s \in Left' : s.target \notin AbortsOnError \cup {"created"}
  /\ \E s \in Left' : s.target \in {"operational", "raise"}
StaysThere ==
  /\ SameRun /\ xserver'.scale = xserver.scale
  /\ xproc'.pc = xproc.pc \/ (InState /\ InState')
  /\ xproc'.state = xproc.state /\ Left' = Left /\ xran' = xran

(* Such steps keep the invariant, if the instance stays settled. *)
LEMMA OnceFrame ==
  ASSUME OnceInv, Settled => Settled', Stops \/ Reports \/ StaysThere PROVE OnceInv'
<1> USE DEF OnceInv, SameRun
<1>1. ScaledInv'
  BY DEF ScaledInv, Stops, Reports, StaysThere
<1>2. ReportingInv'
  BY DEF ReportingInv, Stops, Reports, StaysThere, InState, Called
<1>3. CreatingStepInv'
  BY DEF CreatingStepInv, Stops, Reports, StaysThere, Called
<1>4. ReachedInv'
  BY DEF ReachedInv, Stops, Reports, StaysThere, InState, Alive
<1>5. RanInv'
  BY DEF RanInv, Stops, Reports, StaysThere, InState, Alive
<1>6. FreshInv'
  BY DEF FreshInv, Stops, Reports, StaysThere
<1>7. NewInv'
  BY DEF NewInv, Stops, Reports, StaysThere, InState
<1> QED BY <1>1, <1>2, <1>3, <1>4, <1>5, <1>6, <1>7

(* An executor deploys its VM once: it comes to Executing again only when it is settled. *)
LEMMA OnceSteps == ASSUME ExecTypeOK, ProcInv, OnceInv, ExecAct PROVE OnceInv'
<1>1. Settled => Settled'
  BY SettledStays
<1>2. SUFFICES ASSUME ~(Stops \/ Reports \/ StaysThere) PROVE OnceInv'
  BY <1>1, OnceFrame
<1>3. xproc.todo # << >> => Todo \in Left /\ ToSet(Tail(xproc.todo)) = Left \ {Todo}
  BY LeftPopped
<1>4. ToSet(<< >>) = {} /\ ToSet(LastReport) = {Call("send"), Call("raise")}
      /\ Call("send").target = "send" /\ Call("raise").target = "raise"
  BY Emptied, LastReportIs DEF Call, Step
<1>5. /\ \E s \in ToSet(SendingReports(xproc.send)) : s.target = "operational"
      /\ \A s \in ToSet(SendingReports(xproc.send)) : s.target \in {"report", "send", "operational"}
  <2>1. xproc.send \in BOOLEAN /\ Call("operational").target = "operational"
    BY DEF ProcInv, Call, Step
  <2> QED BY <2>1, ReportingIs
<1> DEFINE Entered == ToSet(StepsOf(xserver.state, xproc.send))
<1>6. /\ \A s \in Entered : s.target = "created" =>
             xserver.scale = "creating" /\ Entered = {Call("created")}
      /\ xserver.state = "SendingReports" => \E s \in Entered : s.target = "operational"
      /\ \A s \in Entered : s.target \in AbortsOnError => xserver.state = "Executing" /\ ~Settled
  <2>1. xproc.send \in BOOLEAN /\ xserver.state \in RunStates
    BY DEF ProcInv, ExecTypeOK
  <2>2. Call("operational").target = "operational" /\ Call("created").target = "created"
    BY DEF Call, Step
  <2>3. \A s \in ToSet(DeploymentSteps) : s.target \in AbortsOnError
    BY DeploymentIs
  <2>4. CASE xserver.state = "Provisioning"
    <3>1. Entered = IF xserver.scale = "creating" THEN {Call("created")} ELSE {}
      BY <2>1, <2>4, StateIs, ZenonT(30)
    <3> QED BY <2>2, <2>4, <3>1 DEF AbortsOnError
  <2>5. CASE xserver.state = "Executing"
    <3>1. IF Settled THEN \A s \in Entered : s.target = "onvmadd" ELSE Entered = ToSet(DeploymentSteps)
      BY <2>1, <2>5, StateIs DEF Settled
    <3> QED BY <2>3, <2>5, <3>1 DEF AbortsOnError
  <2>6. CASE xserver.state = "SendingReports"
    <3>1. /\ Call("operational") \in Entered
          /\ \A s \in Entered : s.target \in {"report", "send", "operational"}
      BY <2>1, <2>6, StateIs
    <3> QED BY <2>2, <2>6, <3>1 DEF AbortsOnError
  <2>7. CASE xserver.state \notin {"Provisioning", "Executing", "SendingReports"}
    <3>1. \A s \in Entered : s.target = "raise"
      BY <2>1, <2>7, StateIs
    <3> QED BY <2>7, <3>1 DEF AbortsOnError
  <2> QED BY <2>4, <2>5, <2>6, <2>7
<1> HIDE DEF Entered
<1>7. /\ xserver' = xserver => (Settled' <=> Settled) /\ SameRun
      /\ xserver' = Failing => SameRun
  BY DEF Settled, SameRun, Failing, ExecTypeOK
<1>8. /\ xproc.pc \in Places /\ (xproc.pc \in {"wait", "term"} => xproc.todo # << >> /\ Todo.target \in Scripts)
      /\ xproc.pc = "complete" => xproc.todo = << >>
  BY DEF ProcInv
<1>9. ASSUME xproc'.pc = "run", xproc'.state = xproc.state, xran' = xran, SameRun, Alive,
             xproc'.todo \in {SendingReports(xproc.send), LastReport}
      PROVE  FALSE
  <2>1. /\ \E s \in Left' : s.target \in {"operational", "raise"}
        /\ \A s \in Left' : s.target \in {"report", "send", "operational", "raise"}
    BY <1>4, <1>5, <1>9 DEF Left
  <2> QED BY <1>2, <1>9, <2>1 DEF Reports, AbortsOnError
<1>10. ASSUME xproc'.pc \in {"off", "dead"}, xproc'.todo = << >>, SameRun PROVE FALSE
  BY <1>2, <1>4, <1>10 DEF Stops, Left
<1>11. ASSUME xproc' = xproc, xran' = xran, SameRun, xserver'.scale = xserver.scale PROVE FALSE
  BY <1>2, <1>11 DEF StaysThere, Left
<1>12. ASSUME NEW server, Raise(server), server \in {xserver, CallEffect(Todo.target)},
              xproc.pc = "run"
       PROVE  FALSE
  <2>1. SameRun
    <3>1. xserver' = [server EXCEPT !.abort = TRUE] \/ xserver' = Failing
      BY <1>12 DEF Raise
    <3>2. CASE xserver' = [server EXCEPT !.abort = TRUE]
      BY <1>12, <3>2 DEF CallEffect, SameRun, ExecTypeOK
    <3> QED BY <1>7, <3>1, <3>2
  <2>2. CASE xproc.guarded
    BY <1>9, <1>12, <2>1, <2>2 DEF Raise, Alive, ProcInv
  <2>3. CASE ~xproc.guarded
    BY <1>10, <1>12, <2>1, <2>3 DEF Raise, Die, NoProc
  <2> QED BY <2>2, <2>3
<1>13. ASSUME NEW ended, AfterScript(ended), xproc.pc \in {"wait", "term"} PROVE OnceInv'
  <2>1. xproc.todo # << >> /\ Todo \in Left /\ ToSet(Tail(xproc.todo)) = Left \ {Todo}
        /\ Todo.target # "created" /\ Todo.target # "operational" /\ Todo.target # "raise"
    BY <1>3, <1>8, <1>13 DEF Scripts
  <2>2. /\ xproc'.pc = "run" /\ xproc'.state = xproc.state
        /\ \/ /\ Left' = Left \ {Todo} /\ UNCHANGED xserver
              /\ xran' = xran \cup {Todo} \/ xran' = xran
           \/ /\ Left' = {} /\ xserver' = Failing /\ xran' = xran
              /\ Todo.target \in AbortsOnError
    <3> USE DEF Left, ProcInv
    <3>1. CASE ended = "ok"
      BY <1>13, <2>1, <3>1 DEF AfterScript, NextStep
    <3>2. CASE ended # "ok" /\ Todo.target \in AbortsOnError
      BY <1>4, <1>13, <3>2 DEF AfterScript
    <3>3. CASE ended # "ok" /\ Todo.target \notin AbortsOnError
      BY <1>13, <2>1, <3>3 DEF AfterScript, NextStep
    <3> QED BY <3>1, <3>2, <3>3
  <2>3. SameRun /\ xserver'.scale = xserver.scale /\ xserver'.done = xserver.done
    BY <1>7, <2>2 DEF Failing, ExecTypeOK
  <2>4. Todo.target \in AbortsOnError => Todo \notin xran /\ xproc.state = "Executing"
    BY <2>1 DEF OnceInv, FreshInv
  <2>5. /\ Left' \subseteq Left
        /\ xproc.state = "SendingReports" /\ (\E s \in Left : s.target \in {"operational", "raise"})
             => \E s \in Left' : s.target \in {"operational", "raise"}
    BY <2>1, <2>2, <2>4
  <2> USE DEF OnceInv, SameRun
  <2>6. ScaledInv'
    BY <1>1, <2>3 DEF ScaledInv
  <2>7. ReportingInv'
    BY <1>1, <1>13, <2>2, <2>3, <2>5 DEF ReportingInv, InState, Called
  <2>8. CreatingStepInv'
    BY <2>1, <2>2, <2>3 DEF CreatingStepInv, Called
  <2>9. ReachedInv'
    BY <1>1, <1>13, <2>2, <2>3 DEF ReachedInv, Alive
  <2>10. RanInv'
    BY <1>1, <1>13, <2>2, <2>3, <2>4 DEF RanInv, ReachedInv, Alive
  <2>11. FreshInv'
    BY <2>2 DEF FreshInv
  <2>12. NewInv'
    BY <2>2 DEF NewInv
  <2> QED BY <2>6, <2>7, <2>8, <2>9, <2>10, <2>11, <2>12
<1> USE DEF At, InState, Alive, Left, Called, Later, ScaledInv, ReportingInv, CreatingStepInv, ReachedInv, RanInv, FreshInv, NewInv, OnceInv
<1>s1. CASE ExecCreate
  BY <1>s1, <1>1, <1>6, <1>7 DEF ExecCreate, EnterState, Entered, ProcInv
<1>s2. CASE ExecStateDone
  BY <1>s2, <1>1, <1>4, <1>7 DEF ExecStateDone, NeedToComplete, ProcInv
<1>s3. CASE ExecComplete
  BY <1>s3, <1>1, <1>4, <1>7 DEF ExecComplete, ProcInv, ExecTypeOK
<1>s4. CASE ExecPoll
  BY <1>s4, <1>1, <1>6, <1>7 DEF ExecPoll, EnterState, Entered, ProcInv
<1>s5. CASE ExecCall
  BY <1>s5, <1>1, <1>3, ZenonT(30) DEF ExecCall, CallEffect, NextStep, Settled, Scripts, AbortsOnError, ProcInv, ExecTypeOK
<1>s6. CASE ExecLaunch
  BY <1>s6, <1>2, <1>7 DEF ExecLaunch, StaysThere, ProcInv
<1>s7. CASE ExecSeeEnd
  BY <1>s7, <1>13 DEF ExecSeeEnd
<1>s8. CASE ExecSeeAbort
  BY <1>s8, <1>2, <1>7 DEF ExecSeeAbort, StaysThere, ProcInv
<1>s9. CASE ExecTerminate
  BY <1>s9, <1>13 DEF ExecTerminate
<1>s10. CASE ExecCallFails
  BY <1>s10, <1>7, <1>10 DEF ExecCallFails, Die, NoProc
<1>s11. CASE ExecCompleteFails
  <2>1. SameRun
    BY <1>s11 DEF ExecCompleteFails, SameRun, Failing, ExecTypeOK
  <2> QED BY <1>s11, <1>10, <2>1 DEF ExecCompleteFails, Die, NoProc
<1>s12. CASE ExecCallRaises
  BY <1>s12, <1>12 DEF ExecCallRaises
<1>s13. CASE ExecLaunchFails
  BY <1>s13, <1>7, <1>9, <1>12 DEF ExecLaunchFails, ScriptRaises, NextStep, LastReport, ProcInv
<1>s14. CASE ExecInterrupted
  BY <1>s14, <1>7, <1>9 DEF ExecInterrupted, NextStep, LastReport, ProcInv
<1>s15. CASE ExecSigterm
  BY <1>s15, <1>7, <1>9, <1>10 DEF ExecSigterm, NoProc, ProcInv
<1>s16. CASE ScriptEnds
  BY <1>s16, <1>7, <1>11 DEF ScriptEnds
<1>s17. CASE OrphanEnds
  BY <1>s17, <1>7, <1>11 DEF OrphanEnds
<1>s18. CASE ServerAdvances
  BY <1>s18, <1>1, ZenonT(30) DEF ServerAdvances, NextRunState, RunStates, ExecTypeOK
<1>s19. CASE ServerScales
  BY <1>s19, <1>1 DEF ServerScales, ExecTypeOK
<1>s20. CASE RunAborted
  BY <1>s20, <1>7, <1>11 DEF RunAborted, Failing, ExecTypeOK
<1>s21. CASE Starts
  <2>1. CASE xproc' = [NoProc EXCEPT !.pc = "create"]
    BY <1>s21, <1>1, <1>4, <1>7, <2>1 DEF Starts, DaemonStart, Alive, NoProc
  <2>2. CASE xproc' = IF At("off") THEN [xproc EXCEPT !.pc = "dead"] ELSE xproc
    BY <1>s21, <1>1, <1>7, <2>2 DEF Starts, DaemonStart, Alive, NoProc, ProcInv
  <2> QED BY <1>s21, <2>1, <2>2 DEF Starts, DaemonStart, Alive
<1>s22. CASE PowerOff
  BY <1>s22, <1>7, <1>10 DEF PowerOff, ExecCrash, NoProc
<1>s23. CASE AbortTold
  BY <1>s23, <1>7, <1>11 DEF AbortTold, Failing, ExecTypeOK
<1>s24. CASE UNCHANGED execVars
  BY <1>s24, <1>7, <1>11 DEF execVars
<1> QED
  BY <1>s1, <1>s2, <1>s3, <1>s4, <1>s5, <1>s6, <1>s7, <1>s8, <1>s9, <1>s10, <1>s11, <1>s12, <1>s13, <1>s14, <1>s15, <1>s16, <1>s17, <1>s18, <1>s19, <1>s20, <1>s21, <1>s22, <1>s23, <1>s24
  DEF ExecAct, ExecProgress, ExecFaulty, ExecEnvironment

-----------------------------------------------------------------------------
(* Only a launch makes the executor wait, and what it launches is still to be done. *)
LEMMA LaunchOnly ==
  ASSUME ExecTypeOK, ProcInv, OnceInv, ExecAct, At("run"), xproc'.pc = "wait"
  PROVE  Todo \notin xran \/ Todo.target \in {"report", "onvmadd"}
<1>1. CASE ExecLaunch
  <2>1. Todo \in Left /\ Todo.target \in Scripts
    BY <1>1, LeftPopped DEF ExecLaunch
  <2> QED BY <2>1 DEF OnceInv, FreshInv, Scripts, AbortsOnError
<1>2. CASE ~ExecLaunch
  <2> SUFFICES ASSUME TRUE PROVE FALSE
    OBVIOUS
  <2> USE DEF At, ProcInv
  <2>1. ASSUME NEW server, Raise(server) PROVE xproc'.pc \in {"run", "dead"}
    BY <2>1 DEF Raise, Die, NoProc
  <2>2. ScriptRaises => xproc'.pc \in {"run", "dead"}
    BY <2>1 DEF ScriptRaises, NextStep
  <2>3. CASE ExecCreate
    BY <2>3 DEF ExecCreate, EnterState
  <2>4. CASE ExecStateDone
    BY <2>4 DEF ExecStateDone
  <2>5. CASE ExecComplete
    BY <2>5 DEF ExecComplete
  <2>6. CASE ExecPoll
    BY <2>6 DEF ExecPoll, EnterState
  <2>7. CASE ExecCall
    BY <2>7 DEF ExecCall, NextStep
  <2>8. CASE ExecSeeEnd
    BY <2>8 DEF ExecSeeEnd
  <2>9. CASE ExecSeeAbort
    BY <2>9 DEF ExecSeeAbort
  <2>10. CASE ExecTerminate
    BY <2>10 DEF ExecTerminate
  <2>11. CASE ExecCallFails
    BY <2>11 DEF ExecCallFails
  <2>12. CASE ExecCompleteFails
    BY <2>12 DEF ExecCompleteFails
  <2>13. CASE ExecCallRaises
    BY <2>13, <2>1 DEF ExecCallRaises
  <2>14. CASE ExecLaunchFails
    BY <2>14, <2>2 DEF ExecLaunchFails
  <2>15. CASE ExecInterrupted
    BY <2>15 DEF ExecInterrupted
  <2>16. CASE ExecSigterm
    BY <2>16 DEF ExecSigterm, NoProc
  <2>17. CASE ScriptEnds
    BY <2>17 DEF ScriptEnds
  <2>18. CASE OrphanEnds
    BY <2>18 DEF OrphanEnds
  <2>19. CASE ServerAdvances
    BY <2>19 DEF ServerAdvances
  <2>20. CASE ServerScales
    BY <2>20 DEF ServerScales
  <2>21. CASE RunAborted
    BY <2>21 DEF RunAborted
  <2>22. CASE Starts
    BY <2>22 DEF Starts, DaemonStart, Alive, NoProc
  <2>23. CASE PowerOff
    BY <2>23 DEF PowerOff, ExecCrash, NoProc
  <2>24. CASE AbortTold
    BY <2>24 DEF AbortTold
  <2>25. CASE UNCHANGED execVars
    BY <2>25 DEF execVars
  <2> QED
    BY <1>2, <2>3, <2>4, <2>5, <2>6, <2>7, <2>8, <2>9, <2>10, <2>11, <2>12, <2>13, <2>14, <2>15, <2>16, <2>17, <2>18, <2>19, <2>20, <2>21, <2>22, <2>23, <2>24, <2>25
    DEF ExecAct, ExecProgress, ExecFaulty, ExecEnvironment
<1> QED BY <1>1, <1>2
-----------------------------------------------------------------------------
(* The client is the business of a script that does not find the lock, and the executor     *)
(* only runs where there is one.                                                            *)
Locked ==
  /\ bmem.dir = "connector" => bdisk.lock
  /\ bpc \in {"executor", "register", "start", "started"} => bdisk.lock
  /\ bdisk.service # "none" => bdisk.lock
ClientInv == mstarts \in BOOLEAN /\ Locked /\ (mstarts \/ Alive => bdisk.lock)

(* The bootstrap script after its lock: where it goes on, and what it registers. *)
LEMMA LockedSteps ==
  BootInv /\ Locked /\ [BootNext]_bootVars => Locked' /\ (bdisk.lock => bdisk'.lock)
<1> SUFFICES ASSUME BootInv, Locked, [BootNext]_bootVars
             PROVE  Locked' /\ (bdisk.lock => bdisk'.lock)
  OBVIOUS
<1>a. Typed
  BY TypesAre DEF BootInv
<1>b. bmem.dir \in Dirs
  BY <1>a DEF Typed, Memories
<1> USE <1>a, <1>b DEF Locked, Is, Go, Typed, Disks
<1>1. CASE BootRun
  BY <1>1 DEF BootRun, Process, BootMem0
<1>2. CASE BootRerun
  BY <1>2 DEF BootRerun, Process, BootMem0, Keep, Memories
<1>3. CASE BootSetup
  BY <1>3 DEF BootSetup, AfterClient, BootInv, LockedOut, Memories
<1>4. CASE BootCompare
  BY <1>4 DEF BootCompare, AfterTarball, Dirs
<1>5. CASE BootWipe
  BY <1>5 DEF BootWipe
<1>6. CASE BootDownload
  BY <1>6 DEF BootDownload, Keep, Memories
<1>7. CASE BootExtract
  BY <1>7 DEF BootExtract, AfterTarball, Dirs
<1>8. CASE BootExtractRaises
  BY <1>8 DEF BootExtractRaises, BootRaise, Keep
<1>9. CASE BootPersist
  BY <1>9 DEF BootPersist, Memories
<1>10. CASE BootJob
  BY <1>10 DEF BootJob, JobDone
<1>11. CASE BootNoManager
  BY <1>11 DEF BootNoManager, BootRaise, Keep
<1>12. CASE BootPipNeedsCert
  BY <1>12 DEF BootPipNeedsCert, Keep
<1>13. CASE BootGetCert
  BY <1>13 DEF BootGetCert
<1>14. CASE BootLock
  BY <1>14 DEF BootLock, AfterClient
<1>15. CASE BootExecutorConfig
  BY <1>15 DEF BootExecutorConfig, FallBack
<1>16. CASE BootRegister
  BY <1>16 DEF BootRegister, FallBack
<1>17. CASE BootStartExecutor
  BY <1>17 DEF BootStartExecutor
<1>18. CASE BootAuthenticate
  BY <1>18 DEF BootAuthenticate, BootFailed, Keep, Memories
<1>19. CASE BootPut
  BY <1>19 DEF BootPut, BootFailed
<1>20. CASE BootTryFails
  <2>1. bmem'.dir = bmem.dir /\ bpc' \in {bpc, "authn", "failed"} /\ bpc \in BootSteps
    BY <1>20 DEF BootTryFails, BootFailed, Keep, Memories
  <2>2. bdisk'.lock = bdisk.lock /\ bdisk'.service = bdisk.service
    BY <1>20 DEF BootTryFails
  <2> QED BY <2>1, <2>2 DEF BootSteps
<1>21. CASE BootCrash
  BY <1>21 DEF BootCrash, BootMem0
<1>22. CASE UNCHANGED bootVars
  BY <1>22 DEF bootVars
<1> QED BY <1>1, <1>2, <1>3, <1>4, <1>5, <1>6, <1>7, <1>8, <1>9, <1>10, <1>11, <1>12, <1>13, <1>14, <1>15, <1>16, <1>17, <1>18, <1>19, <1>20, <1>21, <1>22
       DEF BootNext, BootStep

Installs == {"compare", "wipe", "download", "extract"}

(* Behind the lock no step of the script, but for the end of its boot, touches the client. *)
LEMMA ClientKept ==
  BootInv /\ bdisk.lock /\ [BootStep]_bootVars => bdisk'.tree["client"] = bdisk.tree["client"]
<1> SUFFICES ASSUME BootInv, bdisk.lock, [BootStep]_bootVars
             PROVE  bdisk'.tree["client"] = bdisk.tree["client"]
  OBVIOUS
<1>a. Typed
  BY TypesAre DEF BootInv
<1>b. bpc \in Installs => bmem.dir = "connector"
  BY DEF BootInv, LockedOut, Installs
<1> USE <1>a, <1>b DEF Installs, Is, Typed, Disks
<1>1. CASE BootWipe \/ BootDownload \/ BootExtract \/ BootExtractRaises
  <2>1. bmem.dir = "connector" /\ \A left \in Contents :
          [bdisk EXCEPT !.tree[bmem.dir] = left].tree["client"] = bdisk.tree["client"]
    BY <1>1 DEF BootWipe, BootDownload, BootExtract, BootExtractRaises
  <2>2. CASE BootWipe
    BY <2>1, <2>2 DEF BootWipe
  <2>3. CASE BootDownload
    BY <2>3 DEF BootDownload
  <2>4. CASE BootExtract
    BY <2>1, <2>4 DEF BootExtract, Contents
  <2>5. CASE BootExtractRaises
    BY <2>1, <2>5 DEF BootExtractRaises, Contents
  <2> QED BY <1>1, <2>2, <2>3, <2>4, <2>5
<1>2. CASE BootPersist \/ BootJob \/ BootLock \/ BootExecutorConfig \/ BootRegister
  BY <1>2 DEF BootPersist, BootJob, JobDone, BootLock, BootExecutorConfig, BootRegister
<1>3. CASE BootTryFails
  BY <1>3 DEF BootTryFails
<1>4. CASE \/ BootRun \/ BootRerun \/ BootSetup \/ BootCompare \/ BootNoManager \/ BootPipNeedsCert
           \/ BootGetCert \/ BootStartExecutor \/ BootAuthenticate \/ BootPut \/ UNCHANGED bootVars
  BY <1>4 DEF BootRun, BootRerun, BootSetup, BootCompare, BootNoManager, BootPipNeedsCert, BootGetCert,
       BootStartExecutor, BootAuthenticate, BootPut, bootVars
<1> QED BY <1>1, <1>2, <1>3, <1>4 DEF BootStep

-----------------------------------------------------------------------------
(* A step of the VM is a step of the script and one of the executor, and only a start by *)
(* the script or by the init system brings an executor to life.                           *)
LEMMA Halves ==
  ASSUME [MachineNext]_machineVars
  PROVE  /\ [BootNext]_bootVars /\ ExecAct
         /\ Alive' => Alive \/ mstarts \/ bpc = "start"
         /\ mstarts' => mstarts \/ bdisk.service # "none"
         /\ [BootStep]_bootVars \/ xproc'.pc = "off"
         /\ mstarts' \in BOOLEAN \/ UNCHANGED mstarts
<1>1. CASE BootstrapRuns
  <2>1. BootStep /\ (AbortTold \/ UNCHANGED execVars)
    BY <1>1 DEF BootstrapRuns, BootStep, AbortTold, execVars
  <2> QED BY <1>1, <2>1 DEF BootNext, ExecAct, BootstrapRuns, Alive
<1>2. CASE BootstrapStartsExecutor
  BY <1>2 DEF BootstrapStartsExecutor, BootStartExecutor, BootStep, BootNext, ExecAct, Starts, Is, Alive, execVars
<1>3. CASE InitStartsExecutor
  BY <1>3 DEF InitStartsExecutor, ExecAct, Starts, bootVars
<1>4. CASE ExecutorRuns
  BY <1>4 DEF ExecutorRuns, ExecAct, bootVars
<1>5. CASE AroundExecutor
  <2>1. xproc' = xproc
    BY <1>5 DEF AroundExecutor, ExecEnvironment, ScriptEnds, OrphanEnds, ServerAdvances, ServerScales, RunAborted
  <2> QED BY <1>5, <2>1 DEF AroundExecutor, ExecAct, bootVars, Alive
<1>6. CASE PowerCycle
  <2>1. xproc'.pc = "off" /\ PowerOff
    BY <1>6 DEF PowerCycle, ExecCrash, PowerOff, NoProc
  <2> QED BY <1>6, <2>1 DEF PowerCycle, BootNext, ExecAct, Alive
<1>7. CASE UNCHANGED machineVars
  BY <1>7 DEF machineVars, execVars, bootVars, ExecAct, Alive
<1> QED BY <1>1, <1>2, <1>3, <1>4, <1>5, <1>6, <1>7 DEF MachineNext, MachineProgress

(* All that holds between any two steps of the life of a VM. *)
MachineInv == BootInv /\ ExecTypeOK /\ ProcInv /\ HonestInv /\ OnceInv /\ ClientInv

(* A VM starts with the invariant: nothing is installed and nothing ran. *)
LEMMA MachineStarts == MachineInit => MachineInv
<1> SUFFICES ASSUME MachineInit PROVE MachineInv
  OBVIOUS
<1>1. BootInv
  BY BootStarts DEF MachineInit
<1>2. PICK recovery \in BOOLEAN :
        xserver = [state |-> "Provisioning", done |-> FALSE, abort |-> FALSE, scale |-> "creating",
                   adding |-> FALSE, recovery |-> recovery]
  BY DEF MachineInit, ExecInit
<1>3. /\ xproc = NoProc /\ xscript = "none" /\ xorphan = FALSE /\ xpid = "none" /\ xran = {}
      /\ xever = {} /\ xcut = FALSE /\ xfaults = 0 /\ ximage \in SUBSET Modules /\ mstarts = FALSE
  BY ImagesAssumption DEF MachineInit, ExecInit, Modules
<1>4. << >> \in Seq(Steps) /\ IsInjective(<< >>) /\ ToSet(<< >>) = {}
  BY Emptied
<1>5. ExecTypeOK
  <2>1. /\ xserver.state \in RunStates /\ xserver.scale = "creating"
        /\ xserver \in [state : RunStates, done : BOOLEAN, abort : BOOLEAN, adding : BOOLEAN,
                        scale : {"creating", "created", "operational"}, recovery : BOOLEAN]
    BY <1>2 DEF RunStates
  <2>2. 0 \in 0 .. MaxExecFaults
    BY ExecFaultsAssumption
  <2> QED BY <1>3, <2>1, <2>2 DEF ExecTypeOK, NoProc
<1>6. ProcInv
  BY <1>3, <1>4 DEF ProcInv, NoProc, Places
<1>7. HonestInv
  BY <1>2, <1>3, <1>4 DEF HonestInv, Deployed, Called, Left, NoProc, InState
<1>8. OnceInv
  BY <1>2, <1>3, <1>4 DEF OnceInv, ScaledInv, ReportingInv, CreatingStepInv, ReachedInv, RanInv, FreshInv,
       NewInv, Left, Called, NoProc, InState, Alive
<1>9. ClientInv
  <2>1. bpc = "off" /\ bmem.dir = "client" /\ bdisk.service = "none"
    BY DEF MachineInit, BootInit, BootDisk0, BootMem0
  <2> QED BY <1>3, <2>1 DEF ClientInv, Locked, Alive, NoProc
<1> QED BY <1>1, <1>5, <1>6, <1>7, <1>8, <1>9 DEF MachineInv

(* The halves put together. *)
LEMMA MachineSteps == MachineInv /\ [MachineNext]_machineVars => MachineInv'
<1> SUFFICES ASSUME MachineInv, [MachineNext]_machineVars PROVE MachineInv'
  OBVIOUS
<1>1. /\ [BootNext]_bootVars /\ ExecAct /\ (Alive' => Alive \/ mstarts \/ bpc = "start")
      /\ mstarts' => mstarts \/ bdisk.service # "none"
      /\ mstarts' \in BOOLEAN \/ UNCHANGED mstarts
  BY Halves
<1>2. BootInv'
  BY <1>1, BootTypes, StepCutKnown, StepLockedOut, StepBeforeLock, StepJobsSuffice,
     StepLockMeansInstalled, StepConfigFits DEF MachineInv, BootInv
<1>3. ExecTypeOK' /\ ProcInv'
  BY <1>1, ExecTypes, ProcSteps DEF MachineInv
<1>4. HonestInv' /\ OnceInv'
  BY <1>1, HonestSteps, OnceSteps DEF MachineInv
<1>5. ClientInv'
  <2>1. Locked' /\ (bdisk.lock => bdisk'.lock)
    BY <1>1, LockedSteps DEF MachineInv, ClientInv, Locked
  <2>2. mstarts \/ Alive \/ bpc = "start" \/ bdisk.service # "none" => bdisk.lock
    BY DEF MachineInv, ClientInv, Locked
  <2> QED BY <1>1, <2>1, <2>2 DEF MachineInv, ClientInv, Locked
<1> QED BY <1>2, <1>3, <1>4, <1>5 DEF MachineInv

-----------------------------------------------------------------------------
(* Any life of a VM, through power cycles, signals and failed calls, keeps the invariant. *)
THEOREM MachineInvariance == MachineSpec => []MachineInv
BY MachineStarts, MachineSteps, PTL DEF MachineSpec

(* The bootstrap script, the service, MachineExecutor and the run on the server keep their *)
(* types side by side.                                                                       *)
THEOREM MachineTypeCorrect == MachineSpec => []MachineTypeOK
<1>1. MachineInv => MachineTypeOK
  BY DEF MachineInv, BootInv, ClientInv, MachineTypeOK
<1> QED BY MachineInvariance, <1>1, PTL

(* MachineExecutor completes Executing only after _execute_execute_target has run every      *)
(* script the image lacked, for a component that inherits from any number of modules, unless *)
(* the run was aborted, the VM recovers or a signal cut the state short.                      *)
THEOREM CompletedCorrect == MachineSpec => []CompletedMeansRun
<1>1. MachineInv => CompletedMeansRun
  <2> SUFFICES ASSUME MachineInv, Deployed, ~xserver.abort, ~xserver.recovery, ~xcut,
                      NEW i \in DOMAIN DeploymentSteps
               PROVE  DeploymentSteps[i] \in xever
    BY DEF CompletedMeansRun
  <2>1. ToSet(DeploymentSteps) \subseteq xever
    BY DEF MachineInv, HonestInv, Excused
  <2> QED BY <2>1 DEF ToSet
<1> QED BY MachineInvariance, <1>1, PTL

(* NodeDeploymentExecutor: the states of a mutable run start over for every scaling, and an *)
(* executor that has deployed its VM does not deploy it again.                               *)
THEOREM OnceCorrect == MachineSpec => NoSecondRun
<1>1. MachineInv /\ [MachineNext]_machineVars =>
        [At("run") /\ xproc'.pc = "wait" => Todo \notin xran \/ Todo.target \in {"report", "onvmadd"}]_execVars
  BY Halves, LaunchOnly DEF MachineInv
<1> QED BY MachineInvariance, <1>1, PTL DEF MachineSpec, NoSecondRun

(* get_and_setup_ss, run again at the next boot while the init system starts the executor: it *)
(* finds the lock, and leaves the client the executor runs from alone.                         *)
THEOREM ClientStays == MachineSpec => ClientStaysUnderExecutor
<1>1. MachineInv /\ [MachineNext]_machineVars =>
        [Alive => bdisk'.tree["client"] = bdisk.tree["client"] \/ xproc'.pc = "off"]_machineVars
  <2> SUFFICES ASSUME MachineInv, [MachineNext]_machineVars, Alive
               PROVE  bdisk'.tree["client"] = bdisk.tree["client"] \/ xproc'.pc = "off"
    OBVIOUS
  <2>1. BootInv /\ bdisk.lock
    BY DEF MachineInv, ClientInv
  <2> QED BY <2>1, Halves, ClientKept
<1> QED BY MachineInvariance, <1>1, PTL DEF MachineSpec, ClientStaysUnderExecutor
=============================================================================
