------------------------ MODULE ServerPrograms_proofs ------------------------
(***************************************************************************)
(* The programs that only talk to the server: calls of any number of       *)
(* threads over one client, with any number of faults; ss-execute against  *)
(* any number of components and reports; the service offers, with any      *)
(* number of overlapping executions; and the transfer of modules.          *)
(***************************************************************************)
EXTENDS HttpRetry, RunExecution, ServiceOffers, ModuleTransfer,
        WellFoundedInduction, SequenceTheorems, FiniteSetTheorems, TLAPS

-----------------------------------------------------------------------------
(* The calls to the server. *)

CallOver(pc) == pc \in {"ok", "raised"}

HttpCalls == [pc : {"idle", "send", "refused", "sleep", "ok", "raised"},
              post : BOOLEAN, retry : BOOLEAN, retries : Nat, wait : 0 .. 900]

(* What AtMostOnce needs to be inductive: a call that may not be sent again, and one that *)
(* was not made yet, has not been applied as long as it goes on.                          *)
NothingYet ==
  \A t \in Callers :
    /\ hcall[t].pc = "idle" => happlied[t] = 0
    /\ (hcall[t].post \/ ~hcall[t].retry) /\ ~CallOver(hcall[t].pc) => happlied[t] = 0

HttpInv == HttpTypeOK /\ NothingYet /\ AtMostOnce

-----------------------------------------------------------------------------
(* The two waits, before the jitter: at least ten seconds and at most five minutes, and *)
(* at most a quarter of an hour (_call).                                                 *)
LEMMA Waits ==
  ASSUME NEW n \in Nat
  PROVE  BusyWait(n) \in 10 .. 300 /\ ErrorWait(n) \in 0 .. 900
BY DEF BusyWait, ErrorWait, AtMost

(* A step changes the call of one thread only. *)
LEMMA OneCall ==
  ASSUME HttpInv, NEW t \in Callers, HttpCaller(t), NEW u \in Callers, u # t
  PROVE  hcall'[u] = hcall[u] /\ happlied'[u] = happlied[u]
<1> USE DEF HttpInv, HttpTypeOK
<1>1. CASE HttpStart(t)
  BY <1>1 DEF HttpStart
<1>2. CASE HttpAnswer(t)
  BY <1>2 DEF HttpAnswer, HttpEnd
<1>3. CASE HttpClientError(t)
  BY <1>3 DEF HttpClientError, HttpEnd
<1>4. CASE HttpBusy(t)
  BY <1>4 DEF HttpBusy, HttpEnd, HttpWait
<1>5. CASE HttpError(t)
  <2>1. happlied'[u] = happlied[u]
    BY <1>5 DEF HttpError
  <2>2. HttpEnd(t, "raised") \/ HttpWait(t, ErrorWait(hcall[t].retries), hcall[t].retries + 1)
    BY <1>5 DEF HttpError
  <2> QED BY <2>1, <2>2 DEF HttpEnd, HttpWait
<1>6. CASE HttpCount(t) \/ HttpWake(t)
  BY <1>6 DEF HttpCount, HttpWake
<1> QED BY <1>1, <1>2, <1>3, <1>4, <1>5, <1>6 DEF HttpCaller

(* HttpCalls that are set up, and calls that are sent again. *)
LEMMA NewCall ==
  ASSUME NEW call \in HttpCalls, NEW post \in BOOLEAN, NEW retry \in BOOLEAN
  PROVE  [call EXCEPT !.pc = "send", !.post = post, !.retry = retry] \in HttpCalls
BY DEF HttpCalls
LEMMA SentAgain ==
  ASSUME NEW call \in HttpCalls, NEW wait \in 0 .. 900
  PROVE  [call EXCEPT !.pc = "send", !.wait = wait] \in HttpCalls
BY DEF HttpCalls

(* The types, for each kind of step. *)
LEMMA HttpTypes ==
  ASSUME HttpInv, NEW t \in Callers, HttpCaller(t)
  PROVE  HttpTypeOK'
<1> USE HttpFaultsAssumption DEF HttpInv, HttpTypeOK
<1>1. CASE HttpStart(t)
  <2>1. PICK post, retry \in BOOLEAN :
          hcall' = [hcall EXCEPT ![t] = [Idle EXCEPT !.pc = "send", !.post = post, !.retry = retry]]
    BY <1>1 DEF HttpStart
  <2>2. Idle \in HttpCalls
    <3>1. 0 \in 0 .. 900 /\ 0 \in Nat
      OBVIOUS
    <3> QED BY <3>1, Zenon DEF Idle, HttpCalls
  <2>3. [Idle EXCEPT !.pc = "send", !.post = post, !.retry = retry] \in HttpCalls
    BY <2>2, NewCall, Zenon
  <2>4. hcall' \in [Callers -> HttpCalls]
    BY <2>1, <2>3 DEF HttpCalls
  <2> QED BY <1>1, <2>4 DEF HttpStart, HttpCalls
<1>2. CASE HttpAnswer(t)
  BY <1>2 DEF HttpAnswer, HttpEnd
<1>3. CASE HttpClientError(t)
  BY <1>3 DEF HttpClientError, HttpEnd
<1>4. CASE HttpBusy(t)
  <2>1. BusyWait(hcount) \in 0 .. 900
    BY Waits
  <2>2. hfaults' \in 0 .. MaxHttpFaults
    BY <1>4 DEF HttpBusy, HttpFault
  <2> QED BY <1>4, <2>1, <2>2 DEF HttpBusy, HttpEnd, HttpWait
<1>5. CASE HttpError(t)
  <2>1. ErrorWait(hcall[t].retries) \in 0 .. 900
    BY Waits
  <2>2. hfaults' \in 0 .. MaxHttpFaults /\ hcount' \in 0 .. 11
    BY <1>5 DEF HttpError, HttpFault
  <2>3. happlied' \in [Callers -> Nat]
    BY <1>5 DEF HttpError
  <2> QED BY <1>5, <2>1, <2>2, <2>3 DEF HttpError, HttpEnd, HttpWait
<1>6. CASE HttpCount(t)
  BY <1>6 DEF HttpCount
<1>7. CASE HttpWake(t)
  <2>1. hcall[t] \in HttpCalls /\ 0 \in 0 .. 900
    BY DEF HttpCalls
  <2>2. [hcall[t] EXCEPT !.pc = "send", !.wait = 0] \in HttpCalls
    BY <2>1, SentAgain, Zenon
  <2>3. hcall' = [hcall EXCEPT ![t] = [hcall[t] EXCEPT !.pc = "send", !.wait = 0]]
    BY <1>7 DEF HttpWake
  <2>4. hcall' \in [Callers -> HttpCalls]
    BY <2>2, <2>3 DEF HttpCalls
  <2> QED BY <1>7, <2>4 DEF HttpWake, HttpCalls
<1> QED BY <1>1, <1>2, <1>3, <1>4, <1>5, <1>6, <1>7 DEF HttpCaller

(* What the call of t has been through after a step of it. *)
LEMMA OwnCall ==
  ASSUME HttpInv, NEW t \in Callers, HttpCaller(t)
  PROVE  /\ hcall'[t].pc # "idle"
         /\ (hcall'[t].post \/ ~hcall'[t].retry) /\ ~CallOver(hcall'[t].pc) => happlied'[t] = 0
         /\ hcall'[t].post \/ ~hcall'[t].retry => happlied'[t] <= 1
         /\ hcall'[t].pc = "ok" => happlied'[t] >= 1
<1> USE DEF HttpInv, HttpTypeOK, NothingYet, AtMostOnce, CallOver
<1>1. CASE HttpStart(t)
  BY <1>1 DEF HttpStart, Idle
<1>2. CASE HttpAnswer(t)
  BY <1>2 DEF HttpAnswer, HttpEnd
<1>3. CASE HttpClientError(t)
  BY <1>3 DEF HttpClientError, HttpEnd
<1>4. CASE HttpBusy(t)
  BY <1>4 DEF HttpBusy, HttpEnd, HttpWait
<1>5. CASE HttpError(t)
  <2>1. PICK applied \in 0 .. 1 : happlied'[t] = happlied[t] + applied
    BY <1>5 DEF HttpError
  <2>2. hcall[t].post \/ ~hcall[t].retry => hcall'[t].pc = "raised" /\ happlied[t] = 0
    BY <1>5 DEF HttpError, HttpEnd
  <2>3. hcall'[t].post = hcall[t].post /\ hcall'[t].retry = hcall[t].retry
    BY <1>5 DEF HttpError, HttpEnd, HttpWait
  <2>4. hcall'[t].pc \in {"raised", "refused"}
    BY <1>5 DEF HttpError, HttpEnd, HttpWait
  <2> QED BY <2>1, <2>2, <2>3, <2>4
<1>6. CASE HttpCount(t)
  BY <1>6 DEF HttpCount
<1>7. CASE HttpWake(t)
  BY <1>7 DEF HttpWake
<1> QED BY <1>1, <1>2, <1>3, <1>4, <1>5, <1>6, <1>7 DEF HttpCaller

LEMMA HttpStarts == HttpInit => HttpInv
BY HttpFaultsAssumption
   DEF HttpInit, HttpInv, HttpTypeOK, NothingYet, AtMostOnce, Idle, CallOver

LEMMA HttpSteps == HttpInv /\ [HttpNext]_httpVars => HttpInv'
<1>1. ASSUME HttpInv, UNCHANGED httpVars PROVE HttpInv'
  BY <1>1 DEF HttpInv, HttpTypeOK, NothingYet, AtMostOnce, CallOver, httpVars
<1>2. ASSUME HttpInv, NEW t \in Callers, HttpCaller(t) PROVE HttpInv'
  <2>1. NothingYet' /\ AtMostOnce'
    BY <1>2, OneCall, OwnCall DEF HttpInv, NothingYet, AtMostOnce, CallOver
  <2> QED BY <1>2, <2>1, HttpTypes DEF HttpInv
<1> QED BY <1>1, <1>2 DEF HttpNext

(* Every reachable state satisfies the inductive invariant. *)
THEOREM HttpInvariance == HttpSpec => []HttpInv
BY HttpStarts, HttpSteps, PTL DEF HttpSpec

(* The count of refused requests stays between 0 and 11 although threads change and read it *)
(* at any moment, and no wait is longer than a quarter of an hour (_call, _busy_sleep).      *)
THEOREM HttpTypeCorrect == HttpSpec => []HttpTypeOK
BY HttpInvariance, PTL DEF HttpInv

(* A POST, and a call that may not be retried, is applied at most once, and a call that     *)
(* returns was applied, whatever is refused or lost (_call).                                *)
THEOREM AppliedOnce == HttpSpec => []AtMostOnce
BY HttpInvariance, PTL DEF HttpInv

-----------------------------------------------------------------------------
(* ss-execute. *)

(* What the command has decided when it is at a step after its wait. *)
Waiting == emain.pc \in {"launch", "poll", "abortstate", "message"}
Terminated == emain.pc \in {"search", "filter", "fetch", "exit", "raised"}
NotBegun == emain.pc = "launch" =>
              emain.rc = 0 /\ ~emain.missed /\ ~edep.gone /\ ~emain.known
GoneRightly ==
  /\ edep.gone => ToTerminate /\ Terminated
  /\ emain.pc = "terminate" => ToTerminate
GoneInTime ==
  eopts.wait /\ emain.known /\ Terminated => (ToTerminate => edep.gone \/ emain.missed)
OverIfWell ==
  eopts.wait /\ emain.known /\ ~Waiting /\ emain.rc = 0 /\ ~eopts.ready =>
    edep.state \in FinalRunStates
Decisions == NotBegun /\ GoneRightly /\ GoneInTime /\ OverIfWell

(* What the loops over the reports have done so far.  Covered: some report of R is of the *)
(* component of s and no older; Newest: no report of S of its component is newer than r;   *)
(* NewestOf: R is of each component of S the newest.                                       *)
Covered(R, s) == \E r \in R : r[1] = s[1] /\ s[2] <= r[2]
Newest(S, r) == \A s \in S : s[1] = r[1] => s[2] <= r[2]
NewestOf(S, R) ==
  R \subseteq S /\ (\A s \in S : Covered(R, s)) /\ (\A r \in R : Newest(S, r))
Ready(r) == r[2] <= Len(ereports[r[1]]) /\ ereports[r[1]][r[2]] = "ready"

NotSearched ==
  emain.pc \notin {"filter", "fetch", "exit", "raised"} =>
    emain.found = {} /\ emain.left = {} /\ emain.latest = {} /\ emain.got = {}
FoundReady == \A r \in emain.found : Ready(r)
Filtered ==
  emain.pc = "filter" =>
    /\ emain.left \subseteq emain.found /\ emain.got = {}
    /\ NewestOf(emain.found \ emain.left, emain.latest)
Fetched ==
  /\ \A r \in emain.got : r \in emain.found /\ Newest(emain.found, r)
  /\ emain.pc = "fetch" => \A r \in emain.left : r \in emain.found /\ Newest(emain.found, r)
  /\ emain.pc \in {"fetch", "exit"} =>
       \A s \in emain.found : s[1] \in eopts.get => Covered(emain.left \cup emain.got, s)
  /\ emain.pc = "exit" => emain.left = {}
Downloads == NotSearched /\ FoundReady /\ Filtered /\ Fetched

(* A run that is over has nothing left to send, so that what was found then is all there is. *)
NobodySends == edep.state \in FinalRunStates => \A c \in Senders : ~Sending(c)
EndsWell == eopts.wait /\ emain.known /\ emain.rc = 0 /\ ~eopts.ready
AllFound ==
  EndsWell /\ emain.pc \in {"filter", "fetch", "exit"} /\ eopts.get # {} =>
    emain.found = ReadyReports

ExecuteTyped == ExecuteTypeOK /\ eopts \in ExecuteOptions
ExecuteInv == ExecuteTyped /\ Decisions /\ Downloads /\ NobodySends /\ AllFound

-----------------------------------------------------------------------------
ReportStates == {"new", "uploaded", "ready", "lost"}

(* A sender appends a report, or changes the one it is sending. *)
SenderStep(c) ==
  \/ CreateReport(c)
  \/ \E from \in {"new", "uploaded"}, to \in ReportStates : Report(c, from, to)

LEMMA SenderTakesIt ==
  ASSUME SendReports \/ ReportLost
  PROVE  \E c \in Senders : SenderStep(c)
BY DEF SendReports, ReportLost, SenderStep, UploadReport, SetReportReady, ReportStates

(* The reports of a component after a step of its sender. *)
LEMMA SenderSends ==
  ASSUME ExecuteTypeOK, NEW c \in Senders, SenderStep(c)
  PROVE  /\ ereports' \in [Senders -> Seq(ReportStates)]
         /\ \A d \in Senders : Len(ereports'[d]) <= MaxReports
         /\ \A d \in Senders : Len(ereports[d]) <= Len(ereports'[d])
         /\ \A d \in Senders : \A i \in 1 .. Len(ereports[d]) :
              ereports[d][i] = "ready" => ereports'[d][i] = "ready"
         /\ CreateReport(c) \/ Sending(c)
<1> USE ExecuteAssumption
<1>0. /\ ereports \in [Senders -> Seq(ReportStates)] /\ ereports[c] \in Seq(ReportStates)
      /\ \A d \in Senders : Len(ereports[d]) <= MaxReports
      /\ \A d \in Senders : Len(ereports[d]) \in Nat
  BY DEF ExecuteTypeOK, ReportStates
<1>1. CASE CreateReport(c)
  <2> DEFINE rs == Append(ereports[c], "new")
  <2>1. rs \in Seq(ReportStates) /\ Len(rs) = Len(ereports[c]) + 1
        /\ \A i \in 1 .. Len(ereports[c]) : rs[i] = ereports[c][i]
    BY <1>0 DEF ReportStates
  <2>2. ereports' = [ereports EXCEPT ![c] = rs] /\ Len(ereports[c]) < MaxReports
    BY <1>1 DEF CreateReport
  <2> HIDE DEF rs
  <2> QED BY <1>0, <1>1, <2>1, <2>2
<1>2. ASSUME NEW from \in {"new", "uploaded"}, NEW to \in ReportStates, Report(c, from, to)
      PROVE  /\ ereports' \in [Senders -> Seq(ReportStates)]
             /\ \A d \in Senders : Len(ereports'[d]) = Len(ereports[d])
             /\ \A d \in Senders : \A i \in 1 .. Len(ereports[d]) :
                  ereports[d][i] = "ready" => ereports'[d][i] = "ready"
             /\ Sending(c)
  <2> DEFINE n == Len(ereports[c])
             rs == [ereports[c] EXCEPT ![n] = to]
  <2>0. n \in 1 .. n /\ ereports[c][n] = from
    BY <1>0, <1>2, EmptySeq DEF Report
  <2>1. rs \in Seq(ReportStates) /\ Len(rs) = n
    BY <1>0, <2>0, ExceptSeq
  <2>2. \A i \in 1 .. n : ereports[c][i] = "ready" => rs[i] = "ready"
    BY <1>0, <2>0
  <2>3. ereports' = [ereports EXCEPT ![c] = rs]
    BY <1>2 DEF Report
  <2>4. Sending(c)
    BY <1>2 DEF Report, Sending
  <2> HIDE DEF rs
  <2> QED BY <1>0, <2>1, <2>2, <2>3, <2>4
<1> QED
  <2>1. CASE CreateReport(c)
    <3>1. /\ ereports' = [ereports EXCEPT ![c] = Append(ereports[c], "new")]
          /\ Len(ereports[c]) < MaxReports
      BY <2>1 DEF CreateReport
    <3> QED BY <1>0, <1>1, <2>1
  <2>2. CASE \E from \in {"new", "uploaded"}, to \in ReportStates : Report(c, from, to)
    BY <1>0, <1>2, <2>2
  <2> QED BY <2>1, <2>2 DEF SenderStep

-----------------------------------------------------------------------------
(* Each step keeps the types. *)
LEMMA FaultCounted ==
  ASSUME ExecuteTypeOK, ExecuteFault
  PROVE  efaults' \in 0 .. MaxExecuteFaults
BY ExecuteAssumption DEF ExecuteTypeOK, ExecuteFault

LEMMA ExecuteTypes == ExecuteInv /\ [ExecuteNext]_executeVars => ExecuteTyped'
<1> SUFFICES ASSUME ExecuteInv, [ExecuteNext]_executeVars
             PROVE  ExecuteTyped'
  OBVIOUS
<1> USE ExecuteAssumption DEF ExecuteInv, ExecuteTyped, ExecuteTypeOK
<1>0. Critical \in 0 .. 2
  BY DEF Critical
<1>1. CASE ExecuteLaunch
  <2>1. efaults' \in 0 .. MaxExecuteFaults
    BY <1>1, FaultCounted DEF ExecuteLaunch
  <2>2. edep' \in [made : BOOLEAN, state : RunStates, abort : BOOLEAN, gone : BOOLEAN]
    BY <1>1 DEF ExecuteLaunch
  <2>3. emain'.pc \in {"poll", "exit", "raised"} /\ emain'.rc \in 0 .. 2
    BY <1>1, <1>0 DEF ExecuteLaunch
  <2> QED BY <1>1, <1>0, <2>1, <2>2, <2>3 DEF ExecuteLaunch
<1>2. CASE ExecuteReportsAbort
  BY <1>2, <1>0 DEF ExecuteReportsAbort, OnServer, GoOn, Fails
<1>3. CASE ExecutePoll
  BY <1>3, <1>0 DEF ExecutePoll, OnServer, GoOn, Fails
<1>4. CASE ExecuteFinally
  BY <1>4 DEF ExecuteFinally, OnServer, GoOn, AfterReports
<1>5. CASE ExecuteIsAborted
  BY <1>5 DEF ExecuteIsAborted, OnServer, GoOn, AfterReports
<1>6. CASE ExecuteWaitReports
  BY <1>6 DEF ExecuteWaitReports, OnServer, GoOn, AfterReports
<1>7. CASE ExecuteTerminate
  <2>1. efaults' \in 0 .. MaxExecuteFaults
    BY <1>7, FaultCounted DEF ExecuteTerminate
  <2>2. edep' \in [made : BOOLEAN, state : RunStates, abort : BOOLEAN, gone : BOOLEAN]
    BY <1>7 DEF ExecuteTerminate
  <2>3. /\ emain' = [emain EXCEPT !.pc = "search"]
           \/ emain' = [emain EXCEPT !.pc = "search", !.missed = TRUE]
        /\ UNCHANGED <<eopts, ereports>>
    BY <1>7 DEF ExecuteTerminate, GoOn
  <2> QED BY <2>1, <2>2, <2>3
<1>8. CASE ExecuteSearch
  <2>1. ReadyReports \in SUBSET Reports
    BY DEF ReadyReports
  <2> QED BY <1>8, <2>1 DEF ExecuteSearch, OnServer, GoOn
<1>9. CASE ExecuteFilter
  <2>1. PICK r \in emain.left :
          emain' = [emain EXCEPT !.left = @ \ {r}, !.latest = LatestOnly(@, r)]
    BY <1>9 DEF ExecuteFilter
  <2>2. LatestOnly(emain.latest, r) \in SUBSET Reports
    BY <2>1 DEF LatestOnly
  <2> QED BY <1>9, <2>1, <2>2 DEF ExecuteFilter, OnServer
<1>10. CASE ExecuteSelect
  BY <1>10 DEF ExecuteSelect, OnServer
<1>11. CASE ExecuteFetch
  <2>1. UNCHANGED <<eopts, edep, ereports, efaults>>
    BY <1>11 DEF ExecuteFetch, OnServer
  <2>2. CASE emain' = [emain EXCEPT !.pc = "exit"]
    BY <2>1, <2>2
  <2>3. ASSUME NEW r \in emain.left, emain' = [emain EXCEPT !.left = @ \ {r}, !.got = @ \cup {r}]
        PROVE  ExecuteTyped'
    <3>1. emain.left \ {r} \in SUBSET Reports /\ emain.got \cup {r} \in SUBSET Reports
      BY <2>3
    <3> QED BY <2>1, <2>3, <3>1
  <2> QED BY <1>11, <2>2, <2>3 DEF ExecuteFetch, GoOn
<1>12. CASE ExecutePollFails
  BY <1>12, <1>0, FaultCounted DEF ExecutePollFails, OnServer, Fails
<1>13. CASE ExecuteLeaves
  BY <1>13, FaultCounted DEF ExecuteLeaves, OnServer, GoOn
<1>14. CASE RunAdvances
  <2>1. PICK state \in AfterState(edep.state) : edep' = [edep EXCEPT !.state = state]
    BY <1>14 DEF RunAdvances
  <2>2. state \in RunStates
    BY <2>1 DEF AfterState, RunStates, AfterSendingReports, FinalRunStates
  <2> QED BY <1>14, <2>1, <2>2 DEF RunAdvances
<1>15. CASE RunAbortFlag
  BY <1>15, FaultCounted DEF RunAbortFlag
<1>16. CASE SendReports \/ ReportLost
  <2>1. /\ ereports' \in [Senders -> Seq({"new", "uploaded", "ready", "lost"})]
        /\ \A c \in Senders : Len(ereports'[c]) <= MaxReports
    BY <1>16, SenderTakesIt, SenderSends DEF ReportStates
  <2>2. efaults' \in 0 .. MaxExecuteFaults
    BY <1>16, FaultCounted DEF SendReports, ReportLost
  <2> QED BY <1>16, <2>1, <2>2 DEF SendReports, ReportLost
<1>17. CASE UNCHANGED executeVars
  BY <1>17 DEF executeVars
<1> QED BY <1>1, <1>2, <1>3, <1>4, <1>5, <1>6, <1>7, <1>8, <1>9, <1>10, <1>11, <1>12, <1>13, <1>14,
           <1>15, <1>16, <1>17
       DEF ExecuteNext, ExecuteProgress, ExecuteDisturbed

-----------------------------------------------------------------------------
(* Each step keeps what the command has decided. *)
LEMMA ExecuteDecisions == ExecuteInv /\ [ExecuteNext]_executeVars => Decisions'
<1> SUFFICES ASSUME ExecuteInv, [ExecuteNext]_executeVars
             PROVE  Decisions'
  OBVIOUS
<1> USE DEF ExecuteInv, ExecuteTyped, ExecuteTypeOK, Decisions, NotBegun, GoneRightly, GoneInTime,
            OverIfWell, Waiting, Terminated, ToTerminate
<1>0. Critical # 0
  BY DEF Critical
<1>1. CASE ExecuteLaunch
  <2>1. /\ emain.pc = "launch" /\ emain'.missed = emain.missed /\ edep'.gone = edep.gone
        /\ eopts' = eopts
    BY <1>1 DEF ExecuteLaunch, MainDoes
  <2>2. \/ emain'.pc = "poll" /\ eopts.wait
        \/ emain'.pc = "exit" /\ (~eopts.wait \/ ~emain'.known)
        \/ emain'.pc = "raised" /\ ~emain'.known
    <3>1. ~emain.known
      BY <2>1
    <3> QED BY <1>1, <3>1 DEF ExecuteLaunch
  <2> QED BY <2>1, <2>2
<1>2. CASE ExecuteReportsAbort
  <2>1. /\ emain.pc \in {"abortstate", "message"}
        /\ \/ emain'.pc = "message"
           \/ emain'.pc = "finally" /\ emain'.rc # 0
        /\ emain'.known = emain.known /\ emain'.missed = emain.missed
        /\ edep' = edep /\ eopts' = eopts
    BY <1>2, <1>0 DEF ExecuteReportsAbort, MainDoes, OnServer, GoOn, Fails
  <2> QED BY <2>1
<1>3. CASE ExecutePoll
  <2>1. /\ emain.pc = "poll"
        /\ \/ emain'.pc = "abortstate"
           \/ emain'.pc = "finally" /\ emain'.rc # 0
           \/ emain'.pc = "finally" /\ edep.state \in FinalStates
        /\ emain'.known = emain.known /\ emain'.missed = emain.missed
        /\ edep' = edep /\ eopts' = eopts
    BY <1>3, <1>0 DEF ExecutePoll, MainDoes, OnServer, GoOn, Fails
  <2> QED BY <2>1 DEF FinalStates
<1>4. CASE ExecuteFinally
  <2>1. /\ emain.pc = "finally" /\ emain'.rc = emain.rc
        /\ emain'.pc \in {"aborted?", AfterReports}
        /\ emain'.known = emain.known /\ emain'.missed = emain.missed
        /\ edep' = edep /\ eopts' = eopts
    BY <1>4 DEF ExecuteFinally, MainDoes, OnServer, GoOn
  <2> QED BY <2>1 DEF AfterReports
<1>5. CASE ExecuteIsAborted
  <2>1. /\ emain.pc = "aborted?" /\ emain'.rc = emain.rc
        /\ emain'.pc \in {"reports", AfterReports}
        /\ emain'.known = emain.known /\ emain'.missed = emain.missed
        /\ edep' = edep /\ eopts' = eopts
    BY <1>5 DEF ExecuteIsAborted, MainDoes, OnServer, GoOn
  <2> QED BY <2>1 DEF AfterReports
<1>6. CASE ExecuteWaitReports
  <2>1. /\ emain.pc = "reports" /\ emain'.rc = emain.rc
        /\ emain'.pc = AfterReports
        /\ emain'.known = emain.known /\ emain'.missed = emain.missed
        /\ edep' = edep /\ eopts' = eopts
    BY <1>6 DEF ExecuteWaitReports, MainDoes, OnServer, GoOn
  <2> QED BY <2>1 DEF AfterReports
<1>7. CASE ExecuteTerminate
  <2>1. /\ emain.pc = "terminate" /\ emain'.pc = "search" /\ emain'.rc = emain.rc
        /\ emain'.known = emain.known /\ (edep'.gone \/ emain'.missed)
        /\ edep'.state = edep.state /\ eopts' = eopts
    BY <1>7 DEF ExecuteTerminate, MainDoes, GoOn
  <2> QED BY <2>1
<1>8. CASE ExecuteSearch \/ ExecuteFilter \/ ExecuteSelect \/ ExecuteFetch
  <2>1. /\ emain.pc \in {"search", "filter", "fetch"}
        /\ emain'.pc \in {"filter", "fetch", "exit"} /\ emain'.rc = emain.rc
        /\ emain'.known = emain.known /\ emain'.missed = emain.missed
        /\ edep' = edep /\ eopts' = eopts
    BY <1>8 DEF ExecuteSearch, ExecuteFilter, ExecuteSelect, ExecuteFetch, MainDoes, GoOn, OnServer
  <2> QED BY <2>1
<1>9. CASE ExecutePollFails
  BY <1>9, <1>0 DEF ExecutePollFails, OnServer, Fails
<1>10. CASE ExecuteLeaves
  <2>1. /\ emain'.pc = "raised" /\ emain'.rc = emain.rc
        /\ \/ emain.pc \in {"aborted?", "reports"} /\ emain'.missed
           \/ emain.pc \in {"search", "filter", "fetch"} /\ emain'.missed = emain.missed
        /\ emain'.known = emain.known
        /\ edep' = edep /\ eopts' = eopts
    BY <1>10 DEF ExecuteLeaves, OnServer, GoOn
  <2> QED BY <2>1
<1>11. CASE RunAdvances
  <2>1. PICK state \in AfterState(edep.state) : edep' = [edep EXCEPT !.state = state]
    BY <1>11 DEF RunAdvances
  <2>2. edep.state \notin FinalRunStates
    BY <2>1 DEF AfterState, FinalRunStates
  <2>3. edep'.gone = edep.gone
    BY <2>1
  <2> QED BY <1>11, <2>2, <2>3 DEF RunAdvances
<1>12. CASE RunAbortFlag
  BY <1>12 DEF RunAbortFlag
<1>13. CASE SendReports \/ ReportLost
  <2>1. /\ edep'.gone = edep.gone /\ edep'.state = edep.state
        /\ emain' = emain /\ eopts' = eopts
    BY <1>13 DEF SendReports, ReportLost
  <2> QED BY <2>1
<1>14. CASE UNCHANGED executeVars
  BY <1>14 DEF executeVars
<1> QED BY <1>1, <1>2, <1>3, <1>4, <1>5, <1>6, <1>7, <1>8, <1>9, <1>10, <1>11, <1>12, <1>13, <1>14
       DEF ExecuteNext, ExecuteProgress, ExecuteDisturbed

-----------------------------------------------------------------------------
(* A run that is over stays as it is, and so do its reports. *)
LEMMA OverIsOver ==
  ASSUME ExecuteInv, [ExecuteNext]_executeVars, edep.state \in FinalRunStates
  PROVE  edep'.state = edep.state /\ ereports' = ereports
<1> USE DEF ExecuteInv, ExecuteTyped, ExecuteTypeOK
<1>1. ~RunAdvances
  BY DEF RunAdvances, AfterState, FinalRunStates
<1>2. ~SendReports /\ ~ReportLost
  <2>1. ASSUME NEW c \in Senders, SenderStep(c) PROVE FALSE
    <3>1. ~CreateReport(c)
      BY DEF CreateReport, FinalRunStates
    <3>2. Sending(c)
      BY <2>1, <3>1, SenderSends
    <3> QED BY <3>2 DEF NobodySends
  <2> QED BY <2>1, SenderTakesIt
<1> QED BY <1>1, <1>2
       DEF ExecuteNext, ExecuteProgress, ExecuteDisturbed, ExecuteLaunch, ExecuteReportsAbort,
           ExecutePoll, ExecuteFinally, ExecuteIsAborted, ExecuteWaitReports, ExecuteTerminate,
           ExecuteSearch, ExecuteFilter, ExecuteSelect, ExecuteFetch, ExecutePollFails,
           ExecuteLeaves, RunAbortFlag, OnServer, executeVars

LEMMA SendersDone == ExecuteInv /\ [ExecuteNext]_executeVars => NobodySends'
<1> SUFFICES ASSUME ExecuteInv, [ExecuteNext]_executeVars
             PROVE  NobodySends'
  OBVIOUS
<1>1. CASE edep.state \in FinalRunStates
  BY <1>1, OverIsOver DEF ExecuteInv, NobodySends, Sending
<1>2. CASE RunAdvances
  BY <1>2 DEF RunAdvances, NobodySends, Sending
<1>3. CASE edep.state \notin FinalRunStates /\ ~RunAdvances
  <2>1. edep'.state = edep.state
    BY <1>3 DEF ExecuteInv, ExecuteTyped, ExecuteTypeOK,
           ExecuteNext, ExecuteProgress, ExecuteDisturbed, ExecuteLaunch, ExecuteReportsAbort,
           ExecutePoll, ExecuteFinally, ExecuteIsAborted, ExecuteWaitReports, ExecuteTerminate,
           ExecuteSearch, ExecuteFilter, ExecuteSelect, ExecuteFetch, ExecutePollFails,
           ExecuteLeaves, RunAbortFlag, SendReports, ReportLost, OnServer, executeVars
  <2> QED BY <1>3, <2>1 DEF NobodySends
<1> QED BY <1>1, <1>2, <1>3

(* A report that is ready stays so, whatever a step does. *)
LEMMA ReadyStays ==
  ASSUME ExecuteInv, [ExecuteNext]_executeVars, NEW r \in Reports, Ready(r)
  PROVE  Ready(r)'
<1> USE DEF ExecuteInv, ExecuteTyped, ExecuteTypeOK
<1>1. CASE SendReports \/ ReportLost
  <2>1. PICK c \in Senders : SenderStep(c)
    BY <1>1, SenderTakesIt
  <2>2. r[1] \in Senders /\ r[2] \in 1 .. Len(ereports[r[1]])
    BY DEF Reports, Ready
  <2>3. Len(ereports[r[1]]) \in Nat /\ Len(ereports'[r[1]]) \in Nat
    BY <2>1, <2>2, SenderSends
  <2> QED BY <2>1, <2>2, <2>3, SenderSends DEF Ready
<1>2. CASE ~SendReports /\ ~ReportLost
  <2>1. ereports' = ereports
    BY <1>2 DEF ExecuteNext, ExecuteProgress, ExecuteDisturbed, ExecuteLaunch, ExecuteReportsAbort,
           ExecutePoll, ExecuteFinally, ExecuteIsAborted, ExecuteWaitReports, ExecuteTerminate,
           ExecuteSearch, ExecuteFilter, ExecuteSelect, ExecuteFetch, ExecutePollFails,
           ExecuteLeaves, RunAdvances, RunAbortFlag, OnServer, executeVars
  <2> QED BY <2>1 DEF Ready
<1> QED BY <1>1, <1>2

-----------------------------------------------------------------------------
(* latest_only: one report more, and what is kept is still the newest of each component. *)
LEMMA LatestKept ==
  ASSUME NEW seen \in SUBSET Reports, NEW latest, NEW r \in Reports, NewestOf(seen, latest)
  PROVE  NewestOf(seen \cup {r}, LatestOnly(latest, r))
<1> DEFINE same == {s \in latest : s[1] = r[1]}
<1> USE DEF NewestOf, LatestOnly, IsNewer
<1>0. MaxReports \in Nat
  BY ExecuteAssumption
<1>1. \A s \in Reports : s[1] \in Senders /\ s[2] \in Nat
  BY <1>0 DEF Reports
<1>2. CASE \A s \in same : s[2] < r[2]
  <2>1. LatestOnly(latest, r) = (latest \ same) \cup {r}
    BY <1>2
  <2>2. \A s \in seen : s[1] = r[1] => s[2] <= r[2]
    <3>1. SUFFICES ASSUME NEW s \in seen, s[1] = r[1] PROVE s[2] <= r[2]
      OBVIOUS
    <3>2. PICK p \in latest : p[1] = s[1] /\ s[2] <= p[2]
      BY DEF Covered
    <3>3. p[2] < r[2]
      BY <1>2, <3>1, <3>2
    <3> QED BY <1>1, <3>2, <3>3
  <2>3. \A s \in seen \cup {r} : Covered(LatestOnly(latest, r), s)
    BY <1>1, <2>1, <2>2 DEF Covered
  <2>4. \A p \in LatestOnly(latest, r) : Newest(seen \cup {r}, p)
    BY <1>1, <2>1, <2>2 DEF Newest
  <2> QED BY <2>1, <2>3, <2>4
<1>3. CASE ~(\A s \in same : s[2] < r[2])
  <2>1. LatestOnly(latest, r) = latest
    BY <1>3
  <2>2. PICK q \in latest : q[1] = r[1] /\ ~(q[2] < r[2])
    BY <1>3
  <2>3. r[2] <= q[2]
    BY <1>1, <2>2
  <2>4. ASSUME NEW p \in latest, p[1] = r[1] PROVE r[2] <= p[2]
    <3>1. q[2] <= p[2]
      BY <2>2, <2>4 DEF Newest
    <3> QED BY <1>1, <2>3, <3>1
  <2>5. \A p \in latest : Newest(seen \cup {r}, p)
    BY <2>4 DEF Newest
  <2>6. \A s \in seen \cup {r} : Covered(latest, s)
    BY <2>2, <2>3 DEF Covered
  <2> QED BY <2>1, <2>5, <2>6
<1> QED BY <1>2, <1>3

(* A step that is none of the loops leaves what they found, or raises or exits before them. *)
Looks == ExecuteSearch \/ ExecuteFilter \/ ExecuteSelect \/ ExecuteFetch
LEMMA AsideSteps ==
  ASSUME ExecuteInv, [ExecuteNext]_executeVars, ~Looks
  PROVE  /\ emain'.found = emain.found /\ emain'.left = emain.left
         /\ emain'.latest = emain.latest /\ emain'.got = emain.got
         /\ eopts' = eopts
         /\ \/ emain'.pc = emain.pc /\ emain' = emain
            \/ emain'.pc = "raised"
            \/ emain'.pc \notin {"filter", "fetch", "raised"}
               /\ emain.pc \notin {"filter", "fetch", "exit", "raised"}
         /\ emain'.pc = "exit" => emain' = emain \/ ~(eopts.wait /\ emain'.known)
<1> USE DEF ExecuteInv, ExecuteTyped, ExecuteTypeOK, Looks
<1>1. CASE ExecuteLaunch
  <2>1. ~emain.known /\ emain.pc = "launch"
    BY <1>1 DEF ExecuteLaunch, MainDoes, Decisions, NotBegun
  <2> QED BY <1>1, <2>1 DEF ExecuteLaunch
<1>2. CASE ExecuteReportsAbort \/ ExecutePoll
  BY <1>2 DEF ExecuteReportsAbort, ExecutePoll, MainDoes, OnServer, GoOn, Fails
<1>3. CASE ExecuteFinally \/ ExecuteIsAborted \/ ExecuteWaitReports
  BY <1>3 DEF ExecuteFinally, ExecuteIsAborted, ExecuteWaitReports, MainDoes, OnServer, GoOn, AfterReports
<1>4. CASE ExecuteTerminate
  BY <1>4 DEF ExecuteTerminate, MainDoes, GoOn
<1>5. CASE ExecutePollFails
  BY <1>5 DEF ExecutePollFails, OnServer, Fails
<1>6. CASE ExecuteLeaves
  BY <1>6 DEF ExecuteLeaves, OnServer, GoOn
<1>7. CASE RunAdvances \/ RunAbortFlag \/ SendReports \/ ReportLost \/ UNCHANGED executeVars
  BY <1>7 DEF RunAdvances, RunAbortFlag, SendReports, ReportLost, executeVars
<1> QED BY <1>1, <1>2, <1>3, <1>4, <1>5, <1>6, <1>7
       DEF ExecuteNext, ExecuteProgress, ExecuteDisturbed

(* What is found, filtered and downloaded, after a step of the loops. *)
LEMMA LoopsLook ==
  ASSUME ExecuteInv, Looks
  PROVE  NotSearched' /\ Filtered' /\ Fetched' /\ emain'.found \subseteq emain.found \cup ReadyReports
<1> USE DEF ExecuteInv, ExecuteTyped, ExecuteTypeOK, Downloads, NotSearched, Filtered, Fetched
<1>1. CASE ExecuteSearch
  <2>1. emain.found = {} /\ emain.left = {} /\ emain.latest = {} /\ emain.got = {}
    BY <1>1 DEF ExecuteSearch, MainDoes
  <2>2. CASE eopts.get = {}
    <3>1. emain'.pc = "exit" /\ emain'.found = {} /\ emain'.left = {} /\ emain'.got = {}
      BY <1>1, <2>1, <2>2 DEF ExecuteSearch, GoOn
    <3> QED BY <3>1
  <2>3. CASE ReadyReports = {} /\ eopts.get # {}
    <3>1. emain'.pc = "exit" /\ emain'.found = {} /\ emain'.left = {} /\ emain'.got = {}
      BY <1>1, <2>1, <2>3 DEF ExecuteSearch
    <3> QED BY <3>1
  <2>4. CASE ReadyReports # {} /\ eopts.get # {}
    <3>1. /\ emain'.pc = "filter" /\ emain'.found = ReadyReports /\ emain'.left = ReadyReports
          /\ emain'.latest = {} /\ emain'.got = {}
      BY <1>1, <2>1, <2>4 DEF ExecuteSearch
    <3> QED BY <3>1 DEF NewestOf
  <2> QED BY <2>2, <2>3, <2>4
<1>2. CASE ExecuteFilter
  <2>1. PICK r \in emain.left :
          emain' = [emain EXCEPT !.left = @ \ {r}, !.latest = LatestOnly(@, r)]
    BY <1>2 DEF ExecuteFilter
  <2>2. emain.pc = "filter"
    BY <1>2 DEF ExecuteFilter, MainDoes
  <2> DEFINE seen == emain.found \ emain.left
  <2>3. /\ emain'.pc = "filter" /\ emain'.left = emain.left \ {r} /\ emain'.found = emain.found
        /\ emain'.latest = LatestOnly(emain.latest, r) /\ emain'.got = {}
    BY <2>1, <2>2
  <2>4. seen \in SUBSET Reports /\ r \in Reports /\ NewestOf(seen, emain.latest)
    BY <2>2
  <2>5. emain'.found \ emain'.left = seen \cup {r}
    BY <2>1, <2>2, <2>3
  <2>6. NewestOf(seen \cup {r}, LatestOnly(emain.latest, r))
    <3> HIDE DEF seen, ExecuteInv, ExecuteTyped, ExecuteTypeOK, Downloads, NotSearched, Filtered, Fetched
    <3> QED BY <2>4, LatestKept
  <2>7. NewestOf(emain'.found \ emain'.left, emain'.latest)
    <3> HIDE DEF seen
    <3> QED BY <2>3, <2>5, <2>6, Zenon
  <2> QED BY <2>2, <2>3, <2>7 DEF NewestOf, Covered, Newest
<1>3. CASE ExecuteSelect
  <2>1. /\ emain.pc = "filter" /\ emain.left = {} /\ emain'.pc = "fetch" /\ eopts' = eopts
        /\ emain'.left = {r \in emain.latest : r[1] \in eopts.get}
        /\ emain'.found = emain.found /\ emain'.got = {}
    BY <1>3 DEF ExecuteSelect, MainDoes, OnServer
  <2>2. \A r \in emain'.left : r \in emain'.found /\ Newest(emain'.found, r)
    BY <2>1 DEF NewestOf, Newest
  <2>3. ASSUME NEW s \in emain'.found, s[1] \in eopts.get PROVE Covered(emain'.left, s)
    <3>1. PICK r \in emain.latest : r[1] = s[1] /\ s[2] <= r[2]
      BY <2>1, <2>3 DEF NewestOf, Covered
    <3>2. r \in emain'.left
      BY <2>1, <2>3, <3>1
    <3> QED BY <3>1, <3>2 DEF Covered
  <2> QED BY <2>1, <2>2, <2>3 DEF Covered, Newest
<1>4. CASE ExecuteFetch
  <2>1. emain.pc = "fetch" /\ emain'.found = emain.found /\ eopts' = eopts
    BY <1>4 DEF ExecuteFetch, MainDoes, GoOn, OnServer
  <2>2. CASE emain.left = {} /\ GoOn("exit")
    <3>1. emain'.pc = "exit" /\ emain'.left = {} /\ emain'.got = emain.got
      BY <2>2 DEF GoOn
    <3> QED BY <2>1, <2>2, <3>1 DEF Covered, Newest
  <2>3. ASSUME NEW r \in emain.left, emain' = [emain EXCEPT !.left = @ \ {r}, !.got = @ \cup {r}]
        PROVE  NotSearched' /\ Filtered' /\ Fetched'
    <3>1. /\ emain'.pc = "fetch" /\ emain'.left = emain.left \ {r}
          /\ emain'.got = emain.got \cup {r}
          /\ emain'.left \cup emain'.got = emain.left \cup emain.got
      BY <2>1, <2>3
    <3> QED BY <2>1, <3>1 DEF Covered, Newest
  <2> QED BY <1>4, <2>1, <2>2, <2>3 DEF ExecuteFetch
<1> QED BY <1>1, <1>2, <1>3, <1>4 DEF Looks

LEMMA ExecuteDownloads == ExecuteInv /\ [ExecuteNext]_executeVars => Downloads'
<1> SUFFICES ASSUME ExecuteInv, [ExecuteNext]_executeVars
             PROVE  Downloads'
  OBVIOUS
<1>0. emain.found \subseteq Reports /\ ReadyReports \subseteq Reports
  BY DEF ExecuteInv, ExecuteTyped, ExecuteTypeOK, ReadyReports
<1>1. NotSearched' /\ Filtered' /\ Fetched' /\ emain'.found \subseteq emain.found \cup ReadyReports
  <2>1. CASE Looks
    BY <2>1, LoopsLook
  <2>2. CASE ~Looks
    BY <2>2, AsideSteps
       DEF ExecuteInv, Downloads, NotSearched, Filtered, Fetched, NewestOf, Covered, Newest
  <2> QED BY <2>1, <2>2
<1>2. \A r \in emain.found \cup ReadyReports : Ready(r)
  BY DEF ExecuteInv, Downloads, FoundReady, ReadyReports, Ready
<1>3. FoundReady'
  <2>1. \A r \in emain'.found : Ready(r)'
    BY <1>0, <1>1, <1>2, ReadyStays
  <2> QED BY <2>1 DEF FoundReady, Ready
<1> QED BY <1>1, <1>3 DEF Downloads

(* Nothing is ready but what was found, once the run is over. *)
LEMMA ExecuteFindsAll == ExecuteInv /\ [ExecuteNext]_executeVars => AllFound'
<1> SUFFICES ASSUME ExecuteInv, [ExecuteNext]_executeVars, EndsWell', eopts'.get # {},
                    emain'.pc \in {"filter", "fetch", "exit"}
             PROVE  emain'.found = ReadyReports'
  BY DEF AllFound
<1> USE DEF ExecuteInv, ExecuteTyped, ExecuteTypeOK, EndsWell
<1>1. CASE Looks
  <2>1. /\ emain.pc \in {"search", "filter", "fetch"} /\ eopts' = eopts /\ ereports' = ereports
        /\ emain'.rc = emain.rc /\ emain'.known = emain.known
    BY <1>1 DEF Looks, ExecuteSearch, ExecuteFilter, ExecuteSelect, ExecuteFetch, MainDoes, GoOn, OnServer
  <2>2. ReadyReports' = ReadyReports
    BY <2>1 DEF ReadyReports
  <2>3. CASE ExecuteSearch
    <3>1. emain.found = {}
      BY <2>3 DEF ExecuteSearch, MainDoes, Downloads, NotSearched
    <3> QED BY <2>1, <2>2, <2>3, <3>1 DEF ExecuteSearch, GoOn
  <2>4. CASE ExecuteFilter \/ ExecuteSelect \/ ExecuteFetch
    <3>1. emain'.found = emain.found /\ emain.pc \in {"filter", "fetch"}
      BY <2>4 DEF ExecuteFilter, ExecuteSelect, ExecuteFetch, MainDoes, GoOn
    <3> QED BY <2>1, <2>2, <3>1 DEF AllFound
  <2> QED BY <1>1, <2>3, <2>4 DEF Looks
<1>2. CASE ~Looks
  <2>1. emain' = emain /\ eopts' = eopts
    BY <1>2, AsideSteps
  <2>2. edep.state \in FinalRunStates
    BY <2>1 DEF Decisions, OverIfWell, Waiting
  <2>3. ReadyReports' = ReadyReports
    BY <2>2, OverIsOver DEF ReadyReports
  <2> QED BY <2>1, <2>3 DEF AllFound
<1> QED BY <1>1, <1>2

LEMMA ExecuteStarts == ExecuteInit => ExecuteInv
<1> SUFFICES ASSUME ExecuteInit PROVE ExecuteInv
  OBVIOUS
<1> USE ExecuteAssumption DEF ExecuteInit, ExecuteIdle
<1>1. ereports \in [Senders -> Seq({"new", "uploaded", "ready", "lost"})]
      /\ \A c \in Senders : Len(ereports[c]) <= MaxReports
  BY EmptySeq
<1>2. ExecuteTypeOK
  BY <1>1 DEF ExecuteTypeOK, RunStates
<1> QED BY <1>2 DEF ExecuteInv, ExecuteTyped, Decisions, NotBegun, GoneRightly, GoneInTime, OverIfWell,
                    Waiting, Terminated, Downloads, NotSearched, FoundReady, Filtered, Fetched,
                    NobodySends, FinalRunStates, AllFound

LEMMA ExecuteSteps == ExecuteInv /\ [ExecuteNext]_executeVars => ExecuteInv'
BY ExecuteTypes, ExecuteDecisions, ExecuteDownloads, SendersDone, ExecuteFindsAll DEF ExecuteInv

(* Every reachable state satisfies the inductive invariant. *)
THEOREM ExecuteInvariance == ExecuteSpec => []ExecuteInv
BY ExecuteStarts, ExecuteSteps, PTL DEF ExecuteSpec

LEMMA KilledAsPromised == ExecuteInv => KillsWhatItPromised
BY DEF ExecuteInv, Decisions, KillsWhatItPromised, Ended, GoneRightly, GoneInTime, OverIfWell,
       Waiting, Terminated

LEMMA DownloadedLatest == ExecuteInv => DownloadsLatest
<1> SUFFICES ASSUME ExecuteInv PROVE DownloadsLatest
  OBVIOUS
<1> USE DEF ExecuteInv, Downloads
<1>1. ASSUME NEW r \in emain.got
      PROVE  /\ r \in emain.found /\ ereports[r[1]][r[2]] = "ready"
             /\ \A s \in emain.found : s[1] = r[1] => s[2] <= r[2]
  BY DEF Fetched, FoundReady, Ready, Newest
<1>2. ASSUME emain.pc = "exit", EndsWell, NEW s \in ReadyReports, s[1] \in eopts.get
      PROVE  \E r \in emain.got : r[1] = s[1] /\ s[2] <= r[2]
  <2>1. s \in emain.found /\ emain.left = {}
    BY <1>2 DEF AllFound, Fetched
  <2> QED BY <1>2, <2>1 DEF Fetched, Covered
<1> QED BY <1>1, <1>2 DEF DownloadsLatest, EndsWell

(* The server has terminated the run that the command was to terminate, for any number of     *)
(* failures, unless a call about the termination itself was one of them; it has terminated no  *)
(* other; and a good exit code after a wait means that the run is over (ss-execute: doWork,     *)
(* _cond_terminate_run, _terminate_run).                                                        *)
THEOREM KillsCorrectly == ExecuteSpec => []KillsWhatItPromised
BY ExecuteInvariance, KilledAsPromised, PTL

(* The loop of latest_only keeps the newest report of each component, in whatever order and    *)
(* however many the server lists, and while components go on sending; and when the command      *)
(* waited for the end of the run and ends well, it leaves none behind (reports.py:              *)
(* latest_only, components_only, _download_reports).                                            *)
THEOREM DownloadsCorrectly == ExecuteSpec => []DownloadsLatest
BY ExecuteInvariance, DownloadedLatest, PTL

-----------------------------------------------------------------------------
(* The service offers. *)

(* What an execution has done for a key of its catalogue: the offers of the connector with this *)
(* key are among those it keeps, at its price unless there are several.                          *)
KeysIn(s) == {s[i] : i \in 1 .. Len(s)}
OursOf(S) == {o \in S : o.connector = "ours"}
Served(S, ids, u, k) ==
  /\ \E o \in OursOf(S) : o.key = k
  /\ \A o \in OursOf(S) : o.key = k =>
       o.id \in ids /\ (o.price = u \/ \E p \in OursOf(S) : p.id # o.id /\ p.key = k)

(* What it keeps is an offer of its catalogue that it has served. *)
Justified(S, ids, u, C, id) ==
  \E o \in OursOf(S) : o.id = id /\ o.key \in C /\ Served(S, ids, u, o.key)

(* The keys that are left of the catalogue are the ones that are not served. *)
Serving(S, ids, u, C, todo) ==
  /\ KeysIn(todo) \subseteq C /\ \A j \in C \ KeysIn(todo) : Served(S, ids, u, j)
  /\ \A id \in ids : Justified(S, ids, u, C, id)

OfferKeys == {"resource", "price"} \cup (UNION {KeysIn(c) : c \in Catalogues})
OfferUniverse ==
  (UNION StoredOffers) \cup [id : Nat, key : OfferKeys, price : Updaters, connector : {"ours"}]
OfferStates == [stored : SUBSET OfferUniverse, last : Nat, spaces : SUBSET {"resource", "price"}]
Execs ==
  [pc : {"generate", "space", "addspace", "search", "write", "list", "delete", "done", "raised"},
   dry : BOOLEAN, catalogue : Catalogues, todo : Seq(OfferKeys), found : SUBSET Nat, ids : SUBSET Nat,
   alone : BOOLEAN]
UniqueIds(S) == \A o, p \in S : o.id = p.id => o = p
OfferTypes ==
  /\ offers \in OfferStates /\ oexec \in [Updaters -> Execs] /\ ofaults \in 0 .. MaxOfferFaults
  /\ IsFiniteSet(IdsOf(offers.stored)) /\ IdsOf(offers.stored) \subseteq Nat /\ UniqueIds(offers.stored)

(* How far an execution is, as long as no other one has written since it began. *)
Synced(u) ==
  LET e == oexec[u]
      S == offers.stored
      C == KeysIn(e.catalogue) IN
  /\ e.pc \in {"search", "write"} => Serving(S, e.ids, u, C, e.todo)
  /\ e.pc \in {"list", "delete"} => Serving(S, e.ids, u, C, << >>)
  /\ e.pc = "write" => e.found = IdsOf({o \in OursOf(S) : o.key = Head(e.todo)})
  /\ e.pc = "delete" => e.found = IdsOf(OursOf(S)) \ e.ids
  /\ e.pc = "done" /\ ~e.dry =>
       /\ {o.key : o \in OursOf(S)} = C
       /\ \A o \in OursOf(S) : o.price = u \/ \E p \in OursOf(S) : p.id # o.id /\ p.key = o.key
OfferSound(u) ==
  /\ oexec[u].pc \in {"space", "addspace", "search", "write", "list", "delete"} => ~oexec[u].dry
  /\ oexec[u].pc \in {"generate", "space", "addspace"} => oexec[u].ids = {}
  /\ oexec[u].pc \in {"space", "addspace"} => oexec[u].todo \in Seq({"resource", "price"})
  /\ oexec[u].pc \in {"addspace", "write"} => oexec[u].todo # << >>
  /\ oexec[u].alone => Synced(u)

(* Dry runs write nothing, and nobody writes what is of another connector. *)
OfferWriters ==
  /\ \A o \in OursOf(offers.stored) : o.price \in Updaters => ~oexec[o.price].dry
  /\ \A o \in offers.stored : o.connector # "ours" => o.price \notin Updaters

OfferInv == OfferTypes /\ OfferWriters /\ \A u \in Updaters : OfferSound(u)

-----------------------------------------------------------------------------
(* The natural numbers are well ordered. *)
LessThan == {ss \in Nat \X Nat : ss[1] < ss[2]}
LEMMA Smallest ==
  ASSUME NEW T \in SUBSET Nat, T # {}
  PROVE  \E x \in T : \A y \in T : x <= y
<1>1. IsWellFoundedOn(LessThan, Nat)
  BY NatLessThanWellFounded DEF OpToRel, LessThan
<1>2. PICK x \in T : \A y \in T : ~(<<y, x>> \in LessThan)
  BY <1>1, WFMin
<1>3. \A y \in T : <<y, x>> \in Nat \X Nat
  OBVIOUS
<1>4. \A y \in T : ~(y < x)
  BY <1>2, <1>3 DEF LessThan
<1> QED BY <1>4

(* A finite set of numbers has a greatest one, and what comes after it is new. *)
LEMMA Greatest ==
  ASSUME NEW S \in SUBSET Nat, IsFiniteSet(S), S # {}
  PROVE  Max(S) \in S /\ \A y \in S : Max(S) >= y
<1> DEFINE HasMax(X) == \E x \in X : \A y \in X : x >= y
           Bad == {X \in SUBSET S : X # {} /\ ~HasMax(X)}
<1>1. Bad = {}
  <2> SUFFICES ASSUME Bad # {} PROVE FALSE
    OBVIOUS
  <2> DEFINE Sizes == {Cardinality(X) : X \in Bad}
  <2>1. \A X \in Bad : IsFiniteSet(X) /\ Cardinality(X) \in Nat
    BY FS_Subset, FS_CardinalityType
  <2>2. Sizes \in SUBSET Nat /\ Sizes # {}
    <3>1. Sizes \in SUBSET Nat
      BY <2>1
    <3>2. PICK X \in Bad : TRUE
      OBVIOUS
    <3>3. Cardinality(X) \in Sizes
      BY <3>2
    <3> HIDE DEF Sizes
    <3> QED BY <3>1, <3>3
  <2>3. PICK n \in Sizes : \A m \in Sizes : n <= m
    BY <2>2, Smallest
  <2>4. PICK X \in Bad : n = Cardinality(X)
    BY <2>3
  <2>5. PICK x \in X : TRUE
    BY <2>4
  <2> DEFINE Y == X \ {x}
  <2>6. x \in Nat /\ Y \in SUBSET S /\ X \subseteq Nat
    BY <2>4, <2>5
  <2>7. Cardinality(Y) < Cardinality(X)
    <3>1. IsFiniteSet(X) /\ Cardinality(X) \in Nat
      BY <2>1, <2>4
    <3>2. Cardinality(X \ {x}) = Cardinality(X) - 1
      BY <2>5, <3>1, FS_RemoveElement
    <3> QED BY <3>1, <3>2
  <2>8. Y \notin Bad
    <3>1. Y \in Bad => Cardinality(Y) \in Sizes
      OBVIOUS
    <3> HIDE DEF Sizes, Bad, Y
    <3>2. Cardinality(X) \in Nat
      BY <2>1, <2>4
    <3>3. Y \in Bad => Cardinality(Y) \in Nat
      BY <2>1
    <3> QED BY <2>3, <2>4, <2>7, <3>1, <3>2, <3>3
  <2>9. CASE Y = {}
    <3>1. X = {x}
      BY <2>5, <2>9
    <3>2. HasMax(X)
      BY <2>6, <3>1
    <3> QED BY <2>4, <3>2
  <2>10. CASE Y # {}
    <3>1. PICK m \in Y : \A y \in Y : m >= y
      BY <2>6, <2>8, <2>10
    <3>2. m \in Nat /\ m \in X /\ \A y \in X : y = x \/ y \in Y
      BY <2>6, <3>1
    <3>3. \A y \in X : y \in Nat
      BY <2>6
    <3>4. HasMax(X)
      <4>1. CASE x >= m
        BY <2>5, <2>6, <3>1, <3>2, <3>3, <4>1
      <4>2. CASE ~(x >= m)
        BY <2>5, <2>6, <3>1, <3>2, <3>3, <4>2
      <4> QED BY <4>1, <4>2
    <3> QED BY <2>4, <3>4
  <2> QED BY <2>9, <2>10
<1>2. HasMax(S)
  BY <1>1
<1> QED BY <1>2 DEF Max

LEMMA FreshIds ==
  ASSUME OfferTypes PROVE FreshId \in Nat /\ FreshId \notin IdsOf(offers.stored)
<1> DEFINE T == IdsOf(offers.stored) \cup {offers.last}
<1>1. offers.last \in Nat
  BY DEF OfferTypes, OfferStates
<1>2. T \in SUBSET Nat /\ T # {} /\ IsFiniteSet(T)
  BY <1>1, FS_AddElement DEF OfferTypes
<1>3. Max(T) \in T /\ \A y \in T : Max(T) >= y
  BY <1>2, Greatest
<1>4. Max(T) \in Nat /\ FreshId = Max(T) + 1
  BY <1>2, <1>3 DEF FreshId
<1>5. ASSUME FreshId \in IdsOf(offers.stored) PROVE FALSE
  <2>1. FreshId \in T
    BY <1>5
  <2> HIDE DEF T
  <2>2. Max(T) >= FreshId
    BY <1>3, <2>1
  <2> QED BY <1>4, <2>2
<1> QED BY <1>4, <1>5

-----------------------------------------------------------------------------
(* A write that serves a key with the offers of some ids: the other keys stay served, and each *)
(* offer of the connector keeps its id and its key.                                            *)
Serves(S, ids, u, k, T, more) ==
  /\ Served(T, ids \cup more, u, k)
  /\ \A j : j # k /\ Served(S, ids, u, j) => Served(T, ids \cup more, u, j)
  /\ \A o \in OursOf(S) : \E p \in OursOf(T) : p.id = o.id /\ p.key = o.key
  /\ \A id \in more : \E p \in OursOf(T) : p.id = id /\ p.key = k

(* An offer is added ... *)
LEMMA AddServes ==
  ASSUME NEW S, NEW ids, NEW u, NEW k, NEW n, n.id \notin IdsOf(S), n.key = k, n.price = u,
         n.connector = "ours", \A o \in OursOf(S) : o.key # k
  PROVE  Serves(S, ids, u, k, S \cup {n}, {n.id})
<1>1. OursOf(S \cup {n}) = OursOf(S) \cup {n}
  BY DEF OursOf
<1>2. Served(S \cup {n}, ids \cup {n.id}, u, k)
  BY <1>1 DEF Served
<1>3. ASSUME NEW j, Served(S, ids, u, j) PROVE Served(S \cup {n}, ids \cup {n.id}, u, j)
  <2>1. j # k
    BY <1>3 DEF Served
  <2> QED BY <1>1, <1>3, <2>1 DEF Served
<1> QED BY <1>1, <1>2, <1>3 DEF Serves

(* ... or is put in the place of the only one with its key ... *)
LEMMA EditServes ==
  ASSUME NEW S, NEW ids, NEW u, NEW k, NEW n, UniqueIds(S), n.key = k, n.price = u, n.connector = "ours",
         IdsOf({o \in OursOf(S) : o.key = k}) = {n.id},
         NEW T, T = {o \in S : o.id # n.id} \cup {n}
  PROVE  Serves(S, ids, u, k, T, {n.id})
<1>1. PICK o1 \in OursOf(S) : o1.key = k /\ o1.id = n.id
  BY DEF IdsOf
<1>2. \A o \in OursOf(S) : o.key = k <=> o.id = n.id
  BY <1>1 DEF IdsOf, UniqueIds, OursOf
<1>3. OursOf(T) = {o \in OursOf(S) : o.key # k} \cup {n}
  BY <1>2 DEF OursOf
<1>4. Served(T, ids \cup {n.id}, u, k)
  BY <1>3 DEF Served
<1>5. ASSUME NEW j, j # k, Served(S, ids, u, j) PROVE Served(T, ids \cup {n.id}, u, j)
  BY <1>3, <1>5 DEF Served
<1>6. ASSUME NEW o \in OursOf(S) PROVE \E p \in OursOf(T) : p.id = o.id /\ p.key = o.key
  BY <1>2, <1>3
<1>7. \A id \in {n.id} : \E p \in OursOf(T) : p.id = id /\ p.key = k
  BY <1>3
<1> QED BY <1>4, <1>5, <1>6, <1>7 DEF Serves

(* ... or the duplicates are kept. *)
LEMMA KeepServes ==
  ASSUME NEW S, NEW ids, NEW u, NEW k, NEW found, found = IdsOf({o \in OursOf(S) : o.key = k}),
         IsFiniteSet(found), Cardinality(found) > 1
  PROVE  Serves(S, ids, u, k, S, found)
<1>1. ASSUME NEW id PROVE found # {} /\ found # {id}
  <2>1. Cardinality({}) = 0 /\ Cardinality({id}) = 1
    BY FS_EmptySet, FS_Singleton
  <2>2. found # {}
    BY <2>1
  <2>3. ASSUME found = {id} PROVE FALSE
    <3>1. Cardinality(found) = 1
      BY <2>1, <2>3
    <3> QED BY <3>1
  <2> QED BY <2>2, <2>3
<1>2. \A id \in found : \E o \in OursOf(S) : o.id = id /\ o.key = k
  BY DEF IdsOf
<1>3. \A o \in OursOf(S) : o.key = k => o.id \in found
  BY DEF IdsOf
<1>4. ASSUME NEW id PROVE \E other \in found : other # id
  <2>1. found # {} /\ found # {id}
    BY <1>1
  <2> QED BY <2>1
<1>5. Served(S, ids \cup found, u, k)
  <2>1. \E o \in OursOf(S) : o.key = k
    BY <1>2, <1>4
  <2>2. ASSUME NEW o \in OursOf(S), o.key = k
        PROVE  o.id \in ids \cup found /\ \E p \in OursOf(S) : p.id # o.id /\ p.key = k
    <3>1. PICK other \in found : other # o.id
      BY <1>4
    <3>2. PICK p \in OursOf(S) : p.id = other /\ p.key = k
      BY <1>2
    <3> QED BY <1>3, <2>2, <3>1, <3>2
  <2> QED BY <2>1, <2>2 DEF Served
<1>6. ASSUME NEW j, Served(S, ids, u, j) PROVE Served(S, ids \cup found, u, j)
  BY <1>6 DEF Served
<1> QED BY <1>2, <1>5, <1>6 DEF Serves

(* An offer that is deleted was none of those that are kept. *)
LEMMA DeleteServes ==
  ASSUME NEW S, NEW ids, NEW u, NEW id, id \notin ids, NEW C, Serving(S, ids, u, C, << >>),
         NEW T, T = {o \in S : o.id # id}
  PROVE  Serving(T, ids, u, C, << >>)
<1>1. OursOf(T) = {o \in OursOf(S) : o.id # id}
  BY DEF OursOf
<1>2. ASSUME NEW j, Served(S, ids, u, j) PROVE Served(T, ids, u, j)
  <2>1. \A o \in OursOf(S) : o.key = j => o \in OursOf(T)
    BY <1>1, <1>2 DEF Served
  <2>2. OursOf(T) \subseteq OursOf(S)
    BY <1>1
  <2> QED BY <1>2, <2>1, <2>2 DEF Served
<1>3. ASSUME NEW i \in ids PROVE Justified(T, ids, u, C, i)
  BY <1>1, <1>2 DEF Justified, Serving
<1> QED BY <1>1, <1>2, <1>3 DEF Serving

(* The server holds each offer once, and no execution has begun. *)
LEMMA OfferStarts == OfferInit => OfferInv
<1> SUFFICES ASSUME OfferInit PROVE OfferInv
  OBVIOUS
<1> USE DEF OfferInit
<1>1. PICK stored \in StoredOffers, spaces \in {{}, {"resource", "price"}} :
        offers = [stored |-> stored, last |-> 0, spaces |-> spaces]
  OBVIOUS
<1>2. /\ IsFiniteSet(IdsOf(stored)) /\ IdsOf(stored) \subseteq Nat /\ UniqueIds(stored)
      /\ \A o \in stored : o.price \notin Updaters
  BY StoredOffersAssumption DEF UniqueIds
<1>3. stored \in SUBSET OfferUniverse
  BY DEF OfferUniverse
<1>4. offers \in OfferStates
  BY <1>1, <1>3 DEF OfferStates
<1>5. oexec \in [Updaters -> Execs]
  <2>1. << >> \in Seq(OfferKeys) /\ {} \in SUBSET Nat
    OBVIOUS
  <2> QED BY <2>1 DEF Execs
<1>6. OfferTypes
  BY <1>1, <1>2, <1>4, <1>5, OfferAssumption DEF OfferTypes
<1>7. OfferWriters
  BY <1>1, <1>2 DEF OfferWriters, OursOf
<1>8. \A u \in Updaters : OfferSound(u)
  BY DEF OfferSound, Synced
<1> QED BY <1>6, <1>7, <1>8 DEF OfferInv

-----------------------------------------------------------------------------
(* An execution stays as far as it is while the offers stay as they are, *)
(* and no longer counts on them when another one has written.            *)
LEMMA Undisturbed ==
  ASSUME NEW v \in Updaters, OfferSound(v), oexec'[v] = oexec[v], offers'.stored = offers.stored
  PROVE  OfferSound(v)'
BY DEF OfferSound, Synced

LEMMA Disturbed ==
  ASSUME NEW v \in Updaters, OfferTypes, OfferSound(v),
         oexec'[v] = [oexec[v] EXCEPT !.alone = @ /\ oexec[v].pc = "generate"]
  PROVE  OfferSound(v)'
<1>1. oexec[v] \in Execs
  BY DEF OfferTypes
<1>2. /\ oexec'[v].pc = oexec[v].pc /\ oexec'[v].dry = oexec[v].dry /\ oexec'[v].ids = oexec[v].ids
      /\ oexec'[v].todo = oexec[v].todo
      /\ oexec'[v].alone => oexec[v].pc = "generate"
  BY <1>1 DEF Execs
<1>3. oexec'[v].alone => Synced(v)'
  BY <1>2 DEF Synced
<1> QED BY <1>2, <1>3 DEF OfferSound

(* A step that leaves the offers alone. *)
LEMMA QuietStep ==
  ASSUME OfferInv, NEW u \in Updaters, NEW e \in Execs, oexec' = [oexec EXCEPT ![u] = e],
         e.dry = oexec[u].dry, offers' \in OfferStates, offers'.stored = offers.stored,
         ofaults' \in 0 .. MaxOfferFaults, OfferSound(u)'
  PROVE  OfferInv'
<1>1. OfferTypes'
  BY DEF OfferInv, OfferTypes
<1>2. \A v \in Updaters : oexec'[v].dry = oexec[v].dry
  BY DEF OfferInv, OfferTypes
<1>3. OfferWriters'
  BY <1>2 DEF OfferInv, OfferWriters
<1>4. ASSUME NEW v \in Updaters, v # u PROVE OfferSound(v)'
  BY <1>4, Undisturbed DEF OfferInv, OfferTypes
<1> QED BY <1>1, <1>3, <1>4 DEF OfferInv

(* A step that writes. *)
LEMMA WriteStep ==
  ASSUME OfferInv, NEW u \in Updaters, NEW e \in Execs, oexec' = Disturbing(u, e),
         e.dry = oexec[u].dry, ~e.dry, offers' \in OfferStates,
         IsFiniteSet(IdsOf(offers'.stored)), IdsOf(offers'.stored) \subseteq Nat,
         UniqueIds(offers'.stored),
         \A o \in offers'.stored : o \in offers.stored \/ (o.connector = "ours" /\ o.price = u),
         ofaults' = ofaults, OfferSound(u)'
  PROVE  OfferInv'
<1>1. oexec \in [Updaters -> Execs]
  BY DEF OfferInv, OfferTypes
<1>2. ASSUME NEW v \in Updaters
      PROVE  oexec'[v] \in Execs /\ oexec'[v].dry = oexec[v].dry
  <2>1. oexec[v] \in Execs
    BY <1>1
  <2>2. [oexec[v] EXCEPT !.alone = @ /\ oexec[v].pc = "generate"] \in Execs
    BY <2>1 DEF Execs
  <2>3. [oexec[v] EXCEPT !.alone = @ /\ oexec[v].pc = "generate"].dry = oexec[v].dry
    BY <2>1 DEF Execs
  <2> QED BY <2>2, <2>3 DEF Disturbing
<1>3. oexec' \in [Updaters -> Execs]
  BY <1>2 DEF Disturbing
<1>4. OfferTypes'
  BY <1>3 DEF OfferInv, OfferTypes, IdsOf, UniqueIds
<1>5. OfferWriters'
  BY <1>2 DEF OfferInv, OfferWriters, OursOf
<1>6. ASSUME NEW v \in Updaters, v # u PROVE OfferSound(v)'
  BY <1>6, Disturbed DEF OfferInv, Disturbing
<1> QED BY <1>4, <1>5, <1>6 DEF OfferInv

LEMMA OfferRaises ==
  ASSUME OfferInv, NEW u \in Updaters, Doomed(u), UNCHANGED offers, ofaults' \in 0 .. MaxOfferFaults
  PROVE  OfferInv'
<1> DEFINE e == [oexec[u] EXCEPT !.pc = "raised"]
<1>1. oexec[u] \in Execs /\ oexec \in [Updaters -> Execs] /\ offers \in OfferStates
  BY DEF OfferInv, OfferTypes
<1>2. e \in Execs /\ e.dry = oexec[u].dry /\ e.pc = "raised"
  BY <1>1 DEF Execs
<1>3. oexec' = [oexec EXCEPT ![u] = e]
  BY DEF Doomed, OfferTo
<1>4. oexec'[u] = e
  BY <1>1, <1>3
<1>5. OfferSound(u)'
  BY <1>2, <1>4 DEF OfferSound, Synced
<1> HIDE DEF e
<1> QED BY <1>1, <1>2, <1>3, <1>5, QuietStep

LEMMA CatalogueKeys == ASSUME NEW c \in Catalogues PROVE c \in Seq(OfferKeys)
<1>1. c \in Seq(KeysIn(c)) /\ KeysIn(c) \subseteq OfferKeys
  BY StoredOffersAssumption DEF KeysIn, OfferKeys
<1> HIDE DEF KeysIn, OfferKeys
<1> QED BY <1>1

(* What is left of the keys, once the first is dealt with. *)
LEMMA KeysOfTail ==
  ASSUME NEW K, NEW todo \in Seq(K), todo # << >>
  PROVE  /\ Head(todo) \in K /\ Tail(todo) \in Seq(K)
         /\ KeysIn(todo) = {Head(todo)} \cup KeysIn(Tail(todo))
<1>1. Len(todo) \in Nat \ {0}
  OBVIOUS
<1>2. Tail(todo) \in Seq(K) /\ Len(Tail(todo)) = Len(todo) - 1
  OBVIOUS
<1>3. \A i \in 1 .. Len(Tail(todo)) : Tail(todo)[i] = todo[i + 1]
  OBVIOUS
<1>4. Head(todo) = todo[1] /\ Head(todo) \in K
  OBVIOUS
<1>5. ASSUME NEW x \in KeysIn(todo) PROVE x = Head(todo) \/ x \in KeysIn(Tail(todo))
  <2>1. PICK i \in 1 .. Len(todo) : x = todo[i]
    BY DEF KeysIn
  <2>2. CASE i = 1
    BY <1>4, <2>1, <2>2
  <2>3. CASE i # 1
    <3>1. i - 1 \in 1 .. Len(Tail(todo)) /\ Tail(todo)[i - 1] = x
      BY <1>1, <1>2, <1>3, <2>1, <2>3
    <3> QED BY <3>1 DEF KeysIn
  <2> QED BY <2>2, <2>3
<1>6. ASSUME NEW x \in KeysIn(Tail(todo)) PROVE x \in KeysIn(todo)
  <2>1. PICK i \in 1 .. Len(Tail(todo)) : x = Tail(todo)[i]
    BY DEF KeysIn
  <2>2. i + 1 \in 1 .. Len(todo) /\ todo[i + 1] = x
    BY <1>1, <1>2, <1>3, <2>1
  <2> QED BY <2>2 DEF KeysIn
<1>7. Head(todo) \in KeysIn(todo)
  BY <1>1, <1>4 DEF KeysIn
<1> QED BY <1>2, <1>4, <1>5, <1>6, <1>7

-----------------------------------------------------------------------------
(* The cloud is asked, and the namespaces are looked for and added. *)
LEMMA OfferBegins ==
  ASSUME OfferInv, NEW u \in Updaters, OfferGenerate(u) \/ OfferSearchSpace(u) \/ OfferAddSpace(u)
  PROVE  OfferInv'
<1>1. /\ oexec[u] \in Execs /\ oexec \in [Updaters -> Execs] /\ offers \in OfferStates
      /\ ofaults \in 0 .. MaxOfferFaults /\ OfferSound(u)
  BY DEF OfferInv, OfferTypes
<1>2. CASE OfferGenerate(u)
  <2>1. CASE Doomed(u)
    BY <1>1, <1>2, <2>1, OfferRaises DEF OfferGenerate, NoFault
  <2>2. CASE ~Doomed(u)
    <3> DEFINE e == [oexec[u] EXCEPT !.pc = IF oexec[u].dry THEN "done" ELSE "space",
                                     !.todo = ResourcePrice]
    <3>1. oexec' = [oexec EXCEPT ![u] = e]
      BY <1>1, <1>2, <2>2 DEF OfferGenerate
    <3>2. ResourcePrice \in Seq({"resource", "price"}) /\ ResourcePrice \in Seq(OfferKeys)
      BY DEF ResourcePrice, OfferKeys
    <3>3. e \in Execs
      BY <1>1, <3>2 DEF Execs
    <3>4. /\ e.dry = oexec[u].dry /\ e.pc = IF e.dry THEN "done" ELSE "space"
          /\ e.todo = ResourcePrice /\ e.ids = oexec[u].ids
      BY <1>1 DEF Execs
    <3>5. oexec'[u] = e
      BY <1>1, <3>1
    <3>6. oexec[u].ids = {}
      BY <1>1, <1>2 DEF OfferGenerate, OfferAt, OfferSound
    <3>7. OfferSound(u)'
      BY <3>2, <3>4, <3>5, <3>6 DEF OfferSound, Synced
    <3>8. UNCHANGED <<offers, ofaults>>
      BY <1>2 DEF OfferGenerate, NoFault
    <3> HIDE DEF e
    <3> QED BY <1>1, <3>1, <3>3, <3>4, <3>7, <3>8, QuietStep
  <2> QED BY <2>1, <2>2
<1>3. CASE OfferSearchSpace(u)
  <2> DEFINE e == CASE oexec[u].todo = <<>> -> [oexec[u] EXCEPT !.pc = "search", !.todo = oexec[u].catalogue]
                    [] oexec[u].todo # <<>> /\ Head(oexec[u].todo) \in offers.spaces ->
                         [oexec[u] EXCEPT !.todo = Tail(@)]
                    [] OTHER -> [oexec[u] EXCEPT !.pc = "addspace"]
  <2>1. oexec' = [oexec EXCEPT ![u] = e]
    BY <1>1, <1>3 DEF OfferSearchSpace
  <2>2. UNCHANGED <<offers, ofaults>>
    BY <1>3 DEF OfferSearchSpace, NoFault
  <2>3. oexec'[u] = e
    BY <1>1, <2>1
  <2>4. /\ oexec[u].pc = "space" /\ ~oexec[u].dry /\ oexec[u].ids = {}
        /\ oexec[u].todo \in Seq({"resource", "price"})
    BY <1>1, <1>3 DEF OfferSearchSpace, OfferAt, OfferSound
  <2>5. CASE oexec[u].todo = <<>>
    <3>1. e = [oexec[u] EXCEPT !.pc = "search", !.todo = oexec[u].catalogue]
      BY <2>5
    <3>2. oexec[u].catalogue \in Seq(OfferKeys)
      BY <1>1, CatalogueKeys DEF Execs
    <3>3. /\ e \in Execs /\ e.dry = oexec[u].dry /\ e.pc = "search" /\ e.ids = {}
          /\ e.todo = e.catalogue
      BY <1>1, <2>4, <3>1, <3>2 DEF Execs
    <3> HIDE DEF e
    <3>4. OfferSound(u)'
      BY <2>3, <2>4, <3>3 DEF OfferSound, Synced, Serving
    <3> QED BY <1>1, <2>1, <2>2, <3>3, <3>4, QuietStep
  <2>6. CASE oexec[u].todo # <<>> /\ Head(oexec[u].todo) \in offers.spaces
    <3>1. e = [oexec[u] EXCEPT !.todo = Tail(@)]
      BY <2>6
    <3>2. /\ Tail(oexec[u].todo) \in Seq(OfferKeys)
          /\ Tail(oexec[u].todo) \in Seq({"resource", "price"})
      BY <1>1, <2>4, <2>6, KeysOfTail DEF Execs
    <3>3. /\ e \in Execs /\ e.dry = oexec[u].dry /\ e.pc = "space" /\ e.ids = {}
          /\ e.todo = Tail(oexec[u].todo)
      BY <1>1, <2>4, <3>1, <3>2 DEF Execs
    <3> HIDE DEF e
    <3>4. OfferSound(u)'
      BY <2>3, <2>4, <3>2, <3>3 DEF OfferSound, Synced
    <3> QED BY <1>1, <2>1, <2>2, <3>3, <3>4, QuietStep
  <2>7. CASE oexec[u].todo # <<>> /\ Head(oexec[u].todo) \notin offers.spaces
    <3>1. e = [oexec[u] EXCEPT !.pc = "addspace"]
      BY <2>7
    <3>2. /\ e \in Execs /\ e.dry = oexec[u].dry /\ e.pc = "addspace" /\ e.ids = {}
          /\ e.todo = oexec[u].todo
      BY <1>1, <2>4, <3>1 DEF Execs
    <3> HIDE DEF e
    <3>3. OfferSound(u)'
      BY <2>3, <2>4, <2>7, <3>2 DEF OfferSound, Synced
    <3> QED BY <1>1, <2>1, <2>2, <3>2, <3>3, QuietStep
  <2> QED BY <2>5, <2>6, <2>7
<1>4. CASE OfferAddSpace(u)
  <2>1. CASE Doomed(u) /\ UNCHANGED offers
    BY <1>1, <1>4, <2>1, OfferRaises DEF OfferAddSpace, NoFault
  <2>2. CASE ~(Doomed(u) /\ UNCHANGED offers)
    <3> DEFINE e == [oexec[u] EXCEPT !.pc = "space", !.todo = Tail(@)]
               space == Head(oexec[u].todo)
    <3>1. /\ oexec' = [oexec EXCEPT ![u] = e] /\ ofaults' = ofaults
          /\ offers' = [offers EXCEPT !.spaces = @ \cup {space}]
      BY <1>1, <1>4, <2>2 DEF OfferAddSpace, NoFault
    <3>2. /\ oexec[u].pc = "addspace" /\ ~oexec[u].dry /\ oexec[u].ids = {}
          /\ oexec[u].todo \in Seq({"resource", "price"}) /\ oexec[u].todo # << >>
      BY <1>1, <1>4 DEF OfferAddSpace, OfferAt, OfferSound
    <3>3. /\ Tail(oexec[u].todo) \in Seq(OfferKeys) /\ space \in {"resource", "price"}
          /\ Tail(oexec[u].todo) \in Seq({"resource", "price"})
      BY <1>1, <3>2, KeysOfTail DEF Execs
    <3>4. /\ e \in Execs /\ e.dry = oexec[u].dry /\ e.pc = "space" /\ e.ids = {}
          /\ e.todo = Tail(oexec[u].todo)
      BY <1>1, <3>2, <3>3 DEF Execs
    <3>5. offers' \in OfferStates /\ offers'.stored = offers.stored
      BY <1>1, <3>1, <3>3 DEF OfferStates
    <3>6. oexec'[u] = e
      BY <1>1, <3>1
    <3> HIDE DEF e
    <3>7. OfferSound(u)'
      BY <3>2, <3>3, <3>4, <3>6 DEF OfferSound, Synced
    <3> QED BY <1>1, <3>1, <3>4, <3>5, <3>7, QuietStep
  <2> QED BY <2>1, <2>2
<1> QED BY <1>2, <1>3, <1>4

(* The offer that stands for the next key is looked for. *)
LEMMA OfferLooks ==
  ASSUME OfferInv, NEW u \in Updaters, OfferSearch(u)
  PROVE  OfferInv'
<1>1. /\ oexec[u] \in Execs /\ oexec \in [Updaters -> Execs] /\ offers \in OfferStates
      /\ ofaults \in 0 .. MaxOfferFaults /\ OfferSound(u)
  BY DEF OfferInv, OfferTypes
<1>2. oexec[u].pc = "search" /\ ~oexec[u].dry /\ UNCHANGED <<offers, ofaults>>
  BY <1>1 DEF OfferSearch, OfferAt, NoFault, OfferSound
<1>3. CASE oexec[u].todo = <<>>
  <2> DEFINE e == [oexec[u] EXCEPT !.pc = "list"]
  <2>1. oexec' = [oexec EXCEPT ![u] = e] /\ oexec'[u] = e
    BY <1>1, <1>3 DEF OfferSearch
  <2>2. /\ e \in Execs /\ e.dry = oexec[u].dry /\ e.pc = "list" /\ e.ids = oexec[u].ids
        /\ e.catalogue = oexec[u].catalogue /\ e.alone = oexec[u].alone
    BY <1>1 DEF Execs
  <2> HIDE DEF e
  <2>4. e.alone => Synced(u)'
    BY <1>1, <1>2, <1>3, <2>1, <2>2 DEF OfferSound, Synced
  <2>5. OfferSound(u)'
    BY <1>2, <2>1, <2>2, <2>4 DEF OfferSound
  <2> QED BY <1>1, <1>2, <2>1, <2>2, <2>5, QuietStep
<1>4. CASE oexec[u].todo # <<>>
  <2> DEFINE found == {o.id : o \in {p \in Ours : p.key = Head(oexec[u].todo)}}
             e == [oexec[u] EXCEPT !.pc = "write", !.found = found]
  <2>1. oexec' = [oexec EXCEPT ![u] = e] /\ oexec'[u] = e
    BY <1>1, <1>4 DEF OfferSearch
  <2>2. /\ found = IdsOf({o \in OursOf(offers.stored) : o.key = Head(oexec[u].todo)})
        /\ found \in SUBSET Nat
    BY DEF OfferInv, OfferTypes, IdsOf, Ours, OursOf
  <2> HIDE DEF found
  <2>3. /\ e \in Execs /\ e.dry = oexec[u].dry /\ e.pc = "write" /\ e.ids = oexec[u].ids
        /\ e.catalogue = oexec[u].catalogue /\ e.alone = oexec[u].alone /\ e.found = found
        /\ e.todo = oexec[u].todo
    BY <1>1, <2>2 DEF Execs
  <2> HIDE DEF e
  <2>4. e.alone => Synced(u)'
    BY <1>1, <1>2, <2>1, <2>2, <2>3 DEF OfferSound, Synced
  <2>5. OfferSound(u)'
    BY <1>2, <1>4, <2>1, <2>3, <2>4 DEF OfferSound
  <2> QED BY <1>1, <1>2, <2>1, <2>3, <2>5, QuietStep
<1> QED BY <1>3, <1>4

(* A key is dealt with: those before it stay served, and what is kept stays justified. *)
LEMMA Advances ==
  ASSUME NEW S, NEW ids, NEW u, NEW C, NEW K, NEW todo \in Seq(K), todo # << >>,
         Serving(S, ids, u, C, todo), NEW T, NEW more, Serves(S, ids, u, Head(todo), T, more)
  PROVE  Serving(T, ids \cup more, u, C, Tail(todo))
<1> DEFINE k == Head(todo)
<1>1. KeysIn(todo) = {k} \cup KeysIn(Tail(todo))
  BY KeysOfTail
<1>2. k \in C
  BY <1>1 DEF Serving
<1> HIDE DEF k
<1>3. Serves(S, ids, u, k, T, more)
  BY DEF k
<1>4. ASSUME NEW j \in C \ KeysIn(Tail(todo)) PROVE Served(T, ids \cup more, u, j)
  BY <1>1, <1>3 DEF Serving, Serves
<1>5. ASSUME NEW id \in more PROVE Justified(T, ids \cup more, u, C, id)
  BY <1>2, <1>3 DEF Justified, Serves
<1>6. ASSUME NEW id \in ids PROVE Justified(T, ids \cup more, u, C, id)
  <2>1. PICK o \in OursOf(S) : o.id = id /\ o.key \in C /\ Served(S, ids, u, o.key)
    BY DEF Serving, Justified
  <2>2. PICK p \in OursOf(T) : p.id = o.id /\ p.key = o.key
    BY <1>3 DEF Serves
  <2>3. Served(T, ids \cup more, u, p.key)
    BY <1>3, <2>1, <2>2 DEF Serves
  <2> QED BY <2>1, <2>2, <2>3 DEF Justified
<1>7. KeysIn(Tail(todo)) \subseteq C
  BY <1>1 DEF Serving
<1> QED BY <1>4, <1>5, <1>6, <1>7 DEF Serving

(* What is known where an offer is to be written, whoever else has written. *)
LEMMA Writing ==
  ASSUME OfferInv, NEW u \in Updaters, oexec[u].pc = "write"
  PROVE  /\ oexec[u] \in Execs /\ oexec \in [Updaters -> Execs] /\ offers \in OfferStates
         /\ ofaults \in 0 .. MaxOfferFaults /\ ~oexec[u].dry
         /\ oexec[u].todo \in Seq(OfferKeys) /\ oexec[u].todo # << >>
         /\ Head(oexec[u].todo) \in OfferKeys /\ Tail(oexec[u].todo) \in Seq(OfferKeys)
         /\ UniqueIds(offers.stored) /\ IsFiniteSet(IdsOf(offers.stored))
         /\ IdsOf(offers.stored) \subseteq Nat
         /\ oexec[u].alone =>
              /\ Serving(offers.stored, oexec[u].ids, u, KeysIn(oexec[u].catalogue), oexec[u].todo)
              /\ oexec[u].found =
                   IdsOf({o \in OursOf(offers.stored) : o.key = Head(oexec[u].todo)})
<1>1. /\ oexec[u] \in Execs /\ oexec \in [Updaters -> Execs] /\ offers \in OfferStates
      /\ ofaults \in 0 .. MaxOfferFaults /\ OfferSound(u)
      /\ UniqueIds(offers.stored) /\ IsFiniteSet(IdsOf(offers.stored))
      /\ IdsOf(offers.stored) \subseteq Nat
  BY DEF OfferInv, OfferTypes
<1>2. oexec[u].todo \in Seq(OfferKeys) /\ oexec[u].todo # << >> /\ ~oexec[u].dry
  BY <1>1 DEF OfferSound, Execs
<1>3. Head(oexec[u].todo) \in OfferKeys /\ Tail(oexec[u].todo) \in Seq(OfferKeys)
  BY <1>2, KeysOfTail
<1>4. oexec[u].alone => Synced(u)
  BY <1>1 DEF OfferSound
<1> QED BY <1>1, <1>2, <1>3, <1>4 DEF Synced

(* An execution that has dealt with a key is sound. *)
LEMMA WroteSound ==
  ASSUME OfferInv, NEW u \in Updaters, oexec[u].pc = "write", NEW more \in SUBSET Nat,
         NEW e, e = [oexec[u] EXCEPT !.pc = "search", !.todo = Tail(@), !.ids = @ \cup more],
         oexec'[u] = e,
         oexec[u].alone =>
           Serves(offers.stored, oexec[u].ids, u, Head(oexec[u].todo), offers'.stored, more)
  PROVE  e \in Execs /\ e.dry = oexec[u].dry /\ OfferSound(u)'
<1>1. /\ oexec[u] \in Execs /\ oexec[u].todo \in Seq(OfferKeys) /\ oexec[u].todo # << >>
      /\ Tail(oexec[u].todo) \in Seq(OfferKeys) /\ ~oexec[u].dry
      /\ oexec[u].alone =>
           Serving(offers.stored, oexec[u].ids, u, KeysIn(oexec[u].catalogue), oexec[u].todo)
  BY Writing
<1>2. /\ e \in Execs /\ e.dry = oexec[u].dry /\ e.pc = "search" /\ e.ids = oexec[u].ids \cup more
      /\ e.catalogue = oexec[u].catalogue /\ e.alone = oexec[u].alone
      /\ e.todo = Tail(oexec[u].todo)
  BY <1>1 DEF Execs
<1>3. ASSUME e.alone
      PROVE  Serving(offers'.stored, oexec[u].ids \cup more, u, KeysIn(oexec[u].catalogue),
                     Tail(oexec[u].todo))
  BY <1>1, <1>2, <1>3, Advances
<1>4. e.alone => Synced(u)'
  BY <1>2, <1>3 DEF Synced
<1> QED BY <1>1, <1>2, <1>4 DEF OfferSound

LEMMA OfferedWell ==
  ASSUME NEW u \in Updaters, NEW id \in Nat, Head(oexec[u].todo) \in OfferKeys
  PROVE  /\ Offered(u, id) \in OfferUniverse
         /\ Offered(u, id).id = id /\ Offered(u, id).key = Head(oexec[u].todo)
         /\ Offered(u, id).price = u /\ Offered(u, id).connector = "ours"
<1> DEFINE R == [id : Nat, key : OfferKeys, price : Updaters, connector : {"ours"}]
<1>1. Offered(u, id) \in R
  BY DEF Offered
<1>2. OfferUniverse = (UNION StoredOffers) \cup R
  BY DEF OfferUniverse
<1> HIDE DEF R
<1>3. Offered(u, id) \in OfferUniverse
  BY <1>1, <1>2
<1> QED BY <1>3 DEF Offered

LEMMA OfferAdds ==
  ASSUME OfferInv, NEW u \in Updaters, OfferAdd(u)
  PROVE  OfferInv'
<1> DEFINE S == offers.stored
           k == Head(oexec[u].todo)
           n == Offered(u, FreshId)
           T == S \cup {n}
           e == [oexec[u] EXCEPT !.pc = "search", !.todo = Tail(@), !.ids = @ \cup {FreshId}]
<1>1. /\ oexec[u].pc = "write" /\ oexec[u].found = {} /\ ofaults' = ofaults
      /\ offers' = [offers EXCEPT !.stored = S \cup {n}, !.last = FreshId]
      /\ oexec' = Disturbing(u, e)
  BY DEF OfferAdd, OfferAt, NoFault, Wrote
<1>2. /\ offers \in OfferStates /\ ~oexec[u].dry /\ k \in OfferKeys
      /\ UniqueIds(S) /\ IsFiniteSet(IdsOf(S)) /\ IdsOf(S) \subseteq Nat
      /\ oexec[u].alone => oexec[u].found = IdsOf({o \in OursOf(S) : o.key = k})
  BY <1>1, Writing
<1>3. FreshId \in Nat /\ FreshId \notin IdsOf(S)
  BY FreshIds DEF OfferInv
<1>4. /\ n.id = FreshId /\ n.key = k /\ n.price = u /\ n.connector = "ours"
      /\ n \in OfferUniverse
  BY <1>2, <1>3, OfferedWell
<1>5. oexec'[u] = e
  BY <1>1 DEF Disturbing
<1>6. \A o \in T : o \in S \/ (o.connector = "ours" /\ o.price = u)
  BY <1>4
<1>7. e = [oexec[u] EXCEPT !.pc = "search", !.todo = Tail(@), !.ids = @ \cup {n.id}]
  BY <1>4
<1> HIDE DEF k, n, e
<1>8. offers' \in OfferStates /\ offers'.stored = T
  BY <1>1, <1>2, <1>3, <1>4 DEF OfferStates
<1>9. IdsOf(T) = IdsOf(S) \cup {FreshId}
  BY <1>4 DEF IdsOf
<1>10. IsFiniteSet(IdsOf(T)) /\ IdsOf(T) \subseteq Nat
  BY <1>2, <1>3, <1>9, FS_AddElement
<1>11. UniqueIds(T)
  BY <1>2, <1>3, <1>4 DEF UniqueIds, IdsOf
<1>12. ASSUME oexec[u].alone
       PROVE  Serves(offers.stored, oexec[u].ids, u, Head(oexec[u].todo), offers'.stored, {n.id})
  <2>1. \A o \in OursOf(S) : o.key # k
    BY <1>1, <1>2, <1>12 DEF IdsOf
  <2>2. n.id \notin IdsOf(S)
    BY <1>3, <1>4
  <2>3. Serves(S, oexec[u].ids, u, k, S \cup {n}, {n.id})
    BY <1>4, <2>1, <2>2, AddServes
  <2> QED BY <1>8, <2>3 DEF k
<1>13. {n.id} \in SUBSET Nat
  BY <1>3, <1>4
<1>14. e \in Execs /\ e.dry = oexec[u].dry /\ OfferSound(u)'
  BY <1>1, <1>5, <1>7, <1>12, <1>13, WroteSound
<1> QED BY <1>1, <1>2, <1>6, <1>8, <1>10, <1>11, <1>14, WriteStep

LEMMA OfferEdits ==
  ASSUME OfferInv, NEW u \in Updaters, OfferEdit(u)
  PROVE  OfferInv'
<1>1. CASE Doomed(u) /\ UNCHANGED offers
  <2>1. ofaults' \in 0 .. MaxOfferFaults
    BY DEF OfferInv, OfferTypes, OfferEdit, NoFault
  <2> QED BY <1>1, <2>1, OfferRaises
<1>2. CASE ~(Doomed(u) /\ UNCHANGED offers)
  <2>1. PICK id \in oexec[u].found :
          /\ oexec[u].found = {id} /\ id \in IdsOf(offers.stored) /\ Wrote(u, {id})
          /\ offers' = [offers EXCEPT !.stored = {o \in @ : o.id # id} \cup {Offered(u, id)}]
    BY <1>2 DEF OfferEdit
  <2> DEFINE S == offers.stored
             k == Head(oexec[u].todo)
             n == Offered(u, id)
             T == {o \in S : o.id # id} \cup {n}
             e == [oexec[u] EXCEPT !.pc = "search", !.todo = Tail(@), !.ids = @ \cup {id}]
  <2>2. /\ oexec[u].pc = "write" /\ ofaults' = ofaults /\ oexec' = Disturbing(u, e)
    BY <2>1 DEF OfferEdit, OfferAt, NoFault, Wrote
  <2>3. /\ offers \in OfferStates /\ ~oexec[u].dry /\ k \in OfferKeys
        /\ UniqueIds(S) /\ IsFiniteSet(IdsOf(S)) /\ IdsOf(S) \subseteq Nat
        /\ oexec[u].alone => oexec[u].found = IdsOf({o \in OursOf(S) : o.key = k})
    BY <2>2, Writing
  <2>4. id \in Nat
    BY <2>1, <2>3
  <2>5. /\ n.id = id /\ n.key = k /\ n.price = u /\ n.connector = "ours" /\ n \in OfferUniverse
    BY <2>3, <2>4, OfferedWell
  <2>6. oexec'[u] = e
    BY <2>2 DEF Disturbing
  <2>7. e = [oexec[u] EXCEPT !.pc = "search", !.todo = Tail(@), !.ids = @ \cup {n.id}]
    BY <2>5
  <2> HIDE DEF k, n, e
  <2>8. offers' \in OfferStates /\ offers'.stored = T
    BY <2>1, <2>3, <2>5 DEF OfferStates, n
  <2>9. IdsOf(T) \subseteq IdsOf(S)
    BY <2>1, <2>5 DEF IdsOf
  <2>10. IsFiniteSet(IdsOf(T)) /\ IdsOf(T) \subseteq Nat
    BY <2>3, <2>9, FS_Subset
  <2>11. UniqueIds(T)
    BY <2>3, <2>5 DEF UniqueIds
  <2>12. ASSUME oexec[u].alone
         PROVE  Serves(offers.stored, oexec[u].ids, u, Head(oexec[u].todo), offers'.stored, {n.id})
    <3>1. IdsOf({o \in OursOf(S) : o.key = k}) = {n.id}
      BY <2>1, <2>3, <2>5, <2>12
    <3>2. T = {o \in S : o.id # n.id} \cup {n}
      BY <2>5
    <3> HIDE DEF T
    <3>3. Serves(S, oexec[u].ids, u, k, T, {n.id})
      BY <2>3, <2>5, <3>1, <3>2, EditServes
    <3> QED BY <2>8, <3>3 DEF k
  <2>13. {n.id} \in SUBSET Nat
    BY <2>4, <2>5
  <2>14. \A o \in T : o \in S \/ (o.connector = "ours" /\ o.price = u)
    BY <2>5
  <2> HIDE DEF T
  <2>15. e \in Execs /\ e.dry = oexec[u].dry /\ OfferSound(u)'
    BY <2>2, <2>6, <2>7, <2>12, <2>13, WroteSound
  <2> QED BY <2>2, <2>3, <2>8, <2>10, <2>11, <2>14, <2>15, WriteStep
<1> QED BY <1>1, <1>2

LEMMA OfferKeeps ==
  ASSUME OfferInv, NEW u \in Updaters, OfferKeep(u)
  PROVE  OfferInv'
<1> DEFINE S == offers.stored
           k == Head(oexec[u].todo)
           found == oexec[u].found
           e == [oexec[u] EXCEPT !.pc = "search", !.todo = Tail(@), !.ids = @ \cup found]
<1>1. /\ oexec[u].pc = "write" /\ Cardinality(found) > 1 /\ UNCHANGED <<offers, ofaults>>
      /\ oexec' = [oexec EXCEPT ![u].pc = "search", ![u].todo = Tail(@),
                                ![u].ids = @ \cup oexec[u].found]
  BY DEF OfferKeep, OfferAt, NoFault
<1>2. /\ offers \in OfferStates /\ oexec[u] \in Execs /\ oexec \in [Updaters -> Execs]
      /\ ofaults \in 0 .. MaxOfferFaults /\ IsFiniteSet(IdsOf(S))
      /\ oexec[u].alone => found = IdsOf({o \in OursOf(S) : o.key = k})
  BY <1>1, Writing
<1>3. oexec' = [oexec EXCEPT ![u] = e] /\ oexec'[u] = e
  BY <1>1, <1>2
<1>4. found \in SUBSET Nat
  BY <1>2 DEF Execs
<1>5. ASSUME oexec[u].alone
      PROVE  Serves(offers.stored, oexec[u].ids, u, Head(oexec[u].todo), offers'.stored, found)
  <2>1. found = IdsOf({o \in OursOf(S) : o.key = k})
    BY <1>2, <1>5
  <2>2. found \subseteq IdsOf(S)
    BY <2>1 DEF IdsOf, OursOf
  <2>3. IsFiniteSet(found)
    BY <1>2, <2>2, FS_Subset
  <2> HIDE DEF k, e, found
  <2>4. Serves(S, oexec[u].ids, u, k, S, found)
    BY <1>1, <2>1, <2>3, KeepServes
  <2> QED BY <1>1, <2>4 DEF k
<1>6. e = [oexec[u] EXCEPT !.pc = "search", !.todo = Tail(@), !.ids = @ \cup found]
  OBVIOUS
<1> HIDE DEF found, e
<1>7. e \in Execs /\ e.dry = oexec[u].dry /\ OfferSound(u)'
  BY <1>1, <1>3, <1>4, <1>5, <1>6, WroteSound
<1> QED BY <1>1, <1>2, <1>3, <1>7, QuietStep

(* What is the connector's and is none of the offers that it keeps is deleted, one by one. *)
LEMMA OfferLists ==
  ASSUME OfferInv, NEW u \in Updaters, OfferList(u)
  PROVE  OfferInv'
<1> DEFINE found == IdsOf(Ours) \ oexec[u].ids
           e == [oexec[u] EXCEPT !.pc = "delete", !.found = found]
<1>1. /\ oexec[u] \in Execs /\ oexec \in [Updaters -> Execs] /\ offers \in OfferStates
      /\ ofaults \in 0 .. MaxOfferFaults /\ OfferSound(u) /\ IdsOf(offers.stored) \subseteq Nat
  BY DEF OfferInv, OfferTypes
<1>2. oexec[u].pc = "list" /\ ~oexec[u].dry /\ UNCHANGED <<offers, ofaults>>
  BY <1>1 DEF OfferList, OfferAt, NoFault, OfferSound
<1>3. oexec' = [oexec EXCEPT ![u] = e] /\ oexec'[u] = e
  BY <1>1 DEF OfferList
<1>4. found \in SUBSET Nat /\ found = IdsOf(OursOf(offers.stored)) \ oexec[u].ids
  BY <1>1 DEF IdsOf, Ours, OursOf
<1> HIDE DEF found
<1>5. /\ e \in Execs /\ e.dry = oexec[u].dry /\ e.pc = "delete" /\ e.ids = oexec[u].ids
      /\ e.catalogue = oexec[u].catalogue /\ e.alone = oexec[u].alone /\ e.found = found
  BY <1>1, <1>4 DEF Execs
<1> HIDE DEF e
<1>6. e.alone => Synced(u)'
  BY <1>1, <1>2, <1>3, <1>4, <1>5 DEF OfferSound, Synced
<1>7. OfferSound(u)'
  BY <1>2, <1>3, <1>5, <1>6 DEF OfferSound
<1> QED BY <1>1, <1>2, <1>3, <1>5, <1>7, QuietStep

(* With nothing left to delete, the server holds what the catalogue says. *)
LEMMA AllServed ==
  ASSUME NEW S, NEW ids, NEW u, NEW C, UniqueIds(S), Serving(S, ids, u, C, << >>),
         IdsOf(OursOf(S)) \subseteq ids
  PROVE  /\ {o.key : o \in OursOf(S)} = C
         /\ \A o \in OursOf(S) : o.price = u \/ \E p \in OursOf(S) : p.id # o.id /\ p.key = o.key
<1>1. \A k \in C : Served(S, ids, u, k)
  BY DEF Serving, KeysIn
<1>2. ASSUME NEW o \in OursOf(S) PROVE o.key \in C /\ Served(S, ids, u, o.key)
  <2>1. Justified(S, ids, u, C, o.id)
    BY DEF Serving, IdsOf
  <2>2. PICK p \in OursOf(S) : p.id = o.id /\ p.key \in C /\ Served(S, ids, u, p.key)
    BY <2>1 DEF Justified
  <2>3. p = o
    BY <2>2 DEF UniqueIds, OursOf
  <2> QED BY <2>2, <2>3
<1>3. ASSUME NEW k \in C PROVE \E o \in OursOf(S) : o.key = k
  BY <1>1 DEF Served
<1>4. ASSUME NEW o \in OursOf(S)
      PROVE  o.price = u \/ \E p \in OursOf(S) : p.id # o.id /\ p.key = o.key
  BY <1>2 DEF Served
<1> QED BY <1>2, <1>3, <1>4

LEMMA OfferDeletes ==
  ASSUME OfferInv, NEW u \in Updaters, OfferDelete(u)
  PROVE  OfferInv'
<1> DEFINE S == offers.stored
           C == KeysIn(oexec[u].catalogue)
<1>1. /\ oexec[u] \in Execs /\ oexec \in [Updaters -> Execs] /\ offers \in OfferStates
      /\ ofaults \in 0 .. MaxOfferFaults /\ OfferSound(u) /\ IdsOf(S) \subseteq Nat
      /\ UniqueIds(S) /\ IsFiniteSet(IdsOf(S))
  BY DEF OfferInv, OfferTypes
<1>2. oexec[u].pc = "delete" /\ ~oexec[u].dry /\ ofaults' = ofaults
  BY <1>1 DEF OfferDelete, OfferAt, NoFault, OfferSound
<1>3. oexec[u].alone => /\ Serving(S, oexec[u].ids, u, C, << >>)
                        /\ oexec[u].found = IdsOf(OursOf(S)) \ oexec[u].ids
  BY <1>1, <1>2 DEF OfferSound, Synced
<1>4. CASE Doomed(u) /\ UNCHANGED offers
  BY <1>1, <1>2, <1>4, OfferRaises
<1>5. CASE oexec[u].found = {} /\ OfferTo(u, "done") /\ UNCHANGED offers
  <2> DEFINE e == [oexec[u] EXCEPT !.pc = "done"]
  <2>1. oexec' = [oexec EXCEPT ![u] = e] /\ oexec'[u] = e
    BY <1>1, <1>5 DEF OfferTo
  <2>2. /\ e \in Execs /\ e.dry = oexec[u].dry /\ e.pc = "done"
        /\ e.catalogue = oexec[u].catalogue /\ e.alone = oexec[u].alone
    BY <1>1 DEF Execs
  <2> HIDE DEF e
  <2>3. ASSUME e.alone
        PROVE  /\ {o.key : o \in OursOf(S)} = C
               /\ \A o \in OursOf(S) : o.price = u \/ \E p \in OursOf(S) : p.id # o.id /\ p.key = o.key
    <3>1. Serving(S, oexec[u].ids, u, C, << >>) /\ IdsOf(OursOf(S)) \subseteq oexec[u].ids
      BY <1>3, <1>5, <2>2, <2>3
    <3> HIDE DEF S, C
    <3> QED BY <1>1, <3>1, AllServed
  <2>4. e.alone => Synced(u)'
    BY <1>5, <2>1, <2>2, <2>3 DEF Synced
  <2>5. OfferSound(u)'
    BY <2>1, <2>2, <2>4 DEF OfferSound
  <2> QED BY <1>1, <1>2, <1>5, <2>1, <2>2, <2>5, QuietStep
<1>6. ASSUME NEW id \in oexec[u].found, id \in IdsOf(S),
             offers' = [offers EXCEPT !.stored = {o \in @ : o.id # id}],
             oexec' = Disturbing(u, [oexec[u] EXCEPT !.found = @ \ {id}])
      PROVE  OfferInv'
  <2> DEFINE e == [oexec[u] EXCEPT !.found = @ \ {id}]
             T == {o \in S : o.id # id}
  <2>1. oexec' = Disturbing(u, e) /\ oexec'[u] = e
    BY <1>6 DEF Disturbing
  <2>2. /\ e \in Execs /\ e.dry = oexec[u].dry /\ e.pc = "delete" /\ e.ids = oexec[u].ids
        /\ e.catalogue = oexec[u].catalogue /\ e.alone = oexec[u].alone
        /\ e.found = oexec[u].found \ {id}
    BY <1>1, <1>2 DEF Execs
  <2> HIDE DEF e
  <2>3. offers' \in OfferStates /\ offers'.stored = T
    BY <1>1, <1>6 DEF OfferStates
  <2>4. IdsOf(T) \subseteq IdsOf(S) /\ UniqueIds(T)
    BY <1>1 DEF IdsOf, UniqueIds
  <2>5. IsFiniteSet(IdsOf(T)) /\ IdsOf(T) \subseteq Nat
    BY <1>1, <2>4, FS_Subset
  <2>6. ASSUME e.alone
        PROVE  /\ Serving(T, oexec[u].ids, u, C, << >>)
               /\ oexec[u].found \ {id} = IdsOf(OursOf(T)) \ oexec[u].ids
    <3>1. /\ Serving(S, oexec[u].ids, u, C, << >>)
          /\ oexec[u].found = IdsOf(OursOf(S)) \ oexec[u].ids
      BY <1>3, <2>2, <2>6
    <3>2. id \notin oexec[u].ids
      BY <1>6, <3>1
    <3>3. T = {o \in S : o.id # id}
      OBVIOUS
    <3>4. OursOf(T) = {o \in OursOf(S) : o.id # id}
      BY DEF OursOf
    <3> HIDE DEF T, S, C
    <3>5. Serving(T, oexec[u].ids, u, C, << >>)
      BY <3>1, <3>2, <3>3, DeleteServes
    <3>6. ASSUME NEW i PROVE i \in IdsOf(OursOf(T)) <=> i \in IdsOf(OursOf(S)) /\ i # id
      BY <3>4 DEF IdsOf
    <3>7. oexec[u].found \ {id} = IdsOf(OursOf(T)) \ oexec[u].ids
      BY <3>1, <3>6
    <3> QED BY <3>5, <3>7
  <2>7. e.alone => Synced(u)'
    BY <2>1, <2>2, <2>3, <2>6 DEF Synced
  <2>8. OfferSound(u)'
    BY <1>2, <2>1, <2>2, <2>7 DEF OfferSound
  <2>9. \A o \in offers'.stored : o \in offers.stored
    BY <2>3
  <2> HIDE DEF T
  <2> QED BY <1>2, <2>1, <2>2, <2>3, <2>4, <2>5, <2>8, <2>9, WriteStep
<1> QED BY <1>4, <1>5, <1>6 DEF OfferDelete

(* Every step of the update of the offers. *)
LEMMA OfferSteps == OfferInv /\ OfferNext => OfferInv'
<1> SUFFICES ASSUME OfferInv, NEW u \in Updaters, OfferProgress(u) \/ OfferFails(u) PROVE OfferInv'
  BY DEF OfferNext
<1>1. CASE OfferFails(u)
  <2>1. ofaults' \in 0 .. MaxOfferFaults
    BY <1>1, OfferAssumption DEF OfferInv, OfferTypes, OfferFails, OfferFault
  <2> QED BY <1>1, <2>1, OfferRaises DEF OfferFails
<1> QED
  BY <1>1, OfferBegins, OfferLooks, OfferAdds, OfferEdits, OfferKeeps, OfferLists, OfferDeletes
  DEF OfferProgress

LEMMA OfferedInSync == OfferInv => OfferTypeOK /\ OffersInSync
<1> SUFFICES ASSUME OfferInv PROVE OfferTypeOK /\ OffersInSync
  OBVIOUS
<1>1. OfferTypeOK
  BY DEF OfferInv, OfferTypes, OfferTypeOK, OfferStates, Execs, UniqueIds
<1>2. Ours = OursOf(offers.stored)
  BY DEF Ours, OursOf
<1>3. ASSUME NEW u \in Updaters, OfferAt(u, "done"), ~oexec[u].dry, oexec[u].alone
      PROVE  /\ {o.key : o \in Ours} = {oexec[u].catalogue[i] : i \in 1 .. Len(oexec[u].catalogue)}
             /\ \A o \in Ours : o.price = u \/ \E p \in Ours : p.id # o.id /\ p.key = o.key
  <2>1. Synced(u)
    BY <1>3 DEF OfferInv, OfferSound
  <2> QED BY <1>2, <1>3, <2>1 DEF Synced, OfferAt, KeysIn
<1>4. OfferWriters
  BY DEF OfferInv
<1> QED BY <1>1, <1>2, <1>3, <1>4 DEF OffersInSync, OfferWriters

-----------------------------------------------------------------------------
(* The transfer of modules. *)

KindsTo(k) == {Kinds[i] : i \in 1 .. k}
KindOf(path) == topts.tree[path]
Got == {tfiles[f] : f \in DOMAIN tfiles}
Uploaded == ToSet(tserver)

TransferMains ==
  [pc : {"download", "upload", "done", "raised"}, queue : Seq(Paths), kind : 1 .. 3, left : SUBSET Paths]
TransferTypes ==
  /\ topts \in TransferOptions /\ tmain \in TransferMains /\ tserver \in Seq(Paths)
  /\ \A f \in DOMAIN tfiles : tfiles[f] \in Paths /\ FileOf(tfiles[f]) = f
  /\ tfaults \in 0 .. MaxModuleFaults

(* The modules were put in order, and those that are left can be put after them. *)
PutInOrder ==
  /\ \A i \in 1 .. Len(tserver) :
       /\ \A j \in 1 .. i - 1 : tserver[j] # tserver[i]
       /\ \A j \in i + 1 .. Len(tserver) : ~IsPrefix(tserver[j], tserver[i])
       /\ KindOf(tserver[i]) = "deployment" =>
            \A j \in i + 1 .. Len(tserver) : KindOf(tserver[j]) = "deployment"
  /\ \A q \in Uploaded : KindOf(q) \in KindsTo(tmain.kind)
  /\ \A p \in tmain.left :
       KindOf(p) = Kinds[tmain.kind] /\ p \notin Uploaded /\ \A q \in Uploaded : ~IsPrefix(p, q)
  /\ TransferAt("download") => tserver = <<>> /\ tmain.left = {} /\ tmain.kind = 1

(* No module takes the file of another one. *)
OneEach == \A p, q \in Paths : FileOf(p) = FileOf(q) => p = q

(* What is not downloaded is below what is queued, and what is not put is left or of a later kind. *)
NothingLost ==
  OneEach /\ tfaults = 0 =>
    /\ TransferAt("download") =>
         \A p \in Paths : p \in Got \/ \E i \in 1 .. Len(tmain.queue) : IsPrefix(tmain.queue[i], p)
    /\ tmain.pc \in {"upload", "done"} => Paths \subseteq Got
    /\ TransferAt("upload") =>
         \A p \in Paths : KindOf(p) \in KindsTo(tmain.kind) => p \in tmain.left \cup Uploaded
    /\ TransferAt("done") => Paths \subseteq Uploaded

TransferInv == TransferTypes /\ PutInOrder /\ NothingLost

-----------------------------------------------------------------------------
(* Paths, the projects above them and the modules below. *)
LEMMA TreeOf ==
  ASSUME topts \in TransferOptions
  PROVE  /\ IsFiniteSet(Paths) /\ Paths \subseteq Seq(Names)
         /\ TransferRoot \in Paths /\ TransferRoot # << >>
         /\ KindOf(TransferRoot) = "project"
         /\ \A p \in Paths :
              /\ KindOf(p) \in ToSet(Kinds) /\ IsPrefix(TransferRoot, p)
              /\ \A n \in Len(TransferRoot) .. Len(p) - 1 :
                   SubSeq(p, 1, n) \in Paths /\ KindOf(SubSeq(p, 1, n)) = "project"
<1>1. topts.tree \in Trees
  BY DEF TransferOptions
<1> HIDE DEF Names
<1> QED BY <1>1, TreesAssumption DEF Paths, KindOf

LEMMA KindsAre ==
  /\ Len(Kinds) = 3 /\ Kinds[1] = "project" /\ Kinds[2] = "image" /\ Kinds[3] = "deployment"
  /\ ToSet(Kinds) = {"project", "image", "deployment"} /\ KindsTo(3) = ToSet(Kinds)
  /\ KindsTo(1) = {"project"} /\ KindsTo(2) = {"project", "image"}
<1>1. Kinds \in Seq({"project", "image", "deployment"}) /\ Len(Kinds) = 3
  BY DEF Kinds
<1>2. Kinds[1] = "project" /\ Kinds[2] = "image" /\ Kinds[3] = "deployment"
  BY DEF Kinds
<1>3. DOMAIN Kinds = 1 .. 3
  BY <1>1
<1>4. 1 .. 3 = {1, 2, 3} /\ 1 .. 2 = {1, 2} /\ 1 .. 1 = {1}
  OBVIOUS
<1>5. KindsTo(3) = {Kinds[1], Kinds[2], Kinds[3]}
  BY <1>4 DEF KindsTo
<1>6. KindsTo(2) = {Kinds[1], Kinds[2]} /\ KindsTo(1) = {Kinds[1]}
  BY <1>4 DEF KindsTo
<1>7. ToSet(Kinds) = {Kinds[1], Kinds[2], Kinds[3]}
  BY <1>3, <1>4 DEF ToSet
<1> QED BY <1>1, <1>2, <1>5, <1>6, <1>7

LEMMA PrefixMeans ==
  ASSUME NEW S, NEW p \in Seq(S), NEW q \in Seq(S)
  PROVE  /\ IsPrefix(p, q) <=> Len(p) <= Len(q) /\ \A i \in 1 .. Len(p) : p[i] = q[i]
         /\ IsPrefix(p, q) => p = SubSeq(q, 1, Len(p))
<1>1. Len(p) \in Nat /\ Len(q) \in Nat /\ SubSeq(p, 1, Len(p)) = p
  BY SubSeqFull
<1>2. ASSUME Len(p) <= Len(q)
      PROVE  /\ SubSeq(q, 1, Len(p)) \in Seq(S) /\ Len(SubSeq(q, 1, Len(p))) = Len(p)
             /\ \A i \in 1 .. Len(p) : SubSeq(q, 1, Len(p))[i] = q[i]
  <2>1. \A i \in 1 .. Len(p) : q[i] \in S
    BY <1>1, <1>2
  <2>2. /\ SubSeq(q, 1, Len(p)) \in Seq(S)
        /\ Len(SubSeq(q, 1, Len(p))) = IF 1 <= Len(p) THEN Len(p) - 1 + 1 ELSE 0
        /\ \A i \in 1 .. Len(p) - 1 + 1 : SubSeq(q, 1, Len(p))[i] = q[1 + i - 1]
    BY <1>1, <2>1, SubSeqProperties
  <2>3. \A i \in 1 .. Len(p) : SubSeq(q, 1, Len(p))[i] = q[i]
    BY <1>1, <2>2
  <2> QED BY <1>1, <2>2, <2>3
<1>3. ASSUME Len(p) <= Len(q), \A i \in 1 .. Len(p) : p[i] = q[i]
      PROVE  p = SubSeq(q, 1, Len(p))
  BY <1>2, <1>3, SeqEqual
<1> QED BY <1>1, <1>2, <1>3 DEF IsPrefix

(* All but the root are in a project. *)
LEMMA BelowRoot ==
  ASSUME topts \in TransferOptions, NEW p \in Paths
  PROVE  /\ Len(TransferRoot) \in Nat \ {0} /\ Len(p) \in Nat /\ Len(TransferRoot) <= Len(p)
         /\ p # TransferRoot => Len(TransferRoot) < Len(p)
<1>1. p \in Seq(Names) /\ TransferRoot \in Seq(Names) /\ IsPrefix(TransferRoot, p)
  BY TreeOf
<1>2. Len(TransferRoot) \in Nat \ {0} /\ Len(p) \in Nat
  BY <1>1, TreeOf
<1> HIDE DEF Names
<1>3. Len(TransferRoot) <= Len(p) /\ \A i \in 1 .. Len(TransferRoot) : TransferRoot[i] = p[i]
  BY <1>1, PrefixMeans
<1>4. Len(p) = Len(TransferRoot) => p = TransferRoot
  BY <1>1, <1>3, SeqEqual
<1> QED BY <1>2, <1>3, <1>4

LEMMA FrontIs ==
  ASSUME NEW S, NEW p \in Seq(S), p # << >>
  PROVE  /\ Front(p) \in Seq(S) /\ Len(Front(p)) = Len(p) - 1 /\ Front(p) # p
         /\ \A i \in 1 .. Len(p) - 1 : Front(p)[i] = p[i]
         /\ IsPrefix(Front(p), p)
<1>1. Len(p) \in Nat \ {0} /\ \A i \in 1 .. Len(p) : p[i] \in S
  OBVIOUS
<1> DEFINE n == Len(p) - 1
<1>2. n \in Nat /\ n \in Int /\ \A i \in 1 .. n : p[i] \in S
  BY <1>1
<1>3. Front(p) = SubSeq(p, 1, n)
  BY DEF Front
<1> HIDE DEF n
<1>4. /\ Front(p) \in Seq(S)
      /\ Len(Front(p)) = IF 1 <= n THEN n - 1 + 1 ELSE 0
      /\ \A i \in 1 .. n - 1 + 1 : Front(p)[i] = p[1 + i - 1]
  BY <1>2, <1>3, SubSeqProperties
<1>5. Len(Front(p)) = n /\ \A i \in 1 .. n : Front(p)[i] = p[i]
  BY <1>2, <1>4
<1>6. n = Len(p) - 1 /\ n # Len(p)
  BY <1>1 DEF n
<1>7. IsPrefix(Front(p), p)
  BY <1>1, <1>4, <1>5, <1>6, PrefixMeans
<1> QED BY <1>4, <1>5, <1>6, <1>7

LEMMA ParentOf ==
  ASSUME topts \in TransferOptions, NEW p \in Paths, p # TransferRoot
  PROVE  /\ Front(p) \in Paths /\ KindOf(Front(p)) = "project"
         /\ IsPrefix(Front(p), p) /\ Front(p) # p
<1>1. /\ Len(TransferRoot) \in Nat \ {0} /\ Len(p) \in Nat /\ Len(TransferRoot) < Len(p)
      /\ p \in Seq(Names)
  BY BelowRoot, TreeOf
<1>2. Len(p) - 1 \in Len(TransferRoot) .. Len(p) - 1
  BY <1>1
<1>3. Front(p) \in Paths /\ KindOf(Front(p)) = "project"
  BY <1>2, TreeOf DEF Front
<1>4. p # << >>
  BY <1>1
<1> HIDE DEF Names
<1>5. IsPrefix(Front(p), p) /\ Front(p) # p
  BY <1>1, <1>4, FrontIs
<1> QED BY <1>3, <1>5

(* A module with others below it is a project. *)
LEMMA Longer ==
  ASSUME topts \in TransferOptions, NEW p \in Paths, NEW q \in Paths, IsPrefix(p, q), p # q
  PROVE  /\ p \in Seq(Names) /\ q \in Seq(Names) /\ p = SubSeq(q, 1, Len(p))
         /\ Len(p) \in Nat /\ Len(q) \in Nat /\ Len(p) < Len(q) /\ Len(TransferRoot) \in Nat
         /\ Len(TransferRoot) <= Len(p) /\ \A i \in 1 .. Len(p) : p[i] = q[i]
<1>1. /\ p \in Seq(Names) /\ q \in Seq(Names) /\ Len(TransferRoot) \in Nat
      /\ Len(TransferRoot) <= Len(p) /\ Len(p) \in Nat /\ Len(q) \in Nat
  BY TreeOf, BelowRoot
<1> HIDE DEF Names
<1>2. /\ p = SubSeq(q, 1, Len(p)) /\ Len(p) <= Len(q)
      /\ \A i \in 1 .. Len(p) : p[i] = q[i]
  BY <1>1, PrefixMeans
<1>3. Len(p) # Len(q)
  BY <1>1, <1>2, SeqEqual
<1> QED BY <1>1, <1>2, <1>3

LEMMA AncestorsAreProjects ==
  ASSUME topts \in TransferOptions, NEW p \in Paths, NEW q \in Paths, IsPrefix(p, q), p # q
  PROVE  KindOf(p) = "project"
<1>1. /\ p = SubSeq(q, 1, Len(p)) /\ Len(p) \in Nat /\ Len(q) \in Nat /\ Len(p) < Len(q)
      /\ Len(TransferRoot) \in Nat /\ Len(TransferRoot) <= Len(p)
  BY Longer
<1>2. Len(p) \in Len(TransferRoot) .. Len(q) - 1
  BY <1>1
<1> QED BY <1>1, <1>2, TreeOf

LEMMA ChildBelow ==
  ASSUME topts \in TransferOptions, NEW p \in Paths, NEW q \in Paths, IsPrefix(p, q), p # q
  PROVE  \E c \in Children(p) : IsPrefix(c, q)
<1> DEFINE n == Len(p) + 1
           c == SubSeq(q, 1, n)
<1>1. /\ p \in Seq(Names) /\ q \in Seq(Names)
      /\ Len(p) \in Nat /\ Len(q) \in Nat /\ Len(p) < Len(q) /\ Len(TransferRoot) \in Nat
      /\ Len(TransferRoot) <= Len(p) /\ \A i \in 1 .. Len(p) : p[i] = q[i]
  BY Longer
<1>2. n \in Nat /\ n \in Int /\ n <= Len(q) /\ 1 <= n /\ n - 1 = Len(p)
  BY <1>1
<1>3. c \in Paths
  <2>1. CASE n = Len(q)
    <3> HIDE DEF Names
    <3>1. SubSeq(q, 1, Len(q)) = q
      BY <1>1, SubSeqFull
    <3> QED BY <2>1, <3>1
  <2>2. CASE n # Len(q)
    <3>1. n \in Len(TransferRoot) .. Len(q) - 1
      BY <1>1, <1>2, <2>2
    <3> HIDE DEF n
    <3> QED BY <3>1, TreeOf
  <2> QED BY <2>1, <2>2
<1> HIDE DEF Names, n
<1>4. \A i \in 1 .. n : q[i] \in Names
  BY <1>1, <1>2
<1>5. /\ c \in Seq(Names) /\ Len(c) = IF 1 <= n THEN n - 1 + 1 ELSE 0
      /\ \A i \in 1 .. n - 1 + 1 : c[i] = q[1 + i - 1]
  BY <1>2, <1>4, SubSeqProperties
<1> HIDE DEF c
<1>6. Len(c) = n /\ c # << >> /\ \A i \in 1 .. n : c[i] = q[i]
  BY <1>2, <1>5
<1>7. IsPrefix(c, q)
  BY <1>1, <1>2, <1>5, <1>6, PrefixMeans
<1>8. Front(c) = p
  <2>1. /\ Front(c) \in Seq(Names) /\ Len(Front(c)) = Len(c) - 1
        /\ \A i \in 1 .. Len(c) - 1 : Front(c)[i] = c[i]
    BY <1>5, <1>6, FrontIs
  <2>2. Len(Front(c)) = Len(p)
    BY <1>2, <1>6, <2>1
  <2>3. \A i \in 1 .. Len(p) : Front(c)[i] = p[i]
    BY <1>1, <1>2, <1>6, <2>1
  <2> QED BY <1>1, <2>1, <2>2, <2>3, SeqEqual
<1>9. c \in Children(p)
  BY <1>2, <1>3, <1>6, <1>8 DEF Children, n
<1> QED BY <1>7, <1>9

(* Modules that are written to one file. *)
LEMMA Clashes ==
  ASSUME topts \in TransferOptions, ~OneEach
  PROVE  \E p, q \in Paths : SameFile(p, q) /\ (topts.flat \/ NamedLikeItsProject(p))
<1>1. PICK p \in Paths, q \in Paths : FileOf(p) = FileOf(q) /\ p # q
  BY DEF OneEach
<1>2. CASE topts.flat
  BY <1>1, <1>2 DEF SameFile
<1>3. ASSUME ~topts.flat, NEW a \in Paths, NEW b \in Paths, FileOf(a) = FileOf(b), a # b,
             KindOf(a) # "project", KindOf(b) = "project"
      PROVE  SameFile(a, b) /\ NamedLikeItsProject(a)
  <2>1. a = Append(b, Last(b))
    BY <1>3 DEF FileOf, KindOf
  <2>2. a \in Seq(Names) /\ b \in Seq(Names) /\ Len(b) \in Nat \ {0}
    <3>1. Len(b) \in Nat /\ Len(TransferRoot) \in Nat \ {0} /\ Len(TransferRoot) <= Len(b)
      BY BelowRoot
    <3>2. a \in Seq(Names) /\ b \in Seq(Names)
      BY TreeOf
    <3> HIDE DEF Names
    <3> QED BY <3>1, <3>2
  <2> HIDE DEF Names
  <2>3. Last(b) \in Names
    BY <2>2 DEF Last
  <2>4. /\ Len(a) = Len(b) + 1 /\ a[Len(b) + 1] = Last(b) /\ a # << >>
        /\ \A i \in 1 .. Len(b) : a[i] = b[i]
    BY <2>1, <2>2, <2>3, AppendProperties
  <2>5. /\ Front(a) \in Seq(Names) /\ Len(Front(a)) = Len(a) - 1
        /\ \A i \in 1 .. Len(a) - 1 : Front(a)[i] = a[i]
    BY <2>2, <2>4, FrontIs
  <2>6. Len(Front(a)) = Len(b) /\ \A i \in 1 .. Len(b) : Front(a)[i] = b[i]
    BY <2>2, <2>4, <2>5
  <2>7. Front(a) = b
    BY <2>2, <2>5, <2>6, SeqEqual
  <2>8. Last(a) = Last(b) /\ Len(a) > 1
    BY <2>2, <2>4 DEF Last
  <2> QED BY <1>3, <2>7, <2>8 DEF SameFile, NamedLikeItsProject, KindOf
<1>4. CASE ~topts.flat /\ KindOf(p) # "project" /\ KindOf(q) # "project"
  BY <1>1, <1>4 DEF FileOf, KindOf
<1>5. CASE ~topts.flat /\ KindOf(p) = "project" /\ KindOf(q) = "project"
  <2>1. Append(p, Last(p)) = Append(q, Last(q))
    BY <1>1, <1>5 DEF FileOf, KindOf
  <2>2. /\ p \in Seq(Names) /\ q \in Seq(Names) /\ Len(p) \in Nat \ {0} /\ Len(q) \in Nat \ {0}
    <3>1. /\ Len(p) \in Nat /\ Len(q) \in Nat /\ Len(TransferRoot) \in Nat \ {0}
          /\ Len(TransferRoot) <= Len(p) /\ Len(TransferRoot) <= Len(q)
      BY BelowRoot
    <3>2. p \in Seq(Names) /\ q \in Seq(Names)
      BY TreeOf
    <3> HIDE DEF Names
    <3> QED BY <3>1, <3>2
  <2> HIDE DEF Names
  <2>3. Last(p) \in Names /\ Last(q) \in Names
    BY <2>2 DEF Last
  <2>4. p = q
    BY <2>1, <2>2, <2>3, AppendInjective
  <2> QED BY <1>1, <2>4
<1> QED BY <1>1, <1>2, <1>3, <1>4, <1>5

LEMMA OrdersAre ==
  ASSUME NEW U, NEW S \in SUBSET U, IsFiniteSet(U), NEW order \in Orders(S)
  PROVE  order \in Seq(U) /\ \A x \in S : \E i \in 1 .. Len(order) : order[i] = x
<1>1. Cardinality(S) \in Nat
  BY FS_Subset, FS_CardinalityType
<1>2. order \in [1 .. Cardinality(S) -> S] /\ ToSet(order) = S
  BY DEF Orders
<1>3. order \in Seq(S)
  BY <1>1, <1>2, SeqDef
<1>4. order \in Seq(U)
  BY <1>3, SeqMonotonic
<1>5. DOMAIN order = 1 .. Len(order)
  BY <1>3, LenProperties
<1> QED BY <1>2, <1>4, <1>5 DEF ToSet

(* The files keep the modules that are written to others. *)
LEMMA WriteKeeps ==
  ASSUME TransferTypes, NEW path \in Paths, tfiles' = Write(FileOf(path), path), topts' = topts
  PROVE  /\ \A f \in DOMAIN tfiles' :
              tfiles'[f] \in Paths /\ FileOf(tfiles'[f]) = f
         /\ path \in Got' /\ (OneEach => Got \subseteq Got')
<1> DEFINE file == FileOf(path)
<1>1. /\ DOMAIN tfiles' = DOMAIN tfiles \cup {file}
      /\ \A f \in DOMAIN tfiles' : tfiles'[f] = IF f = file THEN path ELSE tfiles[f]
  BY DEF Write
<1>2. \A f \in DOMAIN tfiles : tfiles[f] \in Paths /\ FileOf(tfiles[f]) = f
  BY DEF TransferTypes
<1>3. \A f \in DOMAIN tfiles' : tfiles'[f] \in Paths /\ FileOf(tfiles'[f]) = f
  BY <1>1, <1>2
<1>4. path \in Got'
  BY <1>1 DEF Got
<1>5. ASSUME OneEach, NEW p \in Got PROVE p \in Got'
  <2>1. PICK f \in DOMAIN tfiles : p = tfiles[f]
    BY DEF Got
  <2>2. tfiles'[f] = p
    <3>1. CASE f = file
      BY <1>1, <1>2, <1>5, <2>1, <3>1 DEF OneEach
    <3>2. CASE f # file
      BY <1>1, <2>1, <3>2
    <3> QED BY <3>1, <3>2
  <2>3. f \in DOMAIN tfiles'
    BY <1>1
  <2> QED BY <2>2, <2>3 DEF Got
<1> QED BY <1>3, <1>4, <1>5

(* The tree and the options stay. *)
LEMMA TreeStays ==
  ASSUME topts' = topts
  PROVE  /\ Paths' = Paths /\ OneEach' = OneEach
         /\ \A p : FileOf(p)' = FileOf(p) /\ KindOf(p)' = KindOf(p)
BY DEF Paths, OneEach, FileOf, KindOf

-----------------------------------------------------------------------------
LEMMA TransferStarts == TransferInit => TransferInv
<1> SUFFICES ASSUME TransferInit PROVE TransferInv
  OBVIOUS
<1>1. /\ topts \in TransferOptions /\ tfiles = <<>> /\ tserver = <<>> /\ tfaults = 0
      /\ tmain = [pc |-> "download", queue |-> <<TransferRoot>>, kind |-> 1, left |-> {}]
  BY DEF TransferInit, TransferIdle
<1>2. TransferRoot \in Paths /\ \A p \in Paths : IsPrefix(TransferRoot, p)
  BY <1>1, TreeOf
<1>3. DOMAIN tfiles = {}
  BY <1>1
<1>4. TransferTypes
  BY <1>1, <1>2, <1>3, TransferAssumption DEF TransferTypes, TransferMains
<1>5. Uploaded = {}
  BY <1>1 DEF Uploaded, ToSet
<1>6. PutInOrder
  BY <1>1, <1>5 DEF PutInOrder, TransferAt
<1>7. NothingLost
  <2>1. tmain.queue[1] = TransferRoot /\ 1 \in 1 .. Len(tmain.queue)
    BY <1>1
  <2> QED BY <1>1, <1>2, <2>1 DEF NothingLost, TransferAt
<1> QED BY <1>4, <1>6, <1>7 DEF TransferInv

(* What a download leaves out is below what is still queued. *)
LEMMA DownloadKeeps ==
  ASSUME TransferInv, TransferDownload PROVE TransferInv'
<1> DEFINE path == Head(tmain.queue)
<1>1. PICK order \in Orders(Children(path)) : tmain' = [tmain EXCEPT !.queue = Tail(@) \o order]
  BY DEF TransferDownload
<1>2. /\ tmain.pc = "download" /\ tmain.queue # <<>> /\ tfiles' = Write(FileOf(path), path)
      /\ topts' = topts /\ tserver' = tserver /\ tfaults' = tfaults
  BY DEF TransferDownload, TransferAt
<1>3. /\ topts \in TransferOptions /\ tmain \in TransferMains /\ tserver \in Seq(Paths)
      /\ tfaults \in 0 .. MaxModuleFaults
  BY DEF TransferInv, TransferTypes
<1>4. /\ Paths' = Paths /\ OneEach' = OneEach
      /\ \A p : FileOf(p)' = FileOf(p) /\ KindOf(p)' = KindOf(p)
  BY <1>2, TreeStays
<1>5. tmain.queue \in Seq(Paths) /\ path \in Paths /\ Tail(tmain.queue) \in Seq(Paths)
  BY <1>2, <1>3 DEF TransferMains
<1>6. /\ order \in Seq(Paths)
      /\ \A c \in Children(path) : \E i \in 1 .. Len(order) : order[i] = c
  <2>1. Children(path) \in SUBSET Paths /\ IsFiniteSet(Paths)
    BY <1>3, TreeOf DEF Children
  <2> QED BY <2>1, OrdersAre
<1> DEFINE queue == Tail(tmain.queue) \o order
<1>7. /\ queue \in Seq(Paths) /\ Len(queue) = Len(Tail(tmain.queue)) + Len(order)
      /\ \A i \in 1 .. Len(Tail(tmain.queue)) + Len(order) :
           queue[i] = IF i <= Len(Tail(tmain.queue)) THEN Tail(tmain.queue)[i]
                      ELSE order[i - Len(Tail(tmain.queue))]
  BY <1>5, <1>6, ConcatProperties
<1>8. Len(order) \in Nat /\ Len(tmain.queue) \in Nat \ {0}
      /\ Len(Tail(tmain.queue)) = Len(tmain.queue) - 1
      /\ \A i \in 1 .. Len(tmain.queue) - 1 : Tail(tmain.queue)[i] = tmain.queue[i + 1]
      /\ path = tmain.queue[1]
  BY <1>2, <1>5, <1>6
<1>9. tmain' \in TransferMains /\ tmain'.queue = queue /\ tmain'.pc = "download"
      /\ tmain'.left = tmain.left /\ tmain'.kind = tmain.kind
  BY <1>1, <1>2, <1>3, <1>7 DEF TransferMains
<1>10. /\ \A f \in DOMAIN tfiles' : tfiles'[f] \in Paths /\ FileOf(tfiles'[f]) = f
       /\ path \in Got' /\ (OneEach => Got \subseteq Got')
  BY <1>2, <1>5, WriteKeeps DEF TransferInv
<1>11. TransferTypes'
  <2>1. topts' \in TransferOptions
    BY <1>2, <1>3
  <2>2. (tmain \in TransferMains)'
    BY <1>4, <1>9 DEF TransferMains
  <2> QED BY <1>2, <1>3, <1>4, <1>10, <2>1, <2>2 DEF TransferTypes
<1>12. PutInOrder'
  BY <1>2, <1>4, <1>9 DEF TransferInv, PutInOrder, TransferAt, Uploaded, KindsTo, KindOf
<1>13. ASSUME OneEach, tfaults = 0, NEW p \in Paths
       PROVE  p \in Got' \/ \E i \in 1 .. Len(queue) : IsPrefix(queue[i], p)
  <2>1. p \in Got \/ \E i \in 1 .. Len(tmain.queue) : IsPrefix(tmain.queue[i], p)
    BY <1>2, <1>13 DEF TransferInv, NothingLost, TransferAt
  <2>2. CASE p \in Got
    BY <1>10, <1>13, <2>2
  <2>3. ASSUME NEW i \in 1 .. Len(tmain.queue), IsPrefix(tmain.queue[i], p), i # 1
        PROVE  \E j \in 1 .. Len(queue) : IsPrefix(queue[j], p)
    <3> HIDE DEF queue
    <3>1. i - 1 \in 1 .. Len(Tail(tmain.queue)) /\ Tail(tmain.queue)[i - 1] = tmain.queue[i]
      BY <1>8, <2>3
    <3>2. i - 1 \in 1 .. Len(Tail(tmain.queue)) + Len(order) /\ i - 1 <= Len(Tail(tmain.queue))
      BY <1>8, <3>1
    <3>3. queue[i - 1] = tmain.queue[i]
      BY <1>7, <3>1, <3>2
    <3> QED BY <1>7, <2>3, <3>2, <3>3
  <2>4. CASE IsPrefix(path, p) /\ p = path
    BY <1>10, <2>4
  <2>5. ASSUME IsPrefix(path, p), p # path
        PROVE  \E j \in 1 .. Len(queue) : IsPrefix(queue[j], p)
    <3> HIDE DEF queue, path
    <3>1. PICK c \in Children(path) : IsPrefix(c, p)
      BY <1>3, <1>5, <2>5, ChildBelow
    <3>2. PICK i \in 1 .. Len(order) : order[i] = c
      BY <1>6
    <3> DEFINE n == Len(Tail(tmain.queue))
               j == n + i
    <3>3. n \in Nat /\ Len(order) \in Nat /\ i \in 1 .. Len(order)
      BY <1>8
    <3>4. /\ j \in 1 .. n + Len(order) /\ ~(j <= n) /\ j - n = i
      BY <3>3
    <3>5. /\ Len(queue) = n + Len(order)
          /\ \A k \in 1 .. n + Len(order) :
               queue[k] = IF k <= n THEN Tail(tmain.queue)[k] ELSE order[k - n]
      BY <1>7
    <3> HIDE DEF n, j
    <3>6. queue[j] = order[i]
      BY <3>4, <3>5
    <3>7. IsPrefix(queue[j], p) /\ j \in 1 .. Len(queue)
      BY <3>1, <3>2, <3>4, <3>5, <3>6
    <3> QED BY <3>7
  <2>6. ASSUME NEW i \in 1 .. Len(tmain.queue), IsPrefix(tmain.queue[i], p), i = 1
        PROVE  IsPrefix(path, p)
    BY <1>8, <2>6
  <2> HIDE DEF queue, path
  <2> QED BY <2>1, <2>2, <2>3, <2>4, <2>5, <2>6
<1>14. NothingLost'
  BY <1>2, <1>4, <1>9, <1>13 DEF NothingLost, TransferAt
<1> QED BY <1>11, <1>12, <1>14 DEF TransferInv

(* A request that fails. *)
LEMMA DownloadFailsKeeps ==
  ASSUME TransferInv, TransferDownloadFails PROVE TransferInv'
<1>1. /\ tmain.pc = "download" /\ tmain.queue # <<>> /\ tfaults < MaxModuleFaults
      /\ tfaults' = tfaults + 1 /\ topts' = topts /\ tserver' = tserver /\ tfiles' = tfiles
      /\ tmain' = IF topts.continue THEN [tmain EXCEPT !.queue = Tail(@)]
                  ELSE [tmain EXCEPT !.pc = "raised"]
  BY DEF TransferDownloadFails, TransferAt, TransferFault
<1>2. /\ topts \in TransferOptions /\ tmain \in TransferMains /\ tserver \in Seq(Paths)
      /\ tfaults \in 0 .. MaxModuleFaults /\ MaxModuleFaults \in Nat
      /\ \A f \in DOMAIN tfiles : tfiles[f] \in Paths /\ FileOf(tfiles[f]) = f
  BY TransferAssumption DEF TransferInv, TransferTypes
<1>3. /\ Paths' = Paths /\ OneEach' = OneEach
      /\ \A p : FileOf(p)' = FileOf(p) /\ KindOf(p)' = KindOf(p)
  BY <1>1, TreeStays
<1>4. Tail(tmain.queue) \in Seq(Paths)
  BY <1>1, <1>2 DEF TransferMains
<1>5. tmain' \in TransferMains /\ tmain'.pc \in {"download", "raised"}
      /\ tmain'.left = tmain.left /\ tmain'.kind = tmain.kind
  BY <1>1, <1>2, <1>4 DEF TransferMains
<1>6. TransferTypes'
  <2>1. (tmain \in TransferMains)'
    BY <1>3, <1>5 DEF TransferMains
  <2> QED BY <1>1, <1>2, <1>3, <2>1 DEF TransferTypes
<1>7. PutInOrder'
  BY <1>1, <1>3, <1>5 DEF TransferInv, PutInOrder, TransferAt, Uploaded, KindsTo, KindOf
<1>8. tfaults' # 0
  BY <1>1, <1>2
<1> QED BY <1>6, <1>7, <1>8 DEF TransferInv, NothingLost

(* What an upload has before it. *)
LEMMA UploadHas ==
  ASSUME TransferInv, UNCHANGED <<topts, tfiles>>
  PROVE  /\ topts \in TransferOptions /\ tmain \in TransferMains /\ tserver \in Seq(Paths)
         /\ tfaults \in 0 .. MaxModuleFaults /\ MaxModuleFaults \in Nat
         /\ \A f \in DOMAIN tfiles : tfiles[f] \in Paths /\ FileOf(tfiles[f]) = f
         /\ Paths' = Paths /\ OneEach' = OneEach /\ Got' = Got
         /\ \A p : FileOf(p)' = FileOf(p) /\ KindOf(p)' = KindOf(p)
         /\ Uploaded = {tserver[i] : i \in 1 .. Len(tserver)} /\ Len(tserver) \in Nat
<1>1. /\ topts \in TransferOptions /\ tmain \in TransferMains /\ tserver \in Seq(Paths)
      /\ tfaults \in 0 .. MaxModuleFaults /\ MaxModuleFaults \in Nat
      /\ \A f \in DOMAIN tfiles : tfiles[f] \in Paths /\ FileOf(tfiles[f]) = f
  BY TransferAssumption DEF TransferInv, TransferTypes
<1>2. /\ Paths' = Paths /\ OneEach' = OneEach
      /\ \A p : FileOf(p)' = FileOf(p) /\ KindOf(p)' = KindOf(p)
  BY TreeStays
<1>3. DOMAIN tserver = 1 .. Len(tserver) /\ Len(tserver) \in Nat
  BY <1>1
<1>4. Uploaded = {tserver[i] : i \in 1 .. Len(tserver)}
  BY <1>3 DEF Uploaded, ToSet
<1>5. Got' = Got
  BY DEF Got
<1> QED BY <1>1, <1>2, <1>3, <1>4, <1>5

LEMMA WrittenIs ==
  ASSUME NEW k \in 1 .. 3
  PROVE  Written(k) = {p \in Got : KindOf(p) = Kinds[k]}
BY DEF Written, Got, KindOf

(* The first kind: the projects. *)
LEMMA ToUploadKeeps ==
  ASSUME TransferInv, TransferToUpload PROVE TransferInv'
<1>1. /\ tmain.pc = "download" /\ tmain.queue = <<>>
      /\ UNCHANGED <<topts, tfiles, tserver, tfaults>>
      /\ tmain' = IF tfiles = <<>> THEN [tmain EXCEPT !.pc = "raised"]
                  ELSE [tmain EXCEPT !.pc = "upload", !.left = Written(1)]
  BY DEF TransferToUpload, TransferAt
<1>2. /\ topts \in TransferOptions /\ tmain \in TransferMains /\ tserver \in Seq(Paths)
      /\ tfaults \in 0 .. MaxModuleFaults
      /\ \A f \in DOMAIN tfiles : tfiles[f] \in Paths /\ FileOf(tfiles[f]) = f
      /\ Paths' = Paths /\ OneEach' = OneEach /\ Got' = Got
      /\ \A p : FileOf(p)' = FileOf(p) /\ KindOf(p)' = KindOf(p)
  BY <1>1, UploadHas
<1>3. /\ tserver = <<>> /\ tmain.left = {} /\ tmain.kind \in 1 .. 3
      /\ \A q \in Uploaded : KindOf(q) \in KindsTo(tmain.kind)
  BY <1>1, <1>2 DEF TransferInv, PutInOrder, TransferAt, TransferMains
<1>4. Uploaded = {} /\ Uploaded' = {}
  BY <1>1, <1>3 DEF Uploaded, ToSet
<1>5. Written(1) = {p \in Got : KindOf(p) = Kinds[1]} /\ Got \subseteq Paths
  BY <1>2, WrittenIs DEF Got
<1>6. /\ tmain' \in TransferMains /\ tmain'.kind = tmain.kind
      /\ \/ tmain'.pc = "raised" /\ tmain'.left = {}
         \/ tmain'.pc = "upload" /\ tmain'.left = Written(1)
  BY <1>1, <1>2, <1>3, <1>5 DEF TransferMains
<1>7. tmain.kind = 1
  BY <1>1 DEF TransferInv, PutInOrder, TransferAt
<1>8. TransferTypes'
  <2>1. (tmain \in TransferMains)'
    BY <1>2, <1>6 DEF TransferMains
  <2> QED BY <1>1, <1>2, <2>1 DEF TransferTypes
<1>9. PutInOrder'
  BY <1>1, <1>2, <1>3, <1>4, <1>5, <1>6, <1>7 DEF PutInOrder, TransferAt
<1>10. NothingLost'
  <2> SUFFICES ASSUME OneEach, tfaults = 0, tmain'.pc = "upload"
               PROVE  /\ Paths \subseteq Got
                      /\ \A p \in Paths : KindOf(p) \in KindsTo(1) => p \in Written(1)
    BY <1>1, <1>2, <1>4, <1>6, <1>7 DEF NothingLost, TransferAt, KindsTo
  <2>1. Len(tmain.queue) = 0
    BY <1>1
  <2>2. Paths \subseteq Got
    BY <1>1, <2>1 DEF TransferInv, NothingLost, TransferAt
  <2> QED BY <1>5, <2>2, KindsAre
<1> QED BY <1>8, <1>9, <1>10 DEF TransferInv

(* A module that is next to be put has its project on the server, if nothing was lost. *)
LEMMA HasItsParent ==
  ASSUME TransferInv, TransferAt("upload"), OneEach, tfaults = 0,
         NEW path \in tmain.left, NextToPut(path)
  PROVE  HasParent(path)
<1>1. /\ topts \in TransferOptions /\ path \in Paths /\ tmain.kind \in 1 .. 3
  BY DEF TransferInv, TransferTypes, TransferMains
<1>2. CASE path = TransferRoot
  BY <1>2 DEF HasParent
<1>3. CASE path # TransferRoot
  <2>1. /\ Front(path) \in Paths /\ KindOf(Front(path)) = "project"
        /\ IsPrefix(Front(path), path) /\ Front(path) # path
    BY <1>1, <1>3, ParentOf
  <2>2. Front(path) \notin tmain.left
    BY <2>1 DEF NextToPut
  <2>3. KindOf(Front(path)) \in KindsTo(tmain.kind)
    <3>1. 1 \in 1 .. tmain.kind /\ Kinds[1] = "project"
      BY <1>1, KindsAre
    <3> QED BY <2>1, <3>1 DEF KindsTo
  <2>4. Front(path) \in Uploaded
    BY <2>1, <2>2, <2>3 DEF TransferInv, NothingLost
  <2> QED BY <2>4 DEF HasParent, Uploaded
<1> QED BY <1>2, <1>3

(* A module is put after those that were put, none of which is below it. *)
LEMMA PutKeeps ==
  ASSUME TransferInv, TransferPut PROVE TransferInv'
<1>1. PICK path \in tmain.left :
        /\ NextToPut(path) /\ tserver' = Append(tserver, path)
        /\ tmain' = [tmain EXCEPT !.left = @ \ {path}]
  BY DEF TransferPut
<1>2. tmain.pc = "upload" /\ UNCHANGED <<topts, tfiles, tfaults>>
  BY DEF TransferPut, TransferAt
<1>3. /\ topts \in TransferOptions /\ tmain \in TransferMains /\ tserver \in Seq(Paths)
      /\ tfaults \in 0 .. MaxModuleFaults
      /\ \A f \in DOMAIN tfiles : tfiles[f] \in Paths /\ FileOf(tfiles[f]) = f
      /\ Paths' = Paths /\ OneEach' = OneEach /\ Got' = Got
      /\ \A p : FileOf(p)' = FileOf(p) /\ KindOf(p)' = KindOf(p)
      /\ Uploaded = {tserver[i] : i \in 1 .. Len(tserver)} /\ Len(tserver) \in Nat
  BY <1>2, UploadHas
<1>4. path \in Paths /\ tmain.kind \in 1 .. 3 /\ tmain.left \subseteq Paths
  BY <1>3 DEF TransferMains
<1> DEFINE n == Len(tserver)
<1>5. /\ tserver' \in Seq(Paths) /\ Len(tserver') = n + 1 /\ tserver'[n + 1] = path
      /\ \A i \in 1 .. n : tserver'[i] = tserver[i]
  BY <1>1, <1>3, <1>4, AppendProperties
<1>6. Uploaded' = Uploaded \cup {path}
  <2>1. DOMAIN tserver' = 1 .. n + 1
    BY <1>5
  <2>2. Uploaded' = {tserver'[i] : i \in 1 .. n + 1}
    BY <2>1 DEF Uploaded, ToSet
  <2>3. ASSUME NEW x \in Uploaded' PROVE x \in Uploaded \cup {path}
    <3>1. PICK i \in 1 .. n + 1 : x = tserver'[i]
      BY <2>2
    <3>2. CASE i = n + 1
      BY <1>5, <3>1, <3>2
    <3>3. CASE i # n + 1
      <4>1. i \in 1 .. n
        BY <1>3, <3>1, <3>3
      <4> QED BY <1>3, <1>5, <3>1, <4>1
    <3> QED BY <3>2, <3>3
  <2>4. ASSUME NEW x \in Uploaded PROVE x \in Uploaded'
    <3>1. PICK i \in 1 .. n : x = tserver[i]
      BY <1>3
    <3>2. i \in 1 .. n + 1 /\ tserver'[i] = x
      BY <1>3, <1>5, <3>1
    <3> QED BY <2>2, <3>2
  <2>5. path \in Uploaded'
    <3>1. n + 1 \in 1 .. n + 1
      BY <1>3
    <3> QED BY <1>5, <2>2, <3>1
  <2> QED BY <2>3, <2>4, <2>5
<1>7. /\ tmain' \in TransferMains /\ tmain'.pc = "upload" /\ tmain'.kind = tmain.kind
      /\ tmain'.left = tmain.left \ {path}
  BY <1>1, <1>2, <1>3 DEF TransferMains
<1>8. TransferTypes'
  <2>1. (tmain \in TransferMains)'
    BY <1>3, <1>7 DEF TransferMains
  <2> QED BY <1>2, <1>3, <1>5, <2>1 DEF TransferTypes
<1>9. PutInOrder
  BY DEF TransferInv
<1>10. /\ KindOf(path) = Kinds[tmain.kind] /\ path \notin Uploaded
       /\ \A q \in Uploaded : ~IsPrefix(path, q)
       /\ \A p \in tmain.left \ {path} : ~IsPrefix(p, path)
  BY <1>1, <1>9 DEF PutInOrder, NextToPut
<1>11. \A i \in 1 .. n : tserver[i] \in Uploaded /\ KindOf(tserver[i]) \in KindsTo(tmain.kind)
  BY <1>3, <1>9 DEF PutInOrder
<1>12. PutInOrder'
  <2>1. ASSUME NEW i \in 1 .. n + 1
        PROVE  /\ \A j \in 1 .. i - 1 : tserver'[j] # tserver'[i]
               /\ \A j \in i + 1 .. n + 1 : ~IsPrefix(tserver'[j], tserver'[i])
               /\ KindOf(tserver'[i]) = "deployment" =>
                    \A j \in i + 1 .. n + 1 : KindOf(tserver'[j]) = "deployment"
    <3>1. CASE i = n + 1
      <4>1. \A j \in 1 .. n : tserver'[j] # path
        BY <1>5, <1>10, <1>11
      <4> QED BY <1>3, <1>5, <3>1, <4>1
    <3>2. CASE i # n + 1
      <4>1. i \in 1 .. n /\ tserver'[i] = tserver[i]
        BY <1>3, <1>5, <3>2
      <4>2. \A j \in 1 .. i - 1 : tserver'[j] = tserver[j]
        BY <1>3, <1>5, <4>1
      <4>3. \A j \in 1 .. i - 1 : tserver'[j] # tserver'[i]
        BY <1>9, <4>1, <4>2 DEF PutInOrder
      <4>4. ASSUME NEW j \in i + 1 .. n + 1
            PROVE  \/ j = n + 1 /\ tserver'[j] = path
                   \/ j \in i + 1 .. n /\ tserver'[j] = tserver[j]
        BY <1>3, <1>5, <4>1
      <4>5. \A j \in i + 1 .. n + 1 : ~IsPrefix(tserver'[j], tserver'[i])
        BY <1>9, <1>10, <1>11, <4>1, <4>4 DEF PutInOrder
      <4>6. ASSUME KindOf(tserver[i]) = "deployment" PROVE KindOf(path) = "deployment"
        <5>1. "deployment" \in KindsTo(tmain.kind)
          BY <1>11, <4>1, <4>6
        <5>2. tmain.kind = 3
          BY <1>4, <5>1, KindsAre
        <5> QED BY <1>10, <5>2, KindsAre
      <4>7. ASSUME KindOf(tserver[i]) = "deployment", NEW j \in i + 1 .. n
            PROVE  KindOf(tserver[j]) = "deployment"
        BY <1>9, <4>1, <4>7 DEF PutInOrder
      <4>8. KindOf(tserver'[i]) = "deployment" =>
              \A j \in i + 1 .. n + 1 : KindOf(tserver'[j]) = "deployment"
        BY <4>1, <4>4, <4>6, <4>7
      <4> QED BY <4>3, <4>5, <4>8
    <3> QED BY <3>1, <3>2
  <2>2. \A q \in Uploaded' : KindOf(q) \in KindsTo(tmain.kind)
    <3>1. KindOf(path) \in KindsTo(tmain.kind)
      BY <1>4, <1>10 DEF KindsTo
    <3> QED BY <1>6, <1>9, <3>1 DEF PutInOrder
  <2>3. ASSUME NEW p \in tmain.left \ {path}
        PROVE  /\ KindOf(p) = Kinds[tmain.kind] /\ p \notin Uploaded'
               /\ \A q \in Uploaded' : ~IsPrefix(p, q)
    BY <1>6, <1>9, <1>10 DEF PutInOrder
  <2>4. (\A q \in Uploaded : KindOf(q) \in KindsTo(tmain.kind))'
    BY <1>3, <1>7, <2>2 DEF KindsTo
  <2> HIDE DEF n
  <2> QED BY <1>3, <1>5, <1>7, <2>1, <2>3, <2>4 DEF PutInOrder, TransferAt, n
<1>13. NothingLost'
  BY <1>2, <1>3, <1>6, <1>7 DEF TransferInv, NothingLost, TransferAt, KindsTo
<1> QED BY <1>8, <1>12, <1>13 DEF TransferInv

(* What cannot be put is left out, or ends the upload. *)
LEMMA PutFailsKeeps ==
  ASSUME TransferInv, TransferPutFails PROVE TransferInv'
<1>1. PICK path \in tmain.left :
        /\ NextToPut(path)
        /\ (HasParent(path) /\ TransferFault) \/ (~HasParent(path) /\ UNCHANGED tfaults)
        /\ tmain' = IF topts.force THEN [tmain EXCEPT !.left = @ \ {path}]
                    ELSE [tmain EXCEPT !.pc = "raised"]
  BY DEF TransferPutFails
<1>2. tmain.pc = "upload" /\ TransferAt("upload") /\ UNCHANGED <<topts, tfiles, tserver>>
  BY DEF TransferPutFails, TransferAt
<1>3. /\ topts \in TransferOptions /\ tmain \in TransferMains /\ tserver \in Seq(Paths)
      /\ tfaults \in 0 .. MaxModuleFaults /\ MaxModuleFaults \in Nat
      /\ \A f \in DOMAIN tfiles : tfiles[f] \in Paths /\ FileOf(tfiles[f]) = f
      /\ Paths' = Paths /\ OneEach' = OneEach /\ Got' = Got
      /\ \A p : FileOf(p)' = FileOf(p) /\ KindOf(p)' = KindOf(p)
  BY <1>2, UploadHas
<1>4. tfaults' \in 0 .. MaxModuleFaults
  BY <1>1, <1>3 DEF TransferFault
<1>5. /\ tmain' \in TransferMains /\ tmain'.pc \in {"upload", "raised"} /\ tmain'.kind = tmain.kind
      /\ tmain'.left \subseteq tmain.left
  BY <1>1, <1>2, <1>3 DEF TransferMains
<1>6. TransferTypes'
  <2>1. (tmain \in TransferMains)'
    BY <1>3, <1>5 DEF TransferMains
  <2> QED BY <1>2, <1>3, <1>4, <2>1 DEF TransferTypes
<1>7. Uploaded' = Uploaded
  BY <1>2 DEF Uploaded
<1>8. PutInOrder'
  BY <1>2, <1>3, <1>5, <1>7 DEF TransferInv, PutInOrder, TransferAt, KindsTo
<1>9. NothingLost'
  <2> SUFFICES ASSUME OneEach, tfaults' = 0 PROVE FALSE
    BY <1>3 DEF NothingLost
  <2>1. tfaults = 0
    BY <1>1, <1>3 DEF TransferFault
  <2>2. HasParent(path)
    BY <1>1, <1>2, <2>1, HasItsParent
  <2> QED BY <1>1, <1>3, <2>2 DEF TransferFault
<1> QED BY <1>6, <1>8, <1>9 DEF TransferInv

(* The next kind: what is of it was not put yet, and no module of another kind is below it. *)
LEMMA NextKindKeeps ==
  ASSUME TransferInv, TransferNextKind PROVE TransferInv'
<1>1. /\ tmain.pc = "upload" /\ tmain.left = {} /\ UNCHANGED <<topts, tfiles, tserver, tfaults>>
      /\ tmain' = IF tmain.kind = Len(Kinds) THEN [tmain EXCEPT !.pc = "done"]
                  ELSE [tmain EXCEPT !.kind = @ + 1, !.left = Written(tmain.kind + 1)]
  BY DEF TransferNextKind, TransferAt
<1>2. /\ topts \in TransferOptions /\ tmain \in TransferMains /\ tserver \in Seq(Paths)
      /\ tfaults \in 0 .. MaxModuleFaults
      /\ \A f \in DOMAIN tfiles : tfiles[f] \in Paths /\ FileOf(tfiles[f]) = f
      /\ Paths' = Paths /\ OneEach' = OneEach /\ Got' = Got
      /\ \A p : FileOf(p)' = FileOf(p) /\ KindOf(p)' = KindOf(p)
      /\ Uploaded = {tserver[i] : i \in 1 .. Len(tserver)} /\ Len(tserver) \in Nat
  BY <1>1, UploadHas
<1>3. Uploaded' = Uploaded /\ Got \subseteq Paths /\ tmain.kind \in 1 .. 3 /\ Len(Kinds) = 3
  BY <1>1, <1>2, KindsAre DEF Uploaded, Got, TransferMains
<1>4. TransferTypes /\ PutInOrder /\ NothingLost
  BY DEF TransferInv
<1>5. ASSUME tmain.kind = 3 PROVE TransferInv'
  <2>1. /\ tmain' \in TransferMains /\ tmain'.pc = "done" /\ tmain'.kind = tmain.kind
        /\ tmain'.left = tmain.left
    BY <1>1, <1>2, <1>3, <1>5 DEF TransferMains
  <2>2. TransferTypes'
    <3>1. (tmain \in TransferMains)'
      BY <1>2, <2>1 DEF TransferMains
    <3> QED BY <1>1, <1>2, <3>1 DEF TransferTypes
  <2>3. PutInOrder'
    BY <1>1, <1>2, <1>3, <1>4, <2>1 DEF PutInOrder, TransferAt, KindsTo
  <2>4. ASSUME OneEach, tfaults = 0 PROVE Paths \subseteq Got /\ Paths \subseteq Uploaded
    <3>1. \A p \in Paths : KindOf(p) \in KindsTo(3)
      BY <1>2, TreeOf, KindsAre
    <3> QED BY <1>1, <1>4, <1>5, <2>4, <3>1 DEF NothingLost, TransferAt
  <2>5. NothingLost'
    BY <1>1, <1>2, <1>3, <2>1, <2>4 DEF NothingLost, TransferAt
  <2> QED BY <2>2, <2>3, <2>5 DEF TransferInv
<1>6. ASSUME tmain.kind # 3 PROVE TransferInv'
  <2> DEFINE k == tmain.kind + 1
  <2>1. k \in {2, 3} /\ k \in 1 .. 3 /\ k - 1 = tmain.kind
    BY <1>3, <1>6
  <2> HIDE DEF k
  <2>2. Written(k) = {p \in Got : KindOf(p) = Kinds[k]}
    BY <2>1, WrittenIs
  <2>3. /\ tmain' \in TransferMains /\ tmain'.pc = "upload" /\ tmain'.kind = k
        /\ tmain'.left = Written(k)
    BY <1>1, <1>2, <1>3, <1>6, <2>1, <2>2 DEF TransferMains, k
  <2>4. TransferTypes'
    <3>1. (tmain \in TransferMains)'
      BY <1>2, <2>3 DEF TransferMains
    <3> QED BY <1>1, <1>2, <3>1 DEF TransferTypes
  <2>5. Kinds[k] \notin KindsTo(tmain.kind) /\ KindsTo(k) = KindsTo(tmain.kind) \cup {Kinds[k]}
    BY <1>3, <2>1, KindsAre
  <2>6. Kinds[k] # "project"
    BY <2>1, KindsAre
  <2>7. ASSUME NEW p \in Written(k)
        PROVE  KindOf(p) = Kinds[k] /\ p \notin Uploaded /\ \A q \in Uploaded : ~IsPrefix(p, q)
    <3>1. p \in Paths /\ KindOf(p) = Kinds[k]
      BY <1>3, <2>2
    <3>2. \A q \in Uploaded : q \in Paths /\ KindOf(q) \in KindsTo(tmain.kind)
      BY <1>2, <1>4 DEF PutInOrder
    <3>3. p \notin Uploaded
      BY <2>5, <3>1, <3>2
    <3>4. ASSUME NEW q \in Uploaded PROVE ~IsPrefix(p, q)
      BY <1>2, <2>6, <3>1, <3>2, <3>3, AncestorsAreProjects
    <3> QED BY <3>1, <3>3, <3>4
  <2>8. \A q \in Uploaded : KindOf(q) \in KindsTo(k)
    BY <1>4, <2>5 DEF PutInOrder
  <2>9. PutInOrder'
    BY <1>1, <1>2, <1>3, <1>4, <2>3, <2>7, <2>8 DEF PutInOrder, TransferAt, KindsTo
  <2>10. ASSUME OneEach, tfaults = 0
         PROVE  /\ Paths \subseteq Got
                /\ \A p \in Paths : KindOf(p) \in KindsTo(k) => p \in Written(k) \cup Uploaded
    <3>1. Paths \subseteq Got
      BY <1>1, <1>4, <2>10 DEF NothingLost
    <3>2. \A p \in Paths : KindOf(p) \in KindsTo(tmain.kind) => p \in Uploaded
      BY <1>1, <1>4, <2>10 DEF NothingLost, TransferAt
    <3> QED BY <2>2, <2>5, <3>1, <3>2
  <2>11. NothingLost'
    BY <1>1, <1>2, <1>3, <2>3, <2>10 DEF NothingLost, TransferAt, KindsTo
  <2> QED BY <2>4, <2>9, <2>11 DEF TransferInv
<1> QED BY <1>5, <1>6

LEMMA TransferSteps == TransferInv /\ TransferNext => TransferInv'
BY DownloadKeeps, DownloadFailsKeeps, ToUploadKeeps, PutKeeps, PutFailsKeeps, NextKindKeeps
   DEF TransferNext

(* What the runs check of it follows. *)
LEMMA TransferredWell == TransferInv => TransferTypeOK /\ ModulesSurvive
<1> SUFFICES ASSUME TransferInv PROVE TransferTypeOK /\ ModulesSurvive
  OBVIOUS
<1>1. /\ topts \in TransferOptions /\ tmain \in TransferMains /\ tserver \in Seq(Paths)
      /\ tfaults \in 0 .. MaxModuleFaults
      /\ \A f \in DOMAIN tfiles : tfiles[f] \in Paths /\ FileOf(tfiles[f]) = f
  BY DEF TransferInv, TransferTypes
<1>2. ToSet(tmain.queue) \subseteq Paths /\ ToSet(tserver) \subseteq Paths
  <2>1. tmain.queue \in Seq(Paths)
    BY <1>1 DEF TransferMains
  <2>2. DOMAIN tmain.queue = 1 .. Len(tmain.queue) /\ DOMAIN tserver = 1 .. Len(tserver)
    BY <1>1, <2>1
  <2> QED BY <1>1, <2>1, <2>2 DEF ToSet
<1>3. TransferTypeOK
  BY <1>1, <1>2, KindsAre DEF TransferTypeOK, TransferMains
<1>4. ASSUME TransferAt("done"), tfaults = 0, ToSet(tserver) # Paths
      PROVE  \E p, q \in Paths : SameFile(p, q) /\ (topts.flat \/ NamedLikeItsProject(p))
  <2>1. OneEach => Paths \subseteq ToSet(tserver)
    BY <1>4 DEF TransferInv, NothingLost, Uploaded
  <2> QED BY <1>1, <1>2, <1>4, <2>1, Clashes
<1>5. PutInOrder
  BY DEF TransferInv
<1> QED BY <1>3, <1>4, <1>5 DEF ModulesSurvive, PutInOrder, KindOf
=============================================================================
