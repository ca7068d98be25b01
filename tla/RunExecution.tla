---------------------------- MODULE RunExecution ----------------------------
(***************************************************************************)
(* ss-execute: launches a run, waits until it is in a final state, aborted *)
(* or late, then terminates it if it was asked to and gets the reports the *)
(* components sent, while the run goes on, is aborted and sends them.      *)
(***************************************************************************)
EXTENDS Integers, Sequences

CONSTANTS
  Senders,            \* the node instances of the run, which send reports
  MaxReports,         \* bound: reports a component sends
  MaxExecuteFaults    \* bound: calls that fail, aborts, cancelled aborts, interrupts

ASSUME ExecuteAssumption == MaxReports \in Nat /\ MaxExecuteFaults \in Nat

VARIABLES
  eopts,     \* the options of the command
  edep,      \* the run on the server
  ereports,  \* the reports of each component, in order of their creation
  emain,     \* the command; found, left, latest and got are sets of reports: those the
             \* search returned, those of them a loop has still to go through, and the
             \* newest and the downloaded ones; a call about the termination was missed
  efaults

executeVars == <<eopts, edep, ereports, emain, efaults>>

Critical == IF eopts.nagios THEN 2 ELSE 1
FinalRunStates == {"Done", "Cancelled", "Aborted"}
FinalStates == IF eopts.ready THEN FinalRunStates \cup {"Ready"} ELSE FinalRunStates
AfterSendingReports == {"Ready", "Finalizing"} \cup FinalRunStates
RunStates == AfterSendingReports
             \cup {"Initializing", "Provisioning", "Executing", "SendingReports"}

ExecuteOptions == [nagios : BOOLEAN, wait : BOOLEAN, kill : BOOLEAN, ready : BOOLEAN,
                   get : SUBSET Senders]

Reports == Senders \X (1 .. MaxReports)

ExecuteIdle ==
  /\ edep = [made |-> FALSE, state |-> "Initializing", abort |-> FALSE, gone |-> FALSE]
  /\ ereports = [c \in Senders |-> <<>>]
  /\ emain = [pc |-> "launch", rc |-> 0, known |-> FALSE, missed |-> FALSE,
               found |-> {}, left |-> {}, latest |-> {}, got |-> {}]
  /\ efaults = 0
ExecuteInit == eopts \in ExecuteOptions /\ ExecuteIdle

ExecuteFault == efaults < MaxExecuteFaults /\ efaults' = efaults + 1
MainDoes(pc) == emain.pc = pc
GoOn(pc) == emain' = [emain EXCEPT !.pc = pc]
Ended == emain.pc \in {"exit", "raised"}

-----------------------------------------------------------------------------
(* The command *)

(* A run whose answer is lost goes on, and nobody knows of it. *)
ExecuteLaunch ==
  /\ MainDoes("launch")
  /\ \/ /\ edep' = [edep EXCEPT !.made = TRUE]
        /\ emain' = [emain EXCEPT !.pc = IF eopts.wait THEN "poll" ELSE "exit", !.known = TRUE]
        /\ UNCHANGED efaults
     \/ /\ ExecuteFault
        /\ \E made \in BOOLEAN : edep' = [edep EXCEPT !.made = made]
        /\ emain' = [emain EXCEPT !.pc = IF eopts.nagios THEN "exit" ELSE "raised", !.rc = Critical]
  /\ UNCHANGED <<eopts, ereports>>

Fails == emain' = [emain EXCEPT !.pc = "finally", !.rc = Critical]
OnServer == UNCHANGED <<eopts, edep, ereports>>

(* Mutant: no deadline. *)
MutantExecutePoll ==
  /\ MainDoes("poll")
  /\ \/ edep.abort /\ GoOn("abortstate")
     \/ ~edep.abort /\ edep.state \in FinalStates /\ GoOn("finally")
  /\ UNCHANGED efaults /\ OnServer

(* _wait_run_in_states: a run that is aborted ends the wait, whatever its state. *)
ExecutePoll ==
  /\ MainDoes("poll")
  /\ \/ edep.abort /\ GoOn("abortstate")
     \/ ~edep.abort /\ edep.state \in FinalStates /\ GoOn("finally")
     \/ Fails                                                     \* it is late
  /\ UNCHANGED efaults /\ OnServer

(* A call that fails, or the user's interrupt, while waiting or reporting the abort. *)
ExecutePollFails ==
  /\ emain.pc \in {"poll", "abortstate", "message"} /\ ExecuteFault /\ Fails
  /\ OnServer

ExecuteReportsAbort ==
  /\ \/ MainDoes("abortstate") /\ GoOn("message")
     \/ MainDoes("message") /\ Fails
  /\ UNCHANGED efaults /\ OnServer

(* _cond_terminate_run *)
ToTerminate == eopts.nagios \/ (emain.rc # 0 /\ eopts.kill)

(* Mutant: a nagios check does not terminate its run. *)
MutantAfterReports == IF emain.rc # 0 /\ eopts.kill THEN "terminate" ELSE "search"

AfterReports == IF ToTerminate THEN "terminate" ELSE "search"

ExecuteFinally ==
  /\ MainDoes("finally")
  /\ GoOn(IF emain.rc # 0 THEN "aborted?" ELSE AfterReports)
  /\ UNCHANGED efaults /\ OnServer

ExecuteIsAborted ==
  /\ MainDoes("aborted?")
  /\ GoOn(IF edep.abort THEN "reports" ELSE AfterReports)
  /\ UNCHANGED efaults /\ OnServer

(* Until the run is past SendingReports, or two minutes have passed. *)
ExecuteWaitReports ==
  /\ MainDoes("reports") /\ GoOn(AfterReports)
  /\ UNCHANGED efaults /\ OnServer

(* Any other error here leaves the run alone and the reports on the server. *)
ExecuteLeaves ==
  /\ ExecuteFault
  /\ \/ /\ emain.pc \in {"aborted?", "reports"}
        /\ emain' = [emain EXCEPT !.pc = "raised", !.missed = TRUE]
     \/ emain.pc \in {"search", "filter", "fetch"} /\ GoOn("raised")
  /\ OnServer

(* An error or interrupt of the termination is ignored, whether or not the server got it. *)
ExecuteTerminate ==
  /\ MainDoes("terminate")
  /\ \/ /\ edep' = [edep EXCEPT !.gone = TRUE]
        /\ GoOn("search") /\ UNCHANGED efaults
     \/ /\ ExecuteFault
        /\ \E gone \in BOOLEAN : edep' = [edep EXCEPT !.gone = gone]
        /\ emain' = [emain EXCEPT !.pc = "search", !.missed = TRUE]
  /\ UNCHANGED <<eopts, ereports>>

(* Mutant: is_newer with its arguments swapped. *)
MutantIsNewer(created, other) == other < created

(* The time of creation of a report is its place among those of its component. *)
IsNewer(created, other) == created < other

(* The reports that are ready now; with nothing asked for, or found, the command is done. *)
ReadyReports ==
  {r \in Reports : r[2] <= Len(ereports[r[1]]) /\ ereports[r[1]][r[2]] = "ready"}
ExecuteSearch ==
  /\ MainDoes("search")
  /\ \/ eopts.get = {} /\ GoOn("exit")
     \/ /\ eopts.get # {}
        /\ emain' = [emain EXCEPT !.pc = IF ReadyReports = {} THEN "exit" ELSE "filter",
                                  !.found = ReadyReports, !.left = ReadyReports]
  /\ UNCHANGED efaults /\ OnServer

(* latest_only, one report after the other, in whatever order the server listed them. *)
LatestOnly(latest, r) ==
  LET same == {s \in latest : s[1] = r[1]}
  IN IF \A s \in same : IsNewer(s[2], r[2]) THEN (latest \ same) \cup {r} ELSE latest

ExecuteFilter ==
  /\ MainDoes("filter") /\ emain.left # {}
  /\ \E r \in emain.left :
       emain' = [emain EXCEPT !.left = @ \ {r}, !.latest = LatestOnly(@, r)]
  /\ UNCHANGED efaults /\ OnServer

(* components_only *)
ExecuteSelect ==
  /\ MainDoes("filter") /\ emain.left = {}
  /\ emain' = [emain EXCEPT !.pc = "fetch", !.left = {r \in emain.latest : r[1] \in eopts.get}]
  /\ UNCHANGED efaults /\ OnServer

(* _download_reports *)
ExecuteFetch ==
  /\ MainDoes("fetch")
  /\ \/ emain.left = {} /\ GoOn("exit")
     \/ \E r \in emain.left : emain' = [emain EXCEPT !.left = @ \ {r}, !.got = @ \cup {r}]
  /\ UNCHANGED efaults /\ OnServer

-----------------------------------------------------------------------------
(* The run *)

RunGoesOn == edep.made /\ ~edep.gone /\ ~Ended

AfterState(state) ==
  CASE state = "Initializing" -> {"Provisioning"}
    [] state = "Provisioning" -> {"Executing"}
    [] state = "Executing" -> {"SendingReports"}
    [] state = "SendingReports" -> {"Ready"}
    [] state = "Ready" -> {"Finalizing", "Provisioning"}
    [] state = "Finalizing" -> IF edep.abort THEN {"Aborted"} ELSE {"Done", "Cancelled"}
    [] OTHER -> {}

Sending(c) ==
  ereports[c] # <<>> /\ ereports[c][Len(ereports[c])] \in {"new", "uploaded"}

(* A state is over when every executor has completed it, which it does after its report; *)
(* the run is scaled again as long as there are reports to send.                         *)
RunAdvances ==
  /\ RunGoesOn /\ \A c \in Senders : ~Sending(c)
  /\ \E state \in AfterState(edep.state) :
       /\ edep.state = "Ready" /\ state = "Provisioning" =>
            ~edep.abort /\ \A c \in Senders : Len(ereports[c]) < MaxReports
       /\ edep' = [edep EXCEPT !.state = state]
  /\ UNCHANGED <<eopts, ereports, emain, efaults>>

RunAbortFlag ==
  /\ RunGoesOn /\ edep.state \notin FinalRunStates /\ ExecuteFault
  /\ edep' = [edep EXCEPT !.abort = ~@]
  /\ UNCHANGED <<eopts, ereports, emain>>

(* sendReport: the object is created, its content uploaded, and then it is declared ready.  *)
(* An instance that is removed, or whose handler failed, sends its report before the others. *)
CreateReport(c) ==
  /\ edep.state \in {"SendingReports", "Provisioning"} \/ (edep.state = "Executing" /\ edep.abort)
  /\ ~Sending(c) /\ Len(ereports[c]) < MaxReports
  /\ ereports' = [ereports EXCEPT ![c] = Append(@, "new")]

Report(c, from, to) ==
  /\ ereports[c] # <<>> /\ ereports[c][Len(ereports[c])] = from
  /\ ereports' = [ereports EXCEPT ![c][Len(ereports[c])] = to]
UploadReport(c) == Report(c, "new", "uploaded")
SetReportReady(c) == Report(c, "uploaded", "ready")

(* The VMs of a run that is terminated go down some time later. *)
SendReports ==
  /\ edep.made /\ ~Ended
  /\ \E c \in Senders : CreateReport(c) \/ UploadReport(c) \/ SetReportReady(c)
  /\ UNCHANGED <<eopts, edep, emain, efaults>>

(* A call that fails ends the sending; the executor raises the abort flag and sends another. *)
ReportLost ==
  /\ edep.made /\ ~Ended /\ ExecuteFault
  /\ \E c \in Senders, from \in {"new", "uploaded"} : Report(c, from, "lost")
  /\ edep' = [edep EXCEPT !.abort = TRUE]
  /\ UNCHANGED <<eopts, emain>>

ExecuteProgress ==
  \/ ExecuteLaunch \/ ExecuteReportsAbort \/ ExecutePoll \/ ExecuteFinally
  \/ ExecuteIsAborted \/ ExecuteWaitReports \/ ExecuteTerminate
  \/ ExecuteSearch \/ ExecuteFilter \/ ExecuteSelect \/ ExecuteFetch
ExecuteDisturbed ==
  ExecutePollFails \/ ExecuteLeaves \/ RunAdvances \/ RunAbortFlag \/ SendReports \/ ReportLost
ExecuteNext == ExecuteProgress \/ ExecuteDisturbed
ExecuteSpec == ExecuteInit /\ [][ExecuteNext]_executeVars

-----------------------------------------------------------------------------
ExecuteTypeOK ==
  /\ edep \in [made : BOOLEAN, state : RunStates, abort : BOOLEAN, gone : BOOLEAN]
  /\ ereports \in [Senders -> Seq({"new", "uploaded", "ready", "lost"})]
  /\ \A c \in Senders : Len(ereports[c]) <= MaxReports
  /\ emain \in [pc : {"launch", "poll", "abortstate", "message", "finally", "aborted?", "reports",
                      "terminate", "search", "filter", "fetch", "exit", "raised"},
                rc : 0 .. 2, known : BOOLEAN, missed : BOOLEAN, found : SUBSET Reports,
                left : SUBSET Reports, latest : SUBSET Reports, got : SUBSET Reports]
  /\ efaults \in 0 .. MaxExecuteFaults

(* The server has terminated a run that the command knows of and was to terminate, unless a   *)
(* call failed on the way there or the termination itself failed, which is ignored and leaves *)
(* the run to go on (_terminate_run); it has terminated no other run; and a command that      *)
(* waited and ends well leaves a run that is over.                                            *)
KillsWhatItPromised ==
  Ended /\ emain.known /\ eopts.wait =>
    /\ ToTerminate => edep.gone \/ emain.missed
    /\ edep.gone => ToTerminate
    /\ emain.rc = 0 /\ ~eopts.ready => edep.gone \/ edep.state \in FinalRunStates

(* What is downloaded was ready when the command searched, and nothing it found of the same   *)
(* component is newer, whatever order the reports were listed in (latest_only).  More may turn *)
(* ready between the search and the last download, but not when the command waited for the    *)
(* run to be over and ends well: then it leaves no newer report of what was asked for.         *)
DownloadsLatest ==
  /\ \A r \in emain.got :
       /\ r \in emain.found /\ ereports[r[1]][r[2]] = "ready"
       /\ \A s \in emain.found : s[1] = r[1] => s[2] <= r[2]
  /\ emain.pc = "exit" /\ emain.known /\ eopts.wait /\ emain.rc = 0 /\ ~eopts.ready =>
       \A s \in ReadyReports : s[1] \in eopts.get => \E r \in emain.got : r[1] = s[1] /\ s[2] <= r[2]
=============================================================================
