----------------------------- MODULE HttpRetry -----------------------------
(***************************************************************************)
(* HttpClient._call: the calls to the server of the threads of a program,  *)
(* which share one client: what is sent again after what failure, how long *)
(* a thread waits before, and the count of refused requests they share.    *)
(***************************************************************************)
EXTENDS Integers

CONSTANTS
  Callers,        \* the threads
  MaxHttpFaults   \* bound: requests refused, lost, or whose answer is lost

ASSUME HttpFaultsAssumption == MaxHttpFaults \in Nat

VARIABLES
  hcall,     \* the call of each thread
  happlied,  \* how many times the server has applied it
  hcount,    \* too_many_requests_count
  hfaults

httpVars == <<hcall, happlied, hcount, hfaults>>

AtMost(a, b) == IF a < b THEN a ELSE b
BusyWait(count) == AtMost(29 * count + 10, 300)     \* seconds, before the jitter of a tenth
ErrorWait(retries) == AtMost(10 * retries, 900)

Idle == [pc |-> "idle", post |-> FALSE, retry |-> TRUE, retries |-> 0, wait |-> 0]

HttpInit ==
  /\ hcall = [t \in Callers |-> Idle] /\ happlied = [t \in Callers |-> 0]
  /\ hcount = 0 /\ hfaults = 0

HttpStart(t) ==
  /\ hcall[t].pc = "idle"
  /\ \E post, retry \in BOOLEAN :
       hcall' = [hcall EXCEPT ![t] = [Idle EXCEPT !.pc = "send", !.post = post, !.retry = retry]]
  /\ UNCHANGED <<happlied, hcount, hfaults>>

HttpEnd(t, how) == hcall' = [hcall EXCEPT ![t].pc = how]

(* Mutant: the count is not kept from falling below zero. *)
MutantHttpAnswer(t) ==
  /\ hcall[t].pc = "send"
  /\ happlied' = [happlied EXCEPT ![t] = @ + 1] /\ hcount' = hcount - 1
  /\ HttpEnd(t, "ok") /\ UNCHANGED hfaults

(* A good answer takes one refused request off the count. *)
HttpAnswer(t) ==
  /\ hcall[t].pc = "send"
  /\ happlied' = [happlied EXCEPT ![t] = @ + 1]
  /\ hcount' = IF hcount > 0 THEN hcount - 1 ELSE hcount
  /\ HttpEnd(t, "ok") /\ UNCHANGED hfaults

(* Aborted run, value not yet set, terminal state, not found and other errors of the caller. *)
HttpClientError(t) ==
  /\ hcall[t].pc = "send" /\ HttpEnd(t, "raised")
  /\ UNCHANGED <<happlied, hcount, hfaults>>

HttpWait(t, seconds, retries) ==
  hcall' = [hcall EXCEPT ![t].pc = "refused", ![t].wait = seconds, ![t].retries = retries]

HttpFault == hfaults < MaxHttpFaults /\ hfaults' = hfaults + 1

(* Too many requests, or a server in maintenance: nothing was applied, and the request is   *)
(* sent again for ever, even if the caller wants no retry.  The count is read unlocked.     *)
HttpBusy(t) ==
  /\ hcall[t].pc = "send" /\ HttpFault
  /\ IF hcall[t].post THEN HttpEnd(t, "raised")
     ELSE HttpWait(t, BusyWait(hcount), hcall[t].retries)
  /\ UNCHANGED <<happlied, hcount>>

(* Mutant: a POST is sent again after an error. *)
MutantHttpError(t) ==
  /\ hcall[t].pc = "send" /\ HttpFault
  /\ \E applied \in 0 .. 1 : happlied' = [happlied EXCEPT ![t] = @ + applied]
  /\ IF ~hcall[t].retry THEN HttpEnd(t, "raised")
     ELSE HttpWait(t, ErrorWait(hcall[t].retries), hcall[t].retries + 1)
  /\ UNCHANGED hcount

(* A network or server error, after which the request may have been applied. *)
HttpError(t) ==
  /\ hcall[t].pc = "send" /\ HttpFault
  /\ \E applied \in 0 .. 1 : happlied' = [happlied EXCEPT ![t] = @ + applied]
  /\ \E late \in BOOLEAN :                          \* seven days have passed
       IF hcall[t].post \/ ~hcall[t].retry \/ late THEN HttpEnd(t, "raised")
       ELSE HttpWait(t, ErrorWait(hcall[t].retries), hcall[t].retries + 1)
  /\ UNCHANGED hcount

HttpCount(t) ==
  /\ hcall[t].pc = "refused"
  /\ hcount' = IF hcount < 11 THEN hcount + 1 ELSE hcount
  /\ hcall' = [hcall EXCEPT ![t].pc = "sleep"]
  /\ UNCHANGED <<happlied, hfaults>>

HttpWake(t) ==
  /\ hcall[t].pc = "sleep"
  /\ hcall' = [hcall EXCEPT ![t].pc = "send", ![t].wait = 0]
  /\ UNCHANGED <<happlied, hcount, hfaults>>

HttpCaller(t) ==
  \/ HttpStart(t) \/ HttpAnswer(t) \/ HttpClientError(t) \/ HttpBusy(t) \/ HttpError(t)
  \/ HttpCount(t) \/ HttpWake(t)
HttpNext == \E t \in Callers : HttpCaller(t)
HttpSpec == HttpInit /\ [][HttpNext]_httpVars

-----------------------------------------------------------------------------
(* Types; the count stays between its two bounds under any interleaving of the threads. *)
HttpTypeOK ==
  /\ hcall \in [Callers -> [pc : {"idle", "send", "refused", "sleep", "ok", "raised"},
                            post : BOOLEAN, retry : BOOLEAN, retries : Nat, wait : 0 .. 900]]
  /\ happlied \in [Callers -> Nat]
  /\ hcount \in 0 .. 11 /\ hfaults \in 0 .. MaxHttpFaults

(* A POST, and a call whose caller wants no retry, are applied at most once, whatever is    *)
(* refused or lost; and a call that returns an answer was applied.                          *)
AtMostOnce ==
  \A t \in Callers :
    /\ hcall[t].post \/ ~hcall[t].retry => happlied[t] <= 1
    /\ hcall[t].pc = "ok" => happlied[t] >= 1

HttpDone == \A t \in Callers : hcall[t].pc \in {"ok", "raised"}
=============================================================================
