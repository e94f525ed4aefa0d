--------------------------- MODULE StatusRecorder ---------------------------
(***************************************************************************)
(* The status an HTTP handler answers, as the middleware of                *)
(* adapter/httpsrv hears it through statusRecorder and reports it to the   *)
(* failure budget.  Requests run concurrently.  net/http's ResponseWriter  *)
(* is external: the first final status counts, informational ones (1xx)    *)
(* may come before it, and a body or a flush without one sends 200.        *)
(***************************************************************************)
EXTENDS Integers

CONSTANTS
  Requests,
  Codes,       \* statuses handlers write
  MaxCalls     \* bound: calls a handler makes on its ResponseWriter

VARIABLES
  rec,         \* per request, statusRecorder: [status, written]
  sent,        \* per request: final status on the wire, 0 before there is one
  calls,       \* per request: calls so far, MaxCalls + 1 once the handler is back
  failures,    \* requests whose outcome was reported as a failure
  hinted,      \* history: requests whose first status was informational
  flushed      \* history: requests that were flushed before they wrote anything

vars == <<rec, sent, calls, failures, hinted, flushed>>

Init ==
  /\ rec = [r \in Requests |-> [status |-> 200, written |-> FALSE]]
  /\ sent = [r \in Requests |-> 0]
  /\ calls = [r \in Requests |-> 0]
  /\ failures = {} /\ hinted = {} /\ flushed = {}

Call(r) == calls[r] < MaxCalls /\ calls' = [calls EXCEPT ![r] = @ + 1] /\ UNCHANGED failures

(* net/http; 101 switches protocols and is final. *)
Informational(code) == code \in 100 .. 199 \ {101}
Sends(r, code) ==
  sent' = IF sent[r] # 0 \/ Informational(code) THEN sent ELSE [sent EXCEPT ![r] = code]

\* the last status is kept
WriteHeaderLast(r, code) ==
  /\ Call(r)
  /\ rec' = [rec EXCEPT ![r] = [status |-> code, written |-> TRUE]]
  /\ hinted' = IF ~rec[r].written /\ Informational(code) THEN hinted \cup {r} ELSE hinted
  /\ Sends(r, code) /\ UNCHANGED flushed

WriteHeader(r, code) ==
  /\ Call(r)
  /\ rec' = IF rec[r].written THEN rec ELSE [rec EXCEPT ![r] = [status |-> code, written |-> TRUE]]
  /\ hinted' = IF ~rec[r].written /\ Informational(code) THEN hinted \cup {r} ELSE hinted
  /\ Sends(r, code) /\ UNCHANGED flushed

Write(r) ==
  /\ Call(r)
  /\ rec' = [rec EXCEPT ![r].written = TRUE]
  /\ Sends(r, 200) /\ UNCHANGED <<hinted, flushed>>

(* Unwrap: http.ResponseController's flush does not pass the recorder. *)
Flush(r) ==
  /\ Call(r)
  /\ flushed' = IF rec[r].written THEN flushed ELSE flushed \cup {r}
  /\ Sends(r, 200) /\ UNCHANGED <<rec, hinted>>

(* The handler returns and its status is reported. *)
Report(r) ==
  /\ calls[r] <= MaxCalls
  /\ calls' = [calls EXCEPT ![r] = MaxCalls + 1]
  /\ Sends(r, 200)
  /\ failures' = IF rec[r].status >= 500 THEN failures \cup {r} ELSE failures
  /\ UNCHANGED <<rec, hinted, flushed>>

Reported(r) == calls[r] > MaxCalls
Next ==
  \/ \E r \in Requests : Write(r) \/ Flush(r) \/ Report(r) \/ \E code \in Codes : WriteHeader(r, code)
  \/ (\A r \in Requests : Reported(r)) /\ UNCHANGED vars

Spec == Init /\ [][Next]_vars

-----------------------------------------------------------------------------
(* Whatever a handler writes, and in whatever order, a response of status   *)
(* 500 or above is reported as a failure unless an informational status     *)
(* came first, and a response below 500 is not, unless the handler flushed, *)
(* and so sent 200, before it wrote a status.  Those two the recorder gets  *)
(* wrong, in one direction each.                                            *)
FailuresAreResponses ==
  \A r \in Requests : Reported(r) =>
    /\ sent[r] >= 500 /\ r \notin failures => r \in hinted
    /\ sent[r] < 500 /\ r \in failures => r \in flushed

=============================================================================
