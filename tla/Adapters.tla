------------------------------ MODULE Adapters ------------------------------
(***************************************************************************)
(* Calls through the adapters.  A caller starts one of Methods; the steps  *)
(* it has left are in todo.  The engine is reduced to what Engine shows of *)
(* it: Eval gives a pass-through, or an action with a fault chain and a    *)
(* slot of WithMaxConcurrent; Before applies the chain, and releases the   *)
(* slot when the chain ends in an error or a panic; After releases it      *)
(* otherwise; Outcome feeds the failure budget.                            *)
(***************************************************************************)
EXTENDS Methods, Integers

CONSTANTS
  Callers,    \* goroutines making calls
  Usable,     \* the methods they call
  Chains,     \* fault chains a rule may carry
  Cap,        \* n of WithMaxConcurrent
  MayPanic,   \* the wrapped call may panic
  Deadlines   \* callers cancel their context

Faults == Errors \cup {"latency", "panic"}

ASSUME AdaptersAssumption ==
  /\ Usable \subseteq AllMethods /\ Usable # {}
  /\ Chains \subseteq Seq(Faults)
  /\ Cap \in Nat /\ {MayPanic, Deadlines} \subseteq BOOLEAN

VARIABLES
  call,       \* per caller: its present call, or the last one when todo is empty
  holds,      \* per caller: its action holds a slot
  slots,      \* slots taken
  leaked,     \* history: slots of calls that panicked
  cancelled,  \* per caller: its context is done
  closed,     \* per caller: its connection has been closed
  dropped     \* per caller (history): a call on its connection returned ConnDrop

vars == <<call, holds, slots, leaked, cancelled, closed, dropped>>

NewCall(m) ==
  [method |-> m, evald |-> FALSE, fired |-> FALSE, chain |-> << >>, err |-> "nil",
   got |-> "none", todo |-> << >>, done |-> << >>, reports |-> << >>]

Init ==
  /\ call = [c \in Callers |-> NewCall(CHOOSE m \in Usable : TRUE)]
  /\ holds = [c \in Callers |-> FALSE]
  /\ slots = 0 /\ leaked = 0
  /\ cancelled = [c \in Callers |-> FALSE]
  /\ closed = [c \in Callers |-> FALSE]
  /\ dropped = [c \in Callers |-> FALSE]

At(c, step) == call[c].todo # << >> /\ Head(call[c].todo) = step
Idle(c)     == call[c].todo = << >>

(* The error of Before ended the call: the wrapped call was not made. *)
Aborted(c) == call[c].err \in Errors \ call[c].method.resume

(* What the caller of the adapter is left with. *)
Seen(c) == IF Aborted(c) THEN call[c].method.native[call[c].err] ELSE call[c].got

WrappedCall(m) == IF m.calls THEN <<"call">> ELSE << >>

Release(c) ==
  /\ slots' = IF holds[c] THEN slots - 1 ELSE slots
  /\ holds' = [holds EXCEPT ![c] = FALSE]

Becomes(c, r) == call' = [call EXCEPT ![c] = r]

-----------------------------------------------------------------------------
(* The adapter asks Enabled; a disabled engine is not involved at all. *)
Start(c, m) ==
  /\ Idle(c)
  /\ \/ Becomes(c, [NewCall(m) EXCEPT !.todo = <<"eval">>])
     \/ Becomes(c, [NewCall(m) EXCEPT !.todo = WrappedCall(m)])
  /\ cancelled' = [cancelled EXCEPT ![c] = FALSE]
  /\ UNCHANGED <<holds, slots, leaked, closed, dropped>>

Eval(c) ==
  /\ At(c, "eval")
  /\ \/ /\ Becomes(c, [call[c] EXCEPT !.todo = <<"before">>, !.evald = TRUE])
        /\ UNCHANGED <<holds, slots>>
     \/ /\ slots < Cap
        /\ \E chain \in Chains :
             Becomes(c, [call[c] EXCEPT !.todo = <<"before">>, !.evald = TRUE,
                                        !.fired = TRUE, !.chain = chain])
        /\ slots' = slots + 1
        /\ holds' = [holds EXCEPT ![c] = TRUE]
  /\ UNCHANGED <<leaked, cancelled, closed, dropped>>

(* Before returns an error: the slot goes back, and the method either ends  *)
(* the call with it or, for an error it understands, goes on.              *)
Fails(c, e) ==
  LET m == call[c].method
  IN  /\ Becomes(c, [call[c] EXCEPT !.err = e, !.chain = << >>,
            !.todo = IF e \notin m.resume THEN m.finish
                     ELSE IF e \in m.early THEN m.finish \o WrappedCall(m)
                     ELSE WrappedCall(m) \o m.finish])
      /\ Release(c)
      /\ closed' = [closed EXCEPT ![c] = @ \/ (m.closes /\ e = "connDrop")]
      /\ dropped' = [dropped EXCEPT ![c] = @ \/ (m.conn /\ e = "connDrop")]
      /\ UNCHANGED <<leaked, cancelled>>

ApplyFault(c) ==
  /\ At(c, "before") /\ call[c].chain # << >>
  /\ Head(call[c].chain) \in Errors
  /\ Fails(c, Head(call[c].chain))

(* The panic unwinds through Before, which releases the slot on the way. *)
ApplyPanic(c) ==
  /\ At(c, "before") /\ call[c].chain # << >>
  /\ Head(call[c].chain) = "panic"
  /\ Becomes(c, [call[c] EXCEPT !.err = "panic", !.chain = << >>, !.todo = << >>])
  /\ Release(c)
  /\ UNCHANGED <<leaked, cancelled, closed, dropped>>

\* the slot goes back when the sleep is over
WakeReleases(c) ==
  /\ At(c, "before") /\ call[c].chain # << >>
  /\ Head(call[c].chain) = "latency"
  /\ Becomes(c, [call[c] EXCEPT !.chain = Tail(@)])
  /\ Release(c)
  /\ UNCHANGED <<leaked, cancelled, closed, dropped>>

(* sleep: the timer fires, or the context given to Before is done first. *)
Wake(c) ==
  /\ At(c, "before") /\ call[c].chain # << >>
  /\ Head(call[c].chain) = "latency"
  /\ Becomes(c, [call[c] EXCEPT !.chain = Tail(@)])
  /\ UNCHANGED <<holds, slots, leaked, cancelled, closed, dropped>>

Interrupt(c) ==
  /\ At(c, "before") /\ call[c].chain # << >>
  /\ Head(call[c].chain) = "latency"
  /\ cancelled[c] /\ call[c].method.ctx = "caller"
  /\ Fails(c, "ctx")

Proceed(c) ==
  /\ At(c, "before") /\ call[c].chain = << >>
  /\ Becomes(c, [call[c] EXCEPT !.todo = WrappedCall(call[c].method) \o call[c].method.finish])
  /\ UNCHANGED <<holds, slots, leaked, cancelled, closed, dropped>>

(* The wrapped call returns.  Nothing is deferred, so a panic skips what    *)
(* the adapter had left to do and the slot is never given back.            *)
Return(c) ==
  /\ At(c, "call")
  /\ \E r \in call[c].method.results :
       /\ call[c].method.conn /\ closed[c] => r = "fail"
       /\ Becomes(c, [call[c] EXCEPT !.got = r, !.todo = Tail(@)])
  /\ UNCHANGED <<holds, slots, leaked, cancelled, closed, dropped>>

CallPanics(c) ==
  /\ At(c, "call") /\ MayPanic
  /\ Becomes(c, [call[c] EXCEPT !.got = "panic", !.todo = << >>])
  /\ leaked' = leaked + (IF holds[c] THEN 1 ELSE 0)
  /\ holds' = [holds EXCEPT ![c] = FALSE]
  /\ UNCHANGED <<slots, cancelled, closed, dropped>>

(* What the adapter passes to Outcome. *)
Charged(c) ==
  LET m == call[c].method
  IN  CASE Aborted(c)                              -> m.charge[call[c].err]
        [] ~Aborted(c) /\ call[c].got \in Results  -> m.counts[call[c].got]
        [] OTHER                                   -> "success"

Outcome(c) ==
  /\ At(c, "outcome")
  /\ Becomes(c, [call[c] EXCEPT !.todo = Tail(@), !.done = Append(@, "outcome"),
                             !.reports = Append(@, Charged(c))])
  /\ UNCHANGED <<holds, slots, leaked, cancelled, closed, dropped>>

After(c) ==
  /\ At(c, "after")
  /\ Becomes(c, [call[c] EXCEPT !.todo = Tail(@), !.done = Append(@, "after")])
  /\ Release(c)
  /\ UNCHANGED <<leaked, cancelled, closed, dropped>>

(* The caller gives up on the call it is making. *)
Cancel(c) ==
  /\ Deadlines /\ ~Idle(c) /\ ~cancelled[c]
  /\ cancelled' = [cancelled EXCEPT ![c] = TRUE]
  /\ UNCHANGED <<call, holds, slots, leaked, closed, dropped>>

(* The caller opens another connection. *)
Reconnect(c) ==
  /\ Idle(c) /\ closed[c]
  /\ closed' = [closed EXCEPT ![c] = FALSE]
  /\ dropped' = [dropped EXCEPT ![c] = FALSE]
  /\ Becomes(c, NewCall(call[c].method))
  /\ UNCHANGED <<holds, slots, leaked, cancelled>>

(* What the adapter and the engine do by themselves. *)
Advance(c) ==
  Eval(c) \/ ApplyFault(c) \/ ApplyPanic(c) \/ Interrupt(c) \/ Proceed(c)
    \/ Return(c) \/ Outcome(c) \/ After(c)

Next == \E c \in Callers :
          \/ \E m \in Usable : Start(c, m)
          \/ Advance(c) \/ Wake(c) \/ CallPanics(c) \/ Cancel(c) \/ Reconnect(c)

Spec == Init /\ [][Next]_vars

(* A goroutine is scheduled and the wrapped call returns; nothing is        *)
(* assumed of timers, so a sleep may be as long as it likes.               *)
FairSpec == Spec /\ \A c \in Callers : WF_vars(Advance(c))

-----------------------------------------------------------------------------
(* A fault or the wrapped call panicked: the panic unwinds past what        *)
(* the adapter had left to do.                                             *)
Unwound(c) == "panic" \in {call[c].err, call[c].got}

(* The order the adapters settle a call in: the outcome is on record before *)
(* the slot lets the next faulted call in.  chaos.Point has it the other    *)
(* way round.                                                              *)
SettleOrder(m) ==
  IF m.op.kind = "explicit" THEN <<"after", "outcome">> ELSE <<"outcome", "after">>

(* reportOutcome / finish: "Call it exactly once per action, or the slot    *)
(* leaks and the failure budget never sees the call."  Every call that      *)
(* consulted the engine has, when it is over, run Outcome once and After    *)
(* once, in the order of its method, on every path, the ones               *)
(* that an injected error ended included ("injected fault counts toward     *)
(* the budget"); only a panic leaves it unsettled.                          *)
SettledOnce ==
  \A c \in Callers :
    Idle(c) /\ call[c].evald /\ ~Unwound(c) => call[c].done = SettleOrder(call[c].method)

(* The failure budget hears what the caller saw: a failure is reported      *)
(* exactly when the call failed.  The four exceptions are in the code: pgx  *)
(* rows and batches fail after they were reported, a shaped stream is       *)
(* reported before its call, a 5xx response of a real server is no error to *)
(* adapter/http, and adapter/httpsrv counts an injected 4xx as a failure.   *)
BudgetHears ==
  \A c \in Callers :
    LET m == call[c].method
        failure == Seen(c) \notin {"ok", "none", "response4xx"}
    IN  Idle(c) /\ call[c].evald /\ ~Unwound(c) =>
          \/ call[c].reports = <<IF failure THEN "failure" ELSE "success">>
          \/ /\ failure /\ ~Aborted(c)
             /\ m.op.kind = "pgx" /\ m.op.method \in {"queryrow", "batch"}
          \/ failure /\ m.op.kind = "io" /\ call[c].err \in m.early
          \/ failure /\ m.op.kind = "http.client" /\ call[c].got = "response5xx"
          \/ m.op.kind = "http.server" /\ call[c].err = "status4xx"

(* engine/op.go on Outcome: "It is not invoked when Before short-circuits   *)
(* the call."  A call that an injected error ended reports nothing.         *)
ShortCircuitsUnreported ==
  \A c \in Callers : Aborted(c) /\ call[c].method.calls => call[c].reports = << >>

(* pgx runChaos poisons the connection: after a ConnDrop no later call on   *)
(* the same connection succeeds, whether or not chaos is consulted for it.  *)
DropIsFatal ==
  \A c \in Callers :
    Idle(c) /\ dropped[c] /\ call[c].method.conn /\ ~Aborted(c) => call[c].got # "ok"

(* A faulted call whose faults let it through keeps its slot while the      *)
(* wrapped call runs, "The slot is held for the duration of the fault", and *)
(* until its outcome is on record, so that the next faulted call is         *)
(* weighed against a budget that knows of this one (chaos.Point, which      *)
(* wraps no call, gives the slot back first).                               *)
HeldThroughCall ==
  \A c \in Callers :
    /\ call[c].fired /\ call[c].err = "nil"
    /\ At(c, "call") \/ (At(c, "outcome") /\ call[c].method.op.kind # "explicit")
    => holds[c]

(* A caller that gives up gets its goroutine back: once the context is      *)
(* done, a method that takes it returns, however long the injected latency. *)
CancelledReturns ==
  \A c \in Callers :
    (cancelled[c] /\ call[c].method.takes) ~> (Idle(c) \/ ~cancelled[c])

=============================================================================
