------------------------------- MODULE Golden -------------------------------
(***************************************************************************)
(* Record and replay (chaostest/golden).  Callers go through an engine     *)
(* whose observer records every decision; the recording becomes rules that *)
(* fire by the recorded mask, and the same operations are run again.  The  *)
(* engine's side (Eval rule by rule, Before fault by fault) is the code    *)
(* that calls the observer, in the order it calls it.                      *)
(***************************************************************************)
EXTENDS Counters, SequencesExt

CONSTANTS
  Callers,
  Rules,     \* the rules under test: [name, kinds, counter, faults]
  Kinds,     \* kinds of the operations run
  Rails,     \* what the engine's rails may answer while recording
  MaxOps     \* bound: operations in a run

(* A fault is [kind, ns]; an error (or a panic, or a dropped connection)   *)
(* ends the chain before the observer hears of it.                         *)
ShortCircuits(f) == f.kind = "error"
IsLatency(kind)  == kind \in {"latency", "jittered"}
ErrReplay  == [kind |-> "error", ns |-> 0]
NoFault    == [kind |-> "none", ns |-> 0]

VARIABLES
  phase,     \* "record", "replay" or "checked"
  rules,     \* installed rules
  cur,       \* match counts of their strategies
  events,    \* recorder.events
  own,       \* history: per event, the first fault its own call injected
  call,      \* per caller: the operation in Eval or Before
  trace,     \* operations run, in order
  pos,       \* replay: operations run so far
  golden     \* the file: the events of the recording

vars == <<phase, rules, cur, events, own, call, trace, pos, golden>>
Idle == [op |-> "none", at |-> 0, faults |-> << >>, event |-> 0]

Init ==
  /\ phase = "record" /\ rules = Rules
  /\ cur = [i \in DOMAIN Rules |-> 0]
  /\ events = << >> /\ own = << >>
  /\ call = [c \in Callers |-> Idle]
  /\ trace = << >> /\ pos = 0 /\ golden = << >>

-----------------------------------------------------------------------------
(* The observer's callbacks.  The engine makes none for a nameless rule.   *)
Observe(rule, op, fired) ==
  IF rule.name = "" THEN UNCHANGED <<events, own>>
  ELSE /\ events' = Append(events, [fired |-> fired, rule |-> rule.name, kind |-> op,
                                    faultKind |-> "none", ns |-> 0])
       /\ own' = Append(own, NoFault)
RuleFired(rule, op)   == Observe(rule, op, TRUE)
RuleSkipped(rule, op) == Observe(rule, op, FALSE)

Unannotated(name) ==
  {i \in DOMAIN events : events[i].fired /\ events[i].rule = name /\ events[i].faultKind = "none"}

FaultInjected(name, f) ==
  events' = IF Unannotated(name) = {} THEN events
            ELSE [events EXCEPT ![CHOOSE i \in Unannotated(name) : \A j \in Unannotated(name) : j <= i] =
                    [@ EXCEPT !.faultKind = f.kind, !.ns = f.ns]]

-----------------------------------------------------------------------------
(* A caller starts an operation: any while recording, the next of the       *)
(* trace while replaying.                                                  *)
Begin(c, op) ==
  /\ call[c] = Idle
  /\ \/ phase = "record" /\ Len(trace) < MaxOps /\ trace' = Append(trace, op) /\ UNCHANGED pos
     \/ phase = "replay" /\ pos < Len(trace) /\ op = trace[pos + 1] /\ pos' = pos + 1 /\ UNCHANGED trace
  /\ call' = [call EXCEPT ![c] = [Idle EXCEPT !.op = op, !.at = 1]]
  /\ UNCHANGED <<phase, rules, cur, events, own, golden>>

Evaluating(c) == call[c].op # "none" /\ call[c].faults = << >>
NextRule(c)   == call' = [call EXCEPT ![c].at = @ + 1]
Return(c)     == call' = [call EXCEPT ![c] = Idle]
Kept          == UNCHANGED <<phase, rules, trace, pos, golden>>

EvalDone(c) ==
  /\ Evaluating(c) /\ call[c].at > Len(rules)
  /\ Return(c)
  /\ Kept /\ UNCHANGED <<cur, events, own>>

(* evalRule: no match, a skip by the strategy, by a rail, or a fire. *)
evalRule(c, rail, fire) ==
  LET i == call[c].at
      r == rules[i]
      op == call[c].op
      n == cur[i] + 1
      faults == FaultsAt(r.counter, r.faults, n)
  IN  /\ Evaluating(c) /\ i <= Len(rules)
      /\ Kept
      /\ IF op \notin r.kinds
           THEN rail = "allow" /\ fire /\ NextRule(c) /\ UNCHANGED <<cur, events, own>>
         ELSE /\ fire \in shouldFire(r.counter, n)
              /\ cur' = [cur EXCEPT ![i] = n]
              /\ \/ ~fire /\ rail = "allow" /\ RuleSkipped(r, op) /\ NextRule(c)
                 \/ fire /\ rail = "limit" /\ RuleSkipped(r, op) /\ NextRule(c)
                 \/ fire /\ rail = "refuse" /\ RuleSkipped(r, op) /\ Return(c)
                 \/ /\ fire /\ rail = "allow" /\ RuleFired(r, op)
                    /\ call' = [call EXCEPT ![c] = [op |-> op, at |-> i, faults |-> faults,
                                  event |-> IF r.name = "" THEN 0 ELSE Len(events) + 1]]

(* Before: one fault of the chain; notifyInjected comes after Apply. *)
Before(c) ==
  LET f == Head(call[c].faults)
      rest == Tail(call[c].faults)
      e == call[c].event
  IN  /\ call[c].faults # << >>
      /\ Kept /\ UNCHANGED cur
      /\ IF ShortCircuits(f) THEN Return(c) /\ UNCHANGED events
         ELSE /\ FaultInjected(rules[call[c].at].name, f)
              /\ IF rest = << >> THEN Return(c) ELSE call' = [call EXCEPT ![c].faults = rest]
      /\ own' = IF e # 0 /\ own[e] = NoFault THEN [own EXCEPT ![e] = f] ELSE own

-----------------------------------------------------------------------------
(* buildReplayRules: one rule per name, by the first event of each.        *)
Of(evs, name)  == SelectSeq(evs, LAMBDA e : e.rule = name)
Fired(evs)     == SelectSeq(evs, LAMBDA e : e.fired)

\* a mask of the fires alone
ObserveFires(evs) ==
  [mask |-> [i \in DOMAIN Fired(evs) |-> TRUE], kinds |-> {evs[i].kind : i \in DOMAIN evs},
   fault |-> ErrReplay]

(* replayAcc: every decision goes into the mask, the first fire decides    *)
(* the fault.                                                              *)
observe(evs) ==
  LET first == Fired(evs)[1]
  IN  [mask  |-> [i \in DOMAIN evs |-> evs[i].fired],
       kinds |-> {evs[i].kind : i \in DOMAIN evs},
       fault |-> IF Fired(evs) # << >> /\ IsLatency(first.faultKind)
                 THEN [kind |-> "latency", ns |-> first.ns] ELSE ErrReplay]

ReplayRule(name, acc) ==
  [name |-> name, kinds |-> acc.kinds, counter |-> [kind |-> "sequence", fire |-> acc.mask],
   faults |-> <<acc.fault>>]

buildReplayRules(evs) ==
  LET firsts == SelectSeq([i \in DOMAIN evs |-> i], LAMBDA i : \A j \in 1 .. i - 1 : evs[j].rule # evs[i].rule)
  IN  [k \in DOMAIN firsts |-> ReplayRule(evs[firsts[k]].rule, observe(Of(evs, evs[firsts[k]].rule)))]

firedNames(evs) == [i \in DOMAIN Fired(evs) |-> Fired(evs)[i].rule]

(* The recording test's cleanup writes the file; the replaying test reads  *)
(* it and installs the rules and a recorder of its own.                    *)
Replay ==
  /\ phase = "record" /\ \A c \in Callers : call[c] = Idle
  /\ phase' = "replay"
  /\ golden' = events
  /\ rules' = buildReplayRules(events) /\ cur' = [i \in DOMAIN rules' |-> 0]
  /\ events' = << >> /\ own' = << >>
  /\ UNCHANGED <<call, trace, pos>>

(* The replaying test's cleanup: diffSequences says nothing. *)
Cleanup ==
  /\ phase = "replay" /\ pos = Len(trace) /\ \A c \in Callers : call[c] = Idle
  /\ phase' = "checked"
  /\ UNCHANGED <<rules, cur, events, own, call, trace, pos, golden>>

Next ==
  \/ \E c \in Callers :
       \/ \E op \in Kinds : Begin(c, op)
       \/ EvalDone(c) \/ Before(c)
       \/ \E rail \in (IF phase = "record" THEN Rails ELSE {"allow"}), fire \in BOOLEAN : evalRule(c, rail, fire)
  \/ Replay \/ Cleanup

Spec == Init /\ [][Next]_vars

-----------------------------------------------------------------------------
(* What Replay asserts of the run, and at every moment of it: the rules     *)
(* fire as recorded, in the recorded order.                                *)
ReplayReproduces ==
  /\ phase = "replay" => IsPrefix(firedNames(events), firedNames(golden))
  /\ phase = "checked" => firedNames(events) = firedNames(golden)

(* "It runs during Before on the same goroutine that produced the preceding *)
(* RuleFired": a fire is annotated with a fault of its own call, the first  *)
(* one that was injected.                                                  *)
AnnotatedWithOwn ==
  \A i \in DOMAIN events :
    events[i].faultKind # "none" => events[i].faultKind = own[i].kind /\ events[i].ns = own[i].ns

=============================================================================
