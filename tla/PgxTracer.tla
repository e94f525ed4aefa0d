----------------------------- MODULE PgxTracer -----------------------------
(***************************************************************************)
(* The query tracer of adapter/pgx: an action begun in TraceQueryStart is  *)
(* carried in the query's context and finished in TraceQueryEnd.  The pool *)
(* calls both hooks, of queries on several connections, around each query. *)
(***************************************************************************)
EXTENDS Integers, Sequences, FiniteSets

CONSTANTS
  Queries,
  Instrumented,   \* how often InstrumentPoolConfig wired the config
  UserTracer,     \* a tracer was set before
  Cap             \* WithMaxConcurrent

(* wireQueryTracer puts the new tracer before the one that is there. *)
tracers == [i \in 1 .. Instrumented |-> "chaos"] \o (IF UserTracer THEN <<"user">> ELSE << >>)

VARIABLES
  enabled,
  query,      \* per query: [pc, at, ctx], ctx the tracer whose action it carries, or 0
  action,     \* per query and tracer: [begun, held, outcomes], outcomes = Outcome calls
  slots       \* slots taken of the engine's semaphore

vars == <<enabled, query, action, slots>>
None == [begun |-> FALSE, held |-> FALSE, outcomes |-> 0]

Init ==
  /\ enabled \in BOOLEAN
  /\ query = [q \in Queries |-> [pc |-> "new", at |-> 1, ctx |-> 0]]
  /\ action = [q \in Queries |-> [t \in DOMAIN tracers |-> None]]
  /\ slots = 0

Step(q) == query' = [query EXCEPT ![q].at = @ + 1]

(* The next tracer's TraceQueryStart.  A rule may fire if a slot is free;  *)
(* the error of Before is dropped, the slot comes back with it.            *)
startChaos(q, fires, fails) ==
  LET t == query[q].at
      acquires == fires /\ slots < Cap
      holds == acquires /\ ~fails
  IN  /\ query[q].pc = "start" /\ t <= Len(tracers) /\ tracers[t] = "chaos"
      /\ IF ~enabled THEN Step(q) /\ UNCHANGED <<action, slots>>
         ELSE /\ action' = [action EXCEPT ![q][t] = [begun |-> TRUE, held |-> holds, outcomes |-> 0]]
              /\ slots' = IF holds THEN slots + 1 ELSE slots
              /\ query' = [query EXCEPT ![q].at = t + 1, ![q].ctx = t]
      /\ UNCHANGED enabled

startUser(q) ==
  /\ query[q].pc = "start" /\ query[q].at <= Len(tracers) /\ tracers[query[q].at] = "user"
  /\ Step(q)
  /\ UNCHANGED <<enabled, action, slots>>

\* an action that injected an error is taken for one that is over
EndIfHeld(q) ==
  LET t == query[q].at
      c == query[q].ctx
  IN  /\ query[q].pc = "end" /\ t <= Len(tracers)
      /\ IF tracers[t] = "chaos" /\ c # 0 /\ action[q][c].held
           THEN /\ action' = [action EXCEPT ![q][c].held = FALSE, ![q][c].outcomes = @ + 1]
                /\ slots' = slots - 1
           ELSE UNCHANGED <<action, slots>>
      /\ Step(q)
      /\ UNCHANGED enabled

(* TraceQueryEnd finishes the action of the context: Outcome, then After,  *)
(* which releases the slot once.                                           *)
TraceQueryEnd(q) ==
  LET t == query[q].at
      c == query[q].ctx
  IN  /\ query[q].pc = "end" /\ t <= Len(tracers)
      /\ IF tracers[t] = "chaos" /\ c # 0
           THEN /\ action' = [action EXCEPT ![q][c].held = FALSE, ![q][c].outcomes = @ + 1]
                /\ slots' = IF action[q][c].held THEN slots - 1 ELSE slots
           ELSE UNCHANGED <<action, slots>>
      /\ Step(q)
      /\ UNCHANGED enabled

(* The pool's side: a query starts, runs, and ends. *)
Begin(q) ==
  /\ query[q].pc = "new"
  /\ query' = [query EXCEPT ![q].pc = "start"]
  /\ UNCHANGED <<enabled, action, slots>>
Run(q) ==
  /\ query[q].pc = "start" /\ query[q].at > Len(tracers)
  /\ query' = [query EXCEPT ![q].pc = "end", ![q].at = 1]
  /\ UNCHANGED <<enabled, action, slots>>
Finish(q) ==
  /\ query[q].pc = "end" /\ query[q].at > Len(tracers)
  /\ query' = [query EXCEPT ![q].pc = "over"]
  /\ UNCHANGED <<enabled, action, slots>>

Toggle == enabled' = ~enabled /\ UNCHANGED <<query, action, slots>>

Next ==
  \/ \E q \in Queries :
       \/ Begin(q) \/ Run(q) \/ Finish(q) \/ startUser(q) \/ TraceQueryEnd(q)
       \/ \E fires, fails \in BOOLEAN : startChaos(q, fires, fails)
  \/ Toggle

Spec == Init /\ [][Next]_vars

-----------------------------------------------------------------------------
(* "The action is still carried to TraceQueryEnd so After releases any held *)
(* bound exactly once": of a query that is over every action begun has had  *)
(* one outcome and holds nothing, though its error was dropped and the      *)
(* engine was switched meanwhile.                                          *)
FinishedOnce ==
  \A q \in Queries : query[q].pc = "over" =>
    \A t \in DOMAIN tracers : ~action[q][t].held /\ (action[q][t].begun => action[q][t].outcomes = 1)

=============================================================================
