------------------------------- MODULE Sticky -------------------------------
(***************************************************************************)
(* The sticky tracker of engine/sticky.go: a bounded map from attribute    *)
(* values to the end of their sticky window.  Its operations run under its *)
(* mutex, so each is a step.  decideFire looks up, asks the counter and    *)
(* marks in separate critical sections; with several goroutines a lookup   *)
(* and the mark it leads to may be any steps apart, as they are here.      *)
(***************************************************************************)
EXTENDS Integers, FiniteSets, Functions

CONSTANTS Values,    \* values of the attribute
          window,    \* ticks a mark lasts
          cap,       \* >= 1 (StickyAttr raises a smaller one to 1)
          MaxTime    \* bound: the clock stops here

VARIABLES
  now,       \* time.Now()
  seen,      \* the map: a function from tracked values to their expiry
  lastMark   \* history: when each value was last marked, or Never

vars == <<now, seen, lastMark>>

Never == -1

Init ==
  /\ now = 0
  /\ seen = [v \in {} |-> 0]
  /\ lastMark = [v \in Values |-> Never]

(* s.now().After(exp) *)
Expired(v) == now > seen[v]

(* sticky: says whether v is tracked and in its window. *)
Stuck(v) == v \in DOMAIN seen /\ ~Expired(v)

Lookup(v) ==
  /\ v \in DOMAIN seen
  /\ Expired(v)
  /\ seen' = Restrict(seen, DOMAIN seen \ {v})
  /\ UNCHANGED <<now, lastMark>>

\* any entry may be the victim
VictimsAny == DOMAIN seen

(* evictOldestLocked: the entries that end soonest; the range over the map *)
(* is unordered, so any of them may be the victim.                         *)
Victims == {v \in DOMAIN seen : \A w \in DOMAIN seen : seen[v] <= seen[w]}

(* mark: a new value at capacity evicts first; the expiry is (re)written. *)
Mark(v) ==
  /\ \E keep \in IF v \notin DOMAIN seen /\ Cardinality(DOMAIN seen) >= cap
                 THEN {DOMAIN seen \ {old} : old \in Victims} ELSE {DOMAIN seen} :
       seen' = [w \in keep \cup {v} |-> IF w = v THEN now + window ELSE seen[w]]
  /\ lastMark' = [lastMark EXCEPT ![v] = now]
  /\ UNCHANGED now

Tick ==
  /\ now < MaxTime
  /\ now' = now + 1
  /\ UNCHANGED <<seen, lastMark>>

Next == Tick \/ \E v \in Values : Lookup(v) \/ Mark(v)

Spec == Init /\ [][Next]_vars

-----------------------------------------------------------------------------
(* "cap bounds memory": never more than cap values are tracked. *)
Bounded == Cardinality(DOMAIN seen) <= cap

InWindow(v) == lastMark[v] # Never /\ now <= lastMark[v] + window

(* A value is stuck only within the window of its last mark. *)
StuckOnlyInWindow == \A v \in Values : Stuck(v) => InWindow(v)

(* The tracker forgets the coldest values first: one still in its window   *)
(* is stuck unless cap others were marked since.  In particular a value    *)
(* that is marked again and again is not evicted while a colder survives.  *)
RecentRemembered ==
  \A v \in Values :
    /\ InWindow(v)
    /\ Cardinality({w \in Values \ {v} : lastMark[w] >= lastMark[v]}) < cap
    => Stuck(v)

=============================================================================
