--------------------------- MODULE ConcurrencyCap ---------------------------
(***************************************************************************)
(* What WithMaxConcurrent(n) promises (engine/engine.go, "caps the number  *)
(* of simultaneously in-flight faulted calls to n"): a call enters only    *)
(* while fewer than Cap places are taken, and leaves once.  A call whose   *)
(* place is lost leaves without giving it back.                            *)
(***************************************************************************)
EXTENDS Integers, FiniteSets

CONSTANTS Calls, Cap

VARIABLES inflight,   \* the calls that hold a place
          lost        \* places that will never come back

Init == inflight = {} /\ lost = 0

Enter(c) ==
  /\ c \notin inflight
  /\ Cardinality(inflight) + lost < Cap
  /\ inflight' = inflight \cup {c}
  /\ UNCHANGED lost

Leave(c) ==
  /\ c \in inflight
  /\ inflight' = inflight \ {c}
  /\ UNCHANGED lost

Lose(c) ==
  /\ c \in inflight
  /\ inflight' = inflight \ {c}
  /\ lost' = lost + 1

Next == \E c \in Calls : Enter(c) \/ Leave(c) \/ Lose(c)

Spec == Init /\ [][Next]_<<inflight, lost>>

=============================================================================
