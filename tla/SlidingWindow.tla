---------------------------- MODULE SlidingWindow ----------------------------
(***************************************************************************)
(* What WithFailureBudget promises (engine/engine.go, "the observed error  *)
(* rate over a sliding window of the last window calls"): the outcomes of  *)
(* the last Window calls, oldest first, with no ring and no counter.       *)
(***************************************************************************)
EXTENDS Integers, Sequences, FiniteSets

CONSTANTS Window, Threshold

VARIABLE recent      \* the last outcomes, oldest first; TRUE is an error

Init == recent = << >>

(* A call reports its outcome; the oldest one leaves a full window. *)
Report(isErr) ==
  recent' = IF Len(recent) < Window THEN Append(recent, isErr)
                                    ELSE Append(Tail(recent), isErr)

Next == \E isErr \in BOOLEAN : Report(isErr)

Spec == Init /\ [][Next]_recent

(* Injection stops: the window is full and holds Threshold errors or more. *)
Suppressed ==
  /\ Len(recent) = Window
  /\ Cardinality({i \in 1 .. Len(recent) : recent[i]}) >= Threshold

=============================================================================
