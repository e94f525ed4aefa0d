---------------------------- MODULE FailureBudget ----------------------------
(***************************************************************************)
(* The failure budget of engine/budget.go as operations on its value: a    *)
(* ring of the last Window call outcomes, the write position, whether the  *)
(* ring has wrapped once, and the number of errors in the ring.  record    *)
(* and overBudget each run under the budget's own mutex, so each is one    *)
(* atomic operation wherever it is used (FailureBudgetSpec, Engine).       *)
(*                                                                         *)
(* The code compares float64(errors)/float64(Window) with maxRate.  The    *)
(* quotient is monotone in errors and reaches 1 >= maxRate at Window, so   *)
(* the comparison is errors >= Threshold for one Threshold in 0..Window.   *)
(***************************************************************************)
EXTENDS Integers

CONSTANTS Window,      \* length of the ring, >= 1 (newFailureBudget panics otherwise)
          Threshold    \* least number of errors that is over budget

ASSUME BudgetAssumption == /\ Window \in Nat \ {0}
                           /\ Threshold \in 0 .. Window

Slots == 0 .. Window - 1

Budget == [ring : [Slots -> BOOLEAN], idx : Slots, filled : BOOLEAN, errors : Int]

newFailureBudget ==
  [ring |-> [i \in Slots |-> FALSE], idx |-> 0, filled |-> FALSE, errors |-> 0]

One(cond) == IF cond THEN 1 ELSE 0

-----------------------------------------------------------------------------
(* Mutants of record. *)

\* the position wraps one slot early and the last slot is never used
RecordSkipsLast(b, isErr) ==
  [ring   |-> [b.ring EXCEPT ![b.idx] = isErr],
   idx    |-> IF b.idx + 2 >= Window THEN 0 ELSE b.idx + 1,
   filled |-> b.filled \/ b.idx + 2 >= Window,
   errors |-> b.errors - One(b.ring[b.idx]) + One(isErr)]

-----------------------------------------------------------------------------
(* record: the outcome replaces the oldest one, whose error is taken off. *)
record(b, isErr) ==
  LET wraps == b.idx + 1 = Window
  IN  [ring   |-> [b.ring EXCEPT ![b.idx] = isErr],
       idx    |-> IF wraps THEN 0 ELSE b.idx + 1,
       filled |-> b.filled \/ wraps,
       errors |-> b.errors - One(b.ring[b.idx]) + One(isErr)]

\* an off-by-one in the comparison with the allowed rate
OverBudgetStrict(b) == b.filled /\ b.errors > Threshold

overBudget(b) == b.filled /\ b.errors >= Threshold

=============================================================================
