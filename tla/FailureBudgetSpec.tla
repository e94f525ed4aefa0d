-------------------------- MODULE FailureBudgetSpec --------------------------
(***************************************************************************)
(* The failure budget alone, fed with every sequence of outcomes, and the  *)
(* claim that its ring is a sliding window over the last Window calls.     *)
(***************************************************************************)
EXTENDS FailureBudget, Sequences, FiniteSets

VARIABLE budget

BudgetInit == budget = newFailureBudget

(* One call's outcome reaches the budget (Engine.recordOutcome). *)
Outcome(isErr) == budget' = record(budget, isErr)

BudgetNext == \E isErr \in BOOLEAN : Outcome(isErr)

BudgetSpec == BudgetInit /\ [][BudgetNext]_budget

-----------------------------------------------------------------------------
(* The window the ring stands for: before the first wrap the slots written *)
(* so far, afterwards the whole ring from the write position on.           *)
SlotOf(b, k) == IF b.idx + k - 1 < Window THEN b.idx + k - 1
                ELSE b.idx + k - 1 - Window

RecentOf(b) == IF b.filled THEN [k \in 1 .. Window |-> b.ring[SlotOf(b, k)]]
               ELSE [k \in 1 .. b.idx |-> b.ring[k - 1]]

Recent == RecentOf(budget)

SW == INSTANCE SlidingWindow WITH recent <- Recent

(* The budget's fields have the types of failureBudget. *)
BudgetTypeOK == budget \in Budget

(* The running counter that record adjusts by one error in and one error   *)
(* out is the number of errors in the ring, after any number of wraps.     *)
ErrorsExact == budget.errors = Cardinality({i \in Slots : budget.ring[i]})

(* Slots not written yet hold no error: before the first wrap the ring     *)
(* beyond the write position is untouched, so record subtracts nothing.    *)
FreshSlotsClean == ~budget.filled => \A i \in Slots : i >= budget.idx => ~budget.ring[i]

(* overBudget answers exactly what the sliding window says: never before   *)
(* Window outcomes, and from then on by the errors among the last Window.  *)
VerdictExact == overBudget(budget) <=> SW!Suppressed

(* The ring with its wrapping index implements the sliding window. *)
RefinesSlidingWindow == SW!Spec

=============================================================================
