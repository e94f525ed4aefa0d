------------------------- MODULE FailureBudgetProofs -------------------------
(***************************************************************************)
(* The failure budget is exact for every window length and threshold: its  *)
(* running counter is the number of errors in the ring, its verdict is the *)
(* sliding window's, and the ring implements the sliding window.           *)
(***************************************************************************)
EXTENDS FailureBudgetSpec, FiniteSetTheorems, FunctionTheorems, SequenceTheorems, TLAPS

ErrorSlots(ring) == {i \in Slots : ring[i]}

(* The inductive invariant: the counter is exact, and the slots that were  *)
(* never written hold no error (so the first lap subtracts nothing).       *)
IInv == BudgetTypeOK /\ ErrorsExact /\ FreshSlotsClean

-----------------------------------------------------------------------------
(* The ring is finite, whatever it holds: Cardinality is meaningful. *)
LEMMA ErrorSlotsFinite ==
  ASSUME NEW ring \in [Slots -> BOOLEAN]
  PROVE  IsFiniteSet(ErrorSlots(ring)) /\ Cardinality(ErrorSlots(ring)) \in Nat
  <1>1. IsFiniteSet(Slots)
    BY BudgetAssumption, FS_Interval DEF Slots
  <1>2. ErrorSlots(ring) \in SUBSET Slots
    BY DEF ErrorSlots
  <1> QED BY <1>1, <1>2, FS_Subset, FS_CardinalityType

(* Overwriting one slot changes the number of errors by the error that     *)
(* leaves and the error that arrives: the arithmetic of record.            *)
LEMMA OverwriteCount ==
  ASSUME NEW ring \in [Slots -> BOOLEAN], NEW i \in Slots, NEW e \in BOOLEAN
  PROVE  Cardinality(ErrorSlots([ring EXCEPT ![i] = e])) =
           Cardinality(ErrorSlots(ring)) - One(ring[i]) + One(e)
  <1> DEFINE S == ErrorSlots(ring)
             R == S \ {i}
  <1>1. IsFiniteSet(S) /\ Cardinality(S) \in Nat
    BY ErrorSlotsFinite
  <1>2. IsFiniteSet(R) /\ Cardinality(R) = IF i \in S THEN Cardinality(S) - 1 ELSE Cardinality(S)
    BY <1>1, FS_RemoveElement
  <1>3. i \in S <=> ring[i]
    BY DEF ErrorSlots
  <1>4. Cardinality(R) = Cardinality(S) - One(ring[i])
    BY <1>1, <1>2, <1>3 DEF One
  <1>5. CASE e = TRUE
    <2>1. ErrorSlots([ring EXCEPT ![i] = e]) = R \cup {i}
      BY <1>5 DEF ErrorSlots
    <2>2. Cardinality(R \cup {i}) = Cardinality(R) + 1
      BY <1>2, FS_AddElement
    <2> QED BY <1>1, <1>4, <1>5, <2>1, <2>2 DEF One
  <1>6. CASE e = FALSE
    <2>1. ErrorSlots([ring EXCEPT ![i] = e]) = R
      BY <1>6 DEF ErrorSlots
    <2>2. One(e) = 0 /\ One(ring[i]) \in Int
      BY <1>6 DEF One
    <2>3. Cardinality(ErrorSlots([ring EXCEPT ![i] = e])) = Cardinality(R)
      BY <2>1
    <2> HIDE DEF S, R
    <2>4. Cardinality(R) = Cardinality(S) - One(ring[i]) + One(e)
      BY <1>1, <1>4, <2>2
    <2> QED BY <2>3, <2>4 DEF S
  <1> QED BY <1>5, <1>6

(* record keeps the counter exact and the unwritten slots clean. *)
LEMMA RecordInductive ==
  ASSUME IInv, NEW isErr \in BOOLEAN, Outcome(isErr)
  PROVE  IInv'
  <1> USE BudgetAssumption
  <1> DEFINE b == budget
             nb == record(budget, isErr)
  <1>1. /\ b.ring \in [Slots -> BOOLEAN] /\ b.idx \in Slots
        /\ b.filled \in BOOLEAN /\ b.errors \in Int
    BY DEF IInv, BudgetTypeOK, Budget
  <1>2. budget' = nb
    BY DEF Outcome
  <1>3. /\ nb.ring = [b.ring EXCEPT ![b.idx] = isErr]
        /\ nb.idx = IF b.idx + 1 = Window THEN 0 ELSE b.idx + 1
        /\ nb.filled = (b.filled \/ b.idx + 1 = Window)
        /\ nb.errors = b.errors - One(b.ring[b.idx]) + One(isErr)
    BY DEF record
  <1>4. nb \in Budget
    <2>1. nb.ring \in [Slots -> BOOLEAN]
      BY <1>1, <1>3
    <2>2. nb.idx \in Slots
      BY <1>1, <1>3 DEF Slots
    <2>3. nb.errors \in Int
      BY <1>1, <1>3 DEF One
    <2> QED BY <1>1, <2>1, <2>2, <2>3 DEF record, Budget
  <1>5. nb.errors = Cardinality(ErrorSlots(nb.ring))
    <2>1. b.errors = Cardinality(ErrorSlots(b.ring))
      BY DEF IInv, ErrorsExact, ErrorSlots
    <2> QED BY <1>1, <1>3, <2>1, OverwriteCount
  <1>6. ~nb.filled => \A i \in Slots : i >= nb.idx => ~nb.ring[i]
    BY <1>1, <1>3 DEF IInv, FreshSlotsClean, Slots
  <1> QED BY <1>2, <1>4, <1>5, <1>6 DEF IInv, BudgetTypeOK, ErrorsExact, FreshSlotsClean, ErrorSlots

(* The fields keep their types, the counter of record is the number of     *)
(* errors in the ring, and unwritten slots are clean, in every behaviour.  *)
THEOREM BudgetInvariant == BudgetSpec => []IInv
  <1>1. BudgetInit => IInv
    <2> SUFFICES ASSUME BudgetInit PROVE IInv
      OBVIOUS
    <2>1. budget = newFailureBudget /\ 0 \in Slots
      BY BudgetAssumption DEF BudgetInit, Slots
    <2>2. ErrorSlots(budget.ring) = {}
      BY <2>1 DEF newFailureBudget, ErrorSlots
    <2> QED BY <2>1, <2>2, FS_EmptySet
          DEF newFailureBudget, IInv, BudgetTypeOK, Budget, ErrorsExact, FreshSlotsClean, ErrorSlots
  <1>2. IInv /\ [BudgetNext]_budget => IInv'
    <2> SUFFICES ASSUME IInv, [BudgetNext]_budget PROVE IInv'
      OBVIOUS
    <2>1. ASSUME NEW isErr \in BOOLEAN, Outcome(isErr) PROVE IInv'
      BY <2>1, RecordInductive
    <2>2. CASE UNCHANGED budget
      BY <2>2 DEF IInv, BudgetTypeOK, ErrorsExact, FreshSlotsClean
    <2> QED BY <2>1, <2>2 DEF BudgetNext
  <1> QED BY <1>1, <1>2, PTL DEF BudgetSpec

(* record's running counter never drifts from the errors in the ring. *)
THEOREM CounterExact == BudgetSpec => []ErrorsExact
  BY BudgetInvariant, PTL DEF IInv

-----------------------------------------------------------------------------
(* The window is a sequence of Window outcomes once full, of idx before. *)
LEMMA RecentShape ==
  ASSUME NEW b \in Budget
  PROVE  /\ RecentOf(b) \in Seq(BOOLEAN)
         /\ Len(RecentOf(b)) = IF b.filled THEN Window ELSE b.idx
         /\ b.filled => \A k \in 1 .. Window :
                          RecentOf(b)[k] = b.ring[SlotOf(b, k)] /\ SlotOf(b, k) \in Slots
         /\ ~b.filled => \A k \in 1 .. b.idx : RecentOf(b)[k] = b.ring[k - 1]
  <1> USE BudgetAssumption
  <1>1. b.ring \in [Slots -> BOOLEAN] /\ b.idx \in Slots /\ b.filled \in BOOLEAN
    BY DEF Budget
  <1>2. CASE b.filled
    <2>1. RecentOf(b) = [k \in 1 .. Window |-> b.ring[SlotOf(b, k)]]
      BY <1>2 DEF RecentOf
    <2>2. \A k \in 1 .. Window : SlotOf(b, k) \in Slots
      BY <1>1 DEF SlotOf, Slots
    <2>3. \A k \in 1 .. Window : b.ring[SlotOf(b, k)] \in BOOLEAN
      BY <1>1, <2>2
    <2> QED BY <1>2, <2>1, <2>2, <2>3
  <1>3. CASE ~b.filled
    <2>1. RecentOf(b) = [k \in 1 .. b.idx |-> b.ring[k - 1]]
      BY <1>3 DEF RecentOf
    <2>2. \A k \in 1 .. b.idx : b.ring[k - 1] \in BOOLEAN
      BY <1>1 DEF Slots
    <2> QED BY <1>1, <1>3, <2>1, <2>2 DEF Slots
  <1> QED BY <1>1, <1>2, <1>3

(* A full window holds as many errors as the ring: the positions of the    *)
(* window and the slots of the ring correspond one to one.                 *)
LEMMA WindowCount ==
  ASSUME NEW b \in Budget, b.filled
  PROVE  Cardinality({k \in 1 .. Window : RecentOf(b)[k]}) = Cardinality(ErrorSlots(b.ring))
  <1> USE BudgetAssumption
  <1> DEFINE P == {k \in 1 .. Window : RecentOf(b)[k]}
             S == ErrorSlots(b.ring)
             F == [k \in P |-> SlotOf(b, k)]
  <1>1. b.ring \in [Slots -> BOOLEAN] /\ b.idx \in Slots
    BY DEF Budget
  <1>2. \A k \in 1 .. Window : RecentOf(b)[k] = b.ring[SlotOf(b, k)] /\ SlotOf(b, k) \in Slots
    BY RecentShape
  <1>3. F \in [P -> S]
    BY <1>2 DEF ErrorSlots
  <1>4. \A j, k \in P : F[j] = F[k] => j = k
    BY <1>1 DEF SlotOf, Slots
  <1>5. \A i \in S : \E k \in P : F[k] = i
    <2> SUFFICES ASSUME NEW i \in S PROVE \E k \in P : F[k] = i
      OBVIOUS
    <2>1. i \in Slots /\ b.ring[i]
      BY DEF ErrorSlots
    <2> DEFINE k == IF i >= b.idx THEN i - b.idx + 1 ELSE i - b.idx + 1 + Window
    <2>2. k \in 1 .. Window /\ SlotOf(b, k) = i
      BY <1>1, <2>1 DEF SlotOf, Slots
    <2> HIDE DEF k
    <2>3. k \in P
      BY <1>2, <2>1, <2>2
    <2> QED BY <2>2, <2>3
  <1>6. ExistsBijection(P, S)
    <2> HIDE DEF F, P, S
    <2> QED BY <1>3, <1>4, <1>5, Fun_IsBij DEF ExistsBijection
  <1>7. IsFiniteSet(P)
    <2>1. IsFiniteSet(1 .. Window)
      BY FS_Interval
    <2> QED BY <2>1, FS_Subset
  <1>8. Cardinality(P) = Cardinality(S)
    <2> HIDE DEF P, S
    <2> QED BY <1>6, <1>7, FS_Bijection
  <1> QED BY <1>8

(* overBudget says exactly what the sliding window says. *)
LEMMA VerdictFromInvariant == IInv => VerdictExact
  <1> SUFFICES ASSUME IInv PROVE VerdictExact
    OBVIOUS
  <1>1. /\ budget.errors = Cardinality(ErrorSlots(budget.ring))
        /\ budget \in Budget /\ budget.filled \in BOOLEAN
    BY DEF IInv, ErrorsExact, ErrorSlots, BudgetTypeOK, Budget
  <1>2. CASE budget.filled
    <2>1. Len(Recent) = Window
      BY <1>1, <1>2, RecentShape DEF Recent
    <2>2. Cardinality({k \in 1 .. Len(Recent) : Recent[k]}) = budget.errors
      BY <1>1, <1>2, <2>1, WindowCount DEF Recent
    <2>3. SW!Suppressed <=> budget.errors >= Threshold
      <3>1. \A X : SW!Cardinality(X) = Cardinality(X)
        BY Zenon DEF SW!Cardinality, Cardinality
      <3> QED BY <2>1, <2>2, <3>1 DEF SW!Suppressed
    <2> QED BY <1>2, <2>3 DEF VerdictExact, overBudget
  <1>3. CASE ~budget.filled
    <2>1. Len(Recent) # Window
      BY <1>1, <1>3, RecentShape, BudgetAssumption DEF Budget, Slots, Recent
    <2> QED BY <1>3, <2>1 DEF VerdictExact, overBudget, SW!Suppressed
  <1> QED BY <1>1, <1>2, <1>3

(* Injection is suppressed exactly when the last Window outcomes hold      *)
(* Threshold errors or more, for every window and threshold.               *)
THEOREM BudgetVerdictExact == BudgetSpec => []VerdictExact
  BY BudgetInvariant, VerdictFromInvariant, PTL

-----------------------------------------------------------------------------
(* One record is one Report of the sliding window: it appends while the    *)
(* ring is filling and drops the oldest outcome once it is full.           *)
LEMMA RecordReports ==
  ASSUME NEW b \in Budget, NEW isErr \in BOOLEAN, record(b, isErr) \in Budget
  PROVE  RecentOf(record(b, isErr)) =
           IF Len(RecentOf(b)) < Window THEN Append(RecentOf(b), isErr)
                                        ELSE Append(Tail(RecentOf(b)), isErr)
  <1> USE BudgetAssumption
  <1> DEFINE nb == record(b, isErr)
             old == RecentOf(b)
             new == RecentOf(nb)
  <1>1. /\ b.ring \in [Slots -> BOOLEAN] /\ b.idx \in Slots /\ b.filled \in BOOLEAN
    BY DEF Budget
  <1>2. /\ nb.ring = [b.ring EXCEPT ![b.idx] = isErr]
        /\ nb.idx = IF b.idx + 1 = Window THEN 0 ELSE b.idx + 1
        /\ nb.filled = (b.filled \/ b.idx + 1 = Window)
    BY DEF record
  <1>3. /\ old \in Seq(BOOLEAN)
        /\ Len(old) = IF b.filled THEN Window ELSE b.idx
        /\ b.filled => \A k \in 1 .. Window :
                         old[k] = b.ring[SlotOf(b, k)] /\ SlotOf(b, k) \in Slots
        /\ ~b.filled => \A k \in 1 .. b.idx : old[k] = b.ring[k - 1]
    BY RecentShape
  <1>4. /\ nb \in Budget
        /\ new \in Seq(BOOLEAN)
        /\ Len(new) = IF nb.filled THEN Window ELSE nb.idx
        /\ nb.filled => \A k \in 1 .. Window :
                         new[k] = nb.ring[SlotOf(nb, k)] /\ SlotOf(nb, k) \in Slots
        /\ ~nb.filled => \A k \in 1 .. nb.idx : new[k] = nb.ring[k - 1]
    BY RecentShape
  <1> HIDE DEF nb, old, new
  <1>5. CASE b.filled
    <2> DEFINE target == Append(Tail(old), isErr)
    <2>1. /\ target \in Seq(BOOLEAN) /\ Len(target) = Window
          /\ \A k \in 1 .. Window : target[k] = IF k = Window THEN isErr ELSE old[k + 1]
      BY <1>3, <1>5
    <2>2. \A k \in 1 .. Window - 1 : SlotOf(nb, k) = SlotOf(b, k + 1) /\ SlotOf(nb, k) # b.idx
      BY <1>1, <1>2 DEF SlotOf, Slots
    <2>3. SlotOf(nb, Window) = b.idx
      BY <1>1, <1>2 DEF SlotOf, Slots
    <2>4. \A k \in 1 .. Window : new[k] = target[k]
      <3> SUFFICES ASSUME NEW k \in 1 .. Window PROVE new[k] = target[k]
        OBVIOUS
      <3>1. new[k] = nb.ring[SlotOf(nb, k)] /\ SlotOf(nb, k) \in Slots
        BY <1>2, <1>4, <1>5
      <3>2. CASE k = Window
        BY <1>1, <1>2, <2>1, <2>3, <3>1, <3>2
      <3>3. CASE k # Window
        <4>1. k \in 1 .. Window - 1 /\ k + 1 \in 1 .. Window
          BY <3>3
        <4>2. new[k] = b.ring[SlotOf(b, k + 1)]
          BY <1>1, <1>2, <2>2, <3>1, <4>1
        <4> QED BY <1>3, <1>5, <2>1, <3>3, <4>1, <4>2
      <3> QED BY <3>2, <3>3
    <2> HIDE DEF target
    <2>5. Len(new) = Window
      BY <1>2, <1>4, <1>5
    <2>6. new = target
      BY <1>4, <2>1, <2>4, <2>5, SeqEqual
    <2> QED BY <1>3, <1>5, <2>6 DEF target, old, new, nb
  <1>6. CASE ~b.filled
    <2> DEFINE target == Append(old, isErr)
    <2>1. /\ target \in Seq(BOOLEAN) /\ Len(target) = b.idx + 1
          /\ \A k \in 1 .. b.idx + 1 : target[k] = IF k = b.idx + 1 THEN isErr ELSE old[k]
      BY <1>1, <1>3, <1>6
    <2>2. Len(new) = b.idx + 1 /\ \A k \in 1 .. b.idx + 1 : new[k] = nb.ring[k - 1]
      <3>1. CASE b.idx + 1 = Window
        <4>1. nb.filled /\ nb.idx = 0
          BY <1>2, <3>1
        <4>2. \A k \in 1 .. Window : SlotOf(nb, k) = k - 1
          BY <4>1 DEF SlotOf
        <4> QED BY <1>4, <3>1, <4>1, <4>2
      <3>2. CASE b.idx + 1 # Window
        <4>1. ~nb.filled /\ nb.idx = b.idx + 1
          BY <1>2, <1>6, <3>2
        <4> QED BY <1>4, <4>1
      <3> QED BY <3>1, <3>2
    <2>3. \A k \in 1 .. b.idx + 1 : k - 1 \in Slots /\ (k - 1 = b.idx <=> k = b.idx + 1)
      BY <1>1 DEF Slots
    <2>4. \A k \in 1 .. b.idx + 1 : new[k] = target[k]
      <3> SUFFICES ASSUME NEW k \in 1 .. b.idx + 1 PROVE new[k] = target[k]
        OBVIOUS
      <3>1. new[k] = IF k = b.idx + 1 THEN isErr ELSE b.ring[k - 1]
        BY <1>1, <1>2, <2>2, <2>3
      <3>2. k # b.idx + 1 => old[k] = b.ring[k - 1]
        BY <1>1, <1>3, <1>6 DEF Slots
      <3> QED BY <2>1, <3>1, <3>2
    <2> HIDE DEF target
    <2>5. new = target
      BY <1>1, <1>4, <2>1, <2>2, <2>4, SeqEqual DEF Slots
    <2>6. Len(old) < Window
      BY <1>1, <1>3, <1>6 DEF Slots
    <2> QED BY <2>5, <2>6 DEF target, old, new, nb
  <1> QED BY <1>1, <1>5, <1>6

(* The ring of budget.go implements the sliding window of its promise: the *)
(* initial ring is the empty window and every record is a Report.          *)
THEOREM BudgetRefinesSlidingWindow == BudgetSpec => RefinesSlidingWindow
  <1>1. BudgetInit => SW!Init
    <2> SUFFICES ASSUME BudgetInit PROVE Recent = << >>
      BY DEF SW!Init
    <2>1. Recent = [k \in 1 .. 0 |-> budget.ring[k - 1]]
      BY DEF BudgetInit, newFailureBudget, Recent, RecentOf
    <2> QED BY <2>1
  <1>2. IInv /\ IInv' /\ [BudgetNext]_budget => [SW!Next]_Recent
    <2> SUFFICES ASSUME IInv, IInv', [BudgetNext]_budget PROVE [SW!Next]_Recent
      OBVIOUS
    <2>1. ASSUME NEW isErr \in BOOLEAN, Outcome(isErr) PROVE SW!Report(isErr)
      <3>1. budget \in Budget /\ budget' = record(budget, isErr) /\ budget' \in Budget
        BY <2>1 DEF IInv, BudgetTypeOK, Outcome
      <3>2. Recent' = RecentOf(record(budget, isErr))
        BY <3>1 DEF Recent
      <3> QED BY <3>1, <3>2, RecordReports DEF SW!Report, Recent
    <2>2. CASE UNCHANGED budget
      BY <2>2 DEF Recent
    <2> QED BY <2>1, <2>2 DEF BudgetNext, SW!Next
  <1> QED BY <1>1, <1>2, BudgetInvariant, PTL DEF BudgetSpec, RefinesSlidingWindow, SW!Spec

=============================================================================
